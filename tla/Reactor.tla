------------------------------- MODULE Reactor -------------------------------
(***************************************************************************)
(* The connection reactor of onyxup (src/sources/server/server.cpp):       *)
(* the single event-loop thread of HttpServer::run, the worker pool of     *)
(* HttpServer::handler_tasks and the three ThreadSafeQueues between them.  *)
(*                                                                         *)
(* A slot fd holds what the reactor keeps per descriptor: m_buffers[fd]    *)
(* (input fill, output send cursor, bytes to send, output contents),       *)
(* m_requests[fd] (the Request flags) and m_alive_sockets[fd] (the         *)
(* liveness stamp).  Every call of steady_clock::now() that is stored is   *)
(* modelled as a value from Stamps not stored anywhere else: a monotonic   *)
(* clock differs from every value read before, and the code only compares *)
(* stamps for equality.  The time-limit test of the sweep is abstracted to *)
(* a nondeterministic choice: any live slot may have timed out.            *)
(*                                                                         *)
(* Request and response bytes are abstracted to lengths; a response byte   *)
(* is a record naming its status code, the request it answers and its      *)
(* index, so that the model can say which bytes a send transmits.          *)
(***************************************************************************)
EXTENDS Integers, Sequences, FiniteSets
LOCAL INSTANCE FiniteSetsExt

CONSTANTS
  FDs,               \* descriptor numbers a client socket may get
  NumThreads,        \* m_number_threads (at least 2, server.cpp:467)
  Stamps,            \* values steady_clock::now() may return when stored
  InitStamp,         \* the value every m_alive_sockets[i] gets in the constructor
  ReqIds,            \* ghost identities of requests
  NoReq,             \* ghost: no request on the slot
  Requests,          \* shapes of requests clients send: [hdr, cl, body, ka, route]
  TaskLens,          \* byte lengths of a prepared handler response
  SynthLen,          \* byte length of a synthesized 404/408/413/503 response
  InCap,             \* m_max_input_length_buffer
  OutCap,            \* m_max_output_length_buffer
  LimitLocalTasks,   \* m_limit_local_tasks
  MaxPending,        \* model bound: the sweep appends to at most this many pending bytes
  SpuriousReadiness, \* whether EPOLLIN may be reported with nothing to read
  EpollCanFail       \* whether epoll_ctl(EPOLL_CTL_MOD) on a client socket may fail

(* What dispatcher() makes of a request: a task of one of the three        *)
(* EnumTaskType values ("jsonrpc" being JSON_RPC_TASK, which handler_tasks *)
(* and the reactor do not handle), no matching route ("none"), or a        *)
(* request phr_parse_request rejects ("malformed").                        *)
Routes == {"local", "static", "jsonrpc", "none", "malformed"}

ASSUME
  /\ FDs \subseteq Nat /\ FDs # {}
  /\ NumThreads \in Nat /\ NumThreads >= 2
  /\ InitStamp \notin Stamps
  /\ NoReq \notin ReqIds
  /\ \A q \in Requests : q.hdr \in Nat \ {0} /\ q.cl \in Int /\ q.body \in Nat
                         /\ q.ka \in BOOLEAN /\ q.route \in Routes
  /\ TaskLens \subseteq Nat \ {0}
  /\ SynthLen \in Nat \ {0} /\ SynthLen < OutCap
  /\ InCap \in Nat /\ OutCap \in Nat
  /\ LimitLocalTasks \in Nat /\ MaxPending \in Nat
  /\ SpuriousReadiness \in BOOLEAN /\ EpollCanFail \in BOOLEAN

Workers == 0 .. NumThreads - 1
NoTask == [fd |-> 0, stamp |-> InitStamp, req |-> NoReq, kind |-> "none", len |-> 0]
Junk == [code |-> "junk", req |-> NoReq, i |-> 0]   \* a byte nothing wrote
Cells == 0 .. OutCap - 1
NoRequest == [hdr |-> 0, cl |-> 0, body |-> 0, ka |-> FALSE, route |-> "none"]

VARIABLES
  live,          \* m_buffers[fd] and m_requests[fd] are allocated
  alive,         \* m_alive_sockets[fd]
  interest,      \* epoll mask of fd: "IN", "OUT", "ERR" (errors only), "NONE"
  inPos,         \* Buffer::m_in_buffer_position
  outPos,        \* Buffer::m_out_buffer_position
  toSend,        \* Buffer::m_number_bytes_to_send
  outBuf,        \* contents of Buffer::m_out_buffer
  headerAccept,  \* Request::m_header_accept
  hasURI,        \* Request::m_full_uri is non-empty
  bodyExists,    \* Request::m_body_exists
  bodyAccept,    \* Request::m_body_accept
  closing,       \* Request::m_closing_connect
  localQ,        \* m_queue_tasks
  staticQ,       \* m_queue_static_tasks
  doneQ,         \* m_queue_performed_tasks
  worker,        \* the task a pool thread holds inside handler_tasks
  crashed,       \* the process died (a null Buffer was dereferenced, ...)
  creq,          \* client: the request it sends on fd
  unread,        \* client: bytes of that request the server has not received
  curReq,        \* ghost: the request currently served on fd
  expect         \* ghost: the bytes queued for sending, in the order appended

slotVars   == <<live, alive, interest, inPos, outPos, toSend, outBuf,
                headerAccept, hasURI, bodyExists, bodyAccept, closing>>
queueVars  == <<localQ, staticQ, doneQ, worker>>
clientVars == <<creq, unread>>
ghostVars  == <<curReq, expect>>
vars == <<slotVars, queueVars, clientVars, ghostVars, crashed>>

-----------------------------------------------------------------------------
(* Values in use, so that a new stamp or request identity is fresh.        *)

Tasks == {localQ[i] : i \in DOMAIN localQ} \cup {staticQ[i] : i \in DOMAIN staticQ}
         \cup {doneQ[i] : i \in DOMAIN doneQ} \cup {worker[w] : w \in Workers}
UsedStamps == {alive[fd] : fd \in FDs} \cup {t.stamp : t \in Tasks}
FreeStamps == Stamps \ UsedStamps
UsedReqs == {curReq[fd] : fd \in FDs} \cup {t.req : t \in Tasks}
FreeReqs == ReqIds \ UsedReqs

Bytes(code, r, len) == [k \in 1 .. len |-> [code |-> code, req |-> r, i |-> k]]

(* memcpy(buf + at, data, Len(data)) *)
Put(buf, at, data) ==
  [k \in Cells |-> IF at <= k /\ k < at + Len(data) THEN data[k - at + 1] ELSE buf[k]]

Drop(s, n) == SubSeq(s, n + 1, Len(s))

-----------------------------------------------------------------------------
(* writeToOutputBuffer(fd, data, len), where ip is the input position the  *)
(* caller has reached: when the bytes would not fit, the whole buffer is   *)
(* cleared and a 413 written instead; otherwise the bytes are copied at    *)
(* the send cursor and the pending count grows.  Either way the            *)
(* descriptor is switched to EPOLLOUT.                                     *)
WriteOut(fd, ip, code, r, len) ==
  LET overflow == outPos[fd] + len >= OutCap
      data     == IF overflow THEN Bytes("413", curReq[fd], SynthLen)
                              ELSE Bytes(code, r, len)
      at       == IF overflow THEN 0 ELSE outPos[fd]
  IN /\ outBuf'   = [outBuf EXCEPT ![fd] = Put(@, at, data)]
     /\ outPos'   = [outPos EXCEPT ![fd] = at]
     /\ toSend'   = [toSend EXCEPT ![fd] = IF overflow THEN Len(data) ELSE @ + Len(data)]
     /\ inPos'    = [inPos EXCEPT ![fd] = IF overflow THEN 0 ELSE ip]
     /\ expect'   = [expect EXCEPT ![fd] = IF overflow THEN data ELSE @ \o data]
     /\ interest' = [interest EXCEPT ![fd] = "OUT"]

(* closeAllSocketsAndClearData(fd): the Buffer and Request are deleted and *)
(* the stamp is re-read from the clock.                                    *)
Close(fd) ==
  /\ \E s \in FreeStamps : alive' = [alive EXCEPT ![fd] = s]
  /\ live'         = [live EXCEPT ![fd] = FALSE]
  /\ interest'     = [interest EXCEPT ![fd] = "NONE"]
  /\ inPos'        = [inPos EXCEPT ![fd] = 0]
  /\ outPos'       = [outPos EXCEPT ![fd] = 0]
  /\ toSend'       = [toSend EXCEPT ![fd] = 0]
  /\ outBuf'       = [outBuf EXCEPT ![fd] = [k \in Cells |-> Junk]]
  /\ headerAccept' = [headerAccept EXCEPT ![fd] = FALSE]
  /\ hasURI'       = [hasURI EXCEPT ![fd] = FALSE]
  /\ bodyExists'   = [bodyExists EXCEPT ![fd] = FALSE]
  /\ bodyAccept'   = [bodyAccept EXCEPT ![fd] = FALSE]
  /\ closing'      = [closing EXCEPT ![fd] = FALSE]
  /\ creq'         = [creq EXCEPT ![fd] = NoRequest]
  /\ unread'       = [unread EXCEPT ![fd] = 0]
  /\ curReq'       = [curReq EXCEPT ![fd] = NoReq]
  /\ expect'       = [expect EXCEPT ![fd] = <<>>]

(* epoll_ctl(EPOLL_CTL_MOD) on fd fails (ENOMEM, ENOSPC): the code tears  *)
(* the slot down with closeAllSocketsAndClearData and goes on.  This is    *)
(* the error branch of writeToOutputBuffer (server.cpp:186-190, which then *)
(* returns -1), of the switch to errors only before dispatch              *)
(* (server.cpp:737-741) and of the switch back to EPOLLIN on keep-alive    *)
(* (server.cpp:818-822).                                                  *)
EpollModFails(fd) == EpollCanFail /\ Close(fd)

-----------------------------------------------------------------------------
Init ==
  /\ live = [fd \in FDs |-> FALSE]
  /\ alive = [fd \in FDs |-> InitStamp]
  /\ interest = [fd \in FDs |-> "NONE"]
  /\ inPos = [fd \in FDs |-> 0]
  /\ outPos = [fd \in FDs |-> 0]
  /\ toSend = [fd \in FDs |-> 0]
  /\ outBuf = [fd \in FDs |-> [k \in Cells |-> Junk]]
  /\ headerAccept = [fd \in FDs |-> FALSE]
  /\ hasURI = [fd \in FDs |-> FALSE]
  /\ bodyExists = [fd \in FDs |-> FALSE]
  /\ bodyAccept = [fd \in FDs |-> FALSE]
  /\ closing = [fd \in FDs |-> FALSE]
  /\ localQ = <<>> /\ staticQ = <<>> /\ doneQ = <<>>
  /\ worker = [w \in Workers |-> NoTask]
  /\ crashed = FALSE
  /\ creq = [fd \in FDs |-> NoRequest]
  /\ unread = [fd \in FDs |-> 0]
  /\ curReq = [fd \in FDs |-> NoReq]
  /\ expect = [fd \in FDs |-> <<>>]

-----------------------------------------------------------------------------
(* Listening socket readable: accept() returns the lowest free descriptor; *)
(* the slot is registered for EPOLLIN, stamped, and a fresh Buffer and     *)
(* Request are allocated.  The client picks the request it will send.      *)
Accept ==
  /\ \E fd \in FDs : ~live[fd]
  /\ LET fd == Min({g \in FDs : ~live[g]}) IN
     \E s \in FreeStamps, r \in FreeReqs, q \in Requests :
       /\ live'     = [live EXCEPT ![fd] = TRUE]
       /\ alive'    = [alive EXCEPT ![fd] = s]
       /\ interest' = [interest EXCEPT ![fd] = "IN"]
       /\ curReq'   = [curReq EXCEPT ![fd] = r]
       /\ creq'     = [creq EXCEPT ![fd] = q]
       /\ unread'   = [unread EXCEPT ![fd] = q.hdr + q.body]
       /\ UNCHANGED <<inPos, outPos, toSend, outBuf, headerAccept, hasURI,
                      bodyExists, bodyAccept, closing, queueVars, expect, crashed>>

(* Mutant: Task::setTimePoint is not called; the task keeps a stamp no   *)
(* live slot holds.                                                        *)
TaskForUnstamped(fd) == [fd |-> fd, stamp |-> InitStamp, req |-> curReq[fd],
                         kind |-> creq[fd].route, len |-> 0]

(* The task the dispatcher builds for the request on fd. *)
TaskFor(fd) == [fd |-> fd, stamp |-> alive[fd], req |-> curReq[fd],
                kind |-> creq[fd].route, len |-> 0]

(* Dispatch once the request is complete (server.cpp:735-784): the fd is   *)
(* switched to errors only, then no route answers 404, a full local queue  *)
(* answers 503, otherwise the task is queued by its kind.                  *)
Dispatch(fd, ip) ==
  LET route == creq[fd].route IN
  \/ /\ route = "none"
     /\ WriteOut(fd, ip, "404", curReq[fd], SynthLen)
     /\ UNCHANGED <<localQ, staticQ>>
  \/ /\ route = "local" /\ Len(localQ) > LimitLocalTasks
     /\ WriteOut(fd, ip, "503", curReq[fd], SynthLen)
     /\ UNCHANGED <<localQ, staticQ>>
  \/ /\ route = "local" /\ Len(localQ) <= LimitLocalTasks
     /\ localQ' = Append(localQ, TaskFor(fd))
     /\ interest' = [interest EXCEPT ![fd] = "ERR"]
     /\ inPos' = [inPos EXCEPT ![fd] = ip]
     /\ UNCHANGED <<staticQ, outPos, toSend, outBuf, expect>>
  \/ /\ route = "static"
     /\ staticQ' = Append(staticQ, TaskFor(fd))
     /\ interest' = [interest EXCEPT ![fd] = "ERR"]
     /\ inPos' = [inPos EXCEPT ![fd] = ip]
     /\ UNCHANGED <<localQ, outPos, toSend, outBuf, expect>>

(* Mutant: the size check lets a chunk fill the input buffer exactly. *)
InputOverflowStrict(fd, n) == inPos[fd] + n > InCap

(* The check before appendInBuffer: the chunk would reach the capacity of   *)
(* the input buffer (server.cpp:658).                                      *)
InputOverflow(fd, n) == inPos[fd] + n >= InCap

(* A complete request on fd meets a failing epoll_ctl and the slot is torn *)
(* down: either the switch to errors only fails (server.cpp:737-741) and   *)
(* the request is dropped, or the 404 or 503 is written and its MOD fails  *)
(* inside writeToOutputBuffer, after which the handler logs through the    *)
(* Request it holds, deleted by then (server.cpp:764, 780): undefined      *)
(* behaviour, which may or may not kill the process.                      *)
DispatchFails(fd) ==
  LET route == creq[fd].route IN
  /\ EpollModFails(fd)
  /\ UNCHANGED queueVars
  /\ \/ crashed' = FALSE
     \/ /\ \/ route = "none"
           \/ route = "local" /\ Len(localQ) > LimitLocalTasks
        /\ crashed' = TRUE

(* EPOLLIN with n bytes received (server.cpp:643-792).  A chunk that would *)
(* fill the input buffer gets a 413 and the connection is marked closing   *)
(* (through m_requests[fd], which is null if the 413's epoll_ctl failed);  *)
(* otherwise the bytes are appended and the request re-parsed: -2 waits,   *)
(* -1 closes, a complete header block is taken once and a body expected   *)
(* when atoi(content-length) is not zero (cl, negative values included), *)
(* a body is accepted when exactly header + cl bytes are buffered, and a   *)
(* complete request is dispatched; a task of unknown type (JSON_RPC_TASK)  *)
(* is deleted and the connection closed (server.cpp:770-774).              *)
Recv(fd) ==
  /\ live[fd] /\ interest[fd] = "IN" /\ unread[fd] > 0
  /\ \E n \in 1 .. unread[fd] :
     LET q   == creq[fd]
         pos == inPos[fd] + n
         newHdr  == ~headerAccept[fd]
         bodyEx  == IF newHdr THEN q.cl # 0 ELSE bodyExists[fd]
         bodyAcc == bodyAccept[fd] \/ (bodyEx /\ pos = q.hdr + q.cl)
         complete == pos >= q.hdr /\ q.route # "malformed"
         dispatch == ~(bodyEx /\ ~bodyAcc)
     IN
     \/ /\ InputOverflow(fd, n)
        /\ \/ /\ WriteOut(fd, inPos[fd], "413", curReq[fd], SynthLen)
              /\ closing' = [closing EXCEPT ![fd] = TRUE]
              /\ headerAccept' = [headerAccept EXCEPT ![fd] = TRUE]
              /\ unread' = [unread EXCEPT ![fd] = @ - n]
              /\ UNCHANGED <<live, alive, hasURI, bodyExists, bodyAccept, creq,
                             curReq, crashed>>
           \/ /\ EpollModFails(fd)
              /\ crashed' = TRUE
        /\ UNCHANGED queueVars
     \/ /\ ~InputOverflow(fd, n) /\ pos < q.hdr
        /\ inPos' = [inPos EXCEPT ![fd] = pos]
        /\ unread' = [unread EXCEPT ![fd] = @ - n]
        /\ UNCHANGED <<live, alive, interest, outPos, toSend, outBuf, headerAccept,
                       hasURI, bodyExists, bodyAccept, closing, queueVars, creq,
                       ghostVars, crashed>>
     \/ /\ ~InputOverflow(fd, n) /\ pos >= q.hdr /\ q.route = "malformed"
        /\ Close(fd)
        /\ UNCHANGED <<queueVars, crashed>>
     \/ /\ ~InputOverflow(fd, n) /\ complete
        /\ ~(dispatch /\ q.route = "jsonrpc")
        /\ headerAccept' = [headerAccept EXCEPT ![fd] = TRUE]
        /\ hasURI' = [hasURI EXCEPT ![fd] = TRUE]
        /\ bodyExists' = [bodyExists EXCEPT ![fd] = bodyEx]
        /\ bodyAccept' = [bodyAccept EXCEPT ![fd] = bodyAcc]
        /\ unread' = [unread EXCEPT ![fd] = @ - n]
        /\ IF ~dispatch
           THEN /\ inPos' = [inPos EXCEPT ![fd] = pos]
                /\ UNCHANGED <<interest, outPos, toSend, outBuf, localQ, staticQ, expect>>
           ELSE Dispatch(fd, pos)
        /\ UNCHANGED <<live, alive, closing, doneQ, worker, creq, curReq, crashed>>
     \/ /\ ~InputOverflow(fd, n) /\ complete /\ dispatch /\ q.route = "jsonrpc"
        /\ Close(fd)
        /\ UNCHANGED <<queueVars, crashed>>
     \/ /\ ~InputOverflow(fd, n) /\ complete /\ dispatch
        /\ DispatchFails(fd)

(* EPOLLIN reported while nothing has arrived yet (the rest of the        *)
(* request may come later): recv returns -1 with                           *)
(* EWOULDBLOCK, which the code does not return on (server.cpp:646-652), so *)
(* res = -1 reaches the size check as (size_t)-1: with an empty input      *)
(* buffer the sum wraps to SIZE_MAX and a 413 is written (as in Recv, a    *)
(* failing epoll_ctl leaves m_requests[fd] null for setClosingConnect);   *)
(* otherwise appendInBuffer copies SIZE_MAX bytes and the process dies.    *)
RecvWouldBlock(fd) ==
  /\ SpuriousReadiness
  /\ live[fd] /\ interest[fd] = "IN"
  /\ \/ /\ inPos[fd] = 0
        /\ WriteOut(fd, inPos[fd], "413", curReq[fd], SynthLen)
        /\ closing' = [closing EXCEPT ![fd] = TRUE]
        /\ headerAccept' = [headerAccept EXCEPT ![fd] = TRUE]
        /\ UNCHANGED <<live, alive, hasURI, bodyExists, bodyAccept, queueVars,
                       clientVars, curReq, crashed>>
     \/ /\ inPos[fd] = 0
        /\ EpollModFails(fd)
        /\ crashed' = TRUE
        /\ UNCHANGED queueVars
     \/ /\ inPos[fd] > 0
        /\ crashed' = TRUE
        /\ UNCHANGED <<slotVars, queueVars, clientVars, ghostVars>>

(* Response fully sent on a connection that stays open: Buffer::clear and  *)
(* Request::clear, EPOLLIN again, and a new stamp (server.cpp:812-823).    *)
(* The client goes on with its next request.                               *)
KeepAlive(fd) ==
  /\ \E s \in FreeStamps, r \in FreeReqs, q \in Requests :
       /\ alive'  = [alive EXCEPT ![fd] = s]
       /\ curReq' = [curReq EXCEPT ![fd] = r]
       /\ creq'   = [creq EXCEPT ![fd] = q]
       /\ unread' = [unread EXCEPT ![fd] = q.hdr + q.body]
  /\ interest'     = [interest EXCEPT ![fd] = "IN"]
  /\ inPos'        = [inPos EXCEPT ![fd] = 0]
  /\ outPos'       = [outPos EXCEPT ![fd] = 0]
  /\ toSend'       = [toSend EXCEPT ![fd] = 0]
  /\ headerAccept' = [headerAccept EXCEPT ![fd] = FALSE]
  /\ hasURI'       = [hasURI EXCEPT ![fd] = FALSE]
  /\ bodyExists'   = [bodyExists EXCEPT ![fd] = FALSE]
  /\ bodyAccept'   = [bodyAccept EXCEPT ![fd] = FALSE]
  /\ expect'       = [expect EXCEPT ![fd] = <<>>]
  /\ UNCHANGED <<live, outBuf, closing>>

(* EPOLLOUT with bytes pending and the header accepted (server.cpp:794-830):*)
(* nothing is sent while a declared body is incomplete; otherwise send()   *)
(* transmits n bytes from the send cursor.  When nothing is left, a        *)
(* closing connection is closed, a "Connection: Keep-Alive" request starts *)
(* the next cycle unless its switch back to EPOLLIN fails, and any other   *)
(* (a missing header included) is closed.                                  *)
Send(fd) ==
  /\ live[fd] /\ interest[fd] = "OUT" /\ toSend[fd] > 0 /\ headerAccept[fd]
  /\ ~(bodyExists[fd] /\ ~bodyAccept[fd])
  /\ \E n \in 1 .. toSend[fd] :
     \/ /\ n < toSend[fd]
        /\ outPos' = [outPos EXCEPT ![fd] = @ + n]
        /\ toSend' = [toSend EXCEPT ![fd] = @ - n]
        /\ expect' = [expect EXCEPT ![fd] = Drop(@, n)]
        /\ UNCHANGED <<live, alive, interest, inPos, outBuf, headerAccept, hasURI,
                       bodyExists, bodyAccept, closing, clientVars, curReq>>
     \/ /\ n = toSend[fd]
        /\ IF ~closing[fd] /\ hasURI[fd] /\ creq[fd].ka
           THEN KeepAlive(fd) \/ EpollModFails(fd)
           ELSE Close(fd)
  /\ UNCHANGED <<queueVars, crashed>>

(* Mutant: the sweep's 408 does not re-stamp the slot. *)
TimeoutNoRestamp(fd) ==
  /\ live[fd]
  /\ toSend[fd] <= MaxPending
  /\ \/ /\ ~hasURI[fd]
        /\ Close(fd)
        /\ UNCHANGED crashed
     \/ /\ hasURI[fd]
        /\ WriteOut(fd, inPos[fd], "408", curReq[fd], SynthLen)
        /\ closing' = [closing EXCEPT ![fd] = TRUE]
        /\ UNCHANGED <<live, alive, headerAccept, hasURI, bodyExists, bodyAccept,
                       clientVars, curReq, crashed>>
     \/ /\ hasURI[fd]
        /\ EpollModFails(fd)
        /\ crashed' = TRUE
  /\ UNCHANGED queueVars

(* Mutant: the sweep's 408 does not mark the connection closing. *)
TimeoutNoClosing(fd) ==
  /\ live[fd]
  /\ toSend[fd] <= MaxPending
  /\ \/ /\ ~hasURI[fd]
        /\ Close(fd)
        /\ UNCHANGED crashed
     \/ /\ hasURI[fd]
        /\ WriteOut(fd, inPos[fd], "408", curReq[fd], SynthLen)
        /\ \E s \in FreeStamps : alive' = [alive EXCEPT ![fd] = s]
        /\ UNCHANGED <<live, headerAccept, hasURI, bodyExists, bodyAccept, closing,
                       clientVars, curReq, crashed>>
     \/ /\ hasURI[fd]
        /\ EpollModFails(fd)
        /\ crashed' = TRUE
  /\ UNCHANGED queueVars

(* The stale-connection sweep finds fd past the time limit                 *)
(* (server.cpp:543-562): with no request line yet it is closed, otherwise  *)
(* a 408 is written, the connection marked closing and re-stamped.  When   *)
(* the 408's epoll_ctl fails the slot is freed and m_requests[i] is null   *)
(* when setClosingConnect is called on it (server.cpp:553).                *)
Timeout(fd) ==
  /\ live[fd]
  /\ toSend[fd] <= MaxPending
  /\ \/ /\ ~hasURI[fd]
        /\ Close(fd)
        /\ UNCHANGED crashed
     \/ /\ hasURI[fd]
        /\ WriteOut(fd, inPos[fd], "408", curReq[fd], SynthLen)
        /\ closing' = [closing EXCEPT ![fd] = TRUE]
        /\ \E s \in FreeStamps : alive' = [alive EXCEPT ![fd] = s]
        /\ UNCHANGED <<live, headerAccept, hasURI, bodyExists, bodyAccept,
                       clientVars, curReq, crashed>>
     \/ /\ hasURI[fd]
        /\ EpollModFails(fd)
        /\ crashed' = TRUE
  /\ UNCHANGED queueVars

(* EPOLLERR/EPOLLHUP/EPOLLRDHUP (server.cpp:585-588), recv() failing or   *)
(* returning 0 (646-656), send() failing (802-805): the peer is gone and  *)
(* the slot is torn down.                                                  *)
ConnectionError(fd) ==
  /\ live[fd]
  /\ Close(fd)
  /\ UNCHANGED <<queueVars, crashed>>

(* Mutant: the drain loop checks that the slot is allocated instead of    *)
(* comparing stamps.                                                       *)
DrainCheckAllocated ==
  /\ doneQ # <<>>
  /\ LET t == Head(doneQ) IN
     /\ doneQ' = Tail(doneQ)
     /\ \/ /\ ~live[t.fd]
           /\ UNCHANGED <<slotVars, ghostVars, crashed>>
        \/ /\ live[t.fd]
           /\ WriteOut(t.fd, inPos[t.fd], "200", t.req, t.len)
           /\ UNCHANGED <<live, alive, headerAccept, hasURI, bodyExists,
                          bodyAccept, closing, curReq, crashed>>
        \/ /\ live[t.fd]
           /\ EpollModFails(t.fd)
           /\ UNCHANGED crashed
  /\ UNCHANGED <<localQ, staticQ, worker, clientVars>>

(* The reactor pops one performed task (server.cpp:565-582): its response  *)
(* is written only if the task's stamp still equals the slot's, and the    *)
(* task is deleted either way.  A matching stamp on a freed slot would     *)
(* dereference the null m_buffers[fd].  A failing epoll_ctl in             *)
(* writeToOutputBuffer frees the slot; the log line after it reads only    *)
(* the task's own copy of the request.                                     *)
Drain ==
  /\ doneQ # <<>>
  /\ LET t == Head(doneQ) IN
     /\ doneQ' = Tail(doneQ)
     /\ \/ /\ t.stamp # alive[t.fd]
           /\ UNCHANGED <<slotVars, ghostVars, crashed>>
        \/ /\ t.stamp = alive[t.fd]
           /\ IF live[t.fd]
              THEN \/ /\ WriteOut(t.fd, inPos[t.fd], "200", t.req, t.len)
                      /\ UNCHANGED <<live, alive, headerAccept, hasURI, bodyExists,
                                     bodyAccept, closing, curReq, crashed>>
                   \/ /\ EpollModFails(t.fd)
                      /\ UNCHANGED crashed
              ELSE /\ crashed' = TRUE
                   /\ UNCHANGED <<slotVars, ghostVars>>
  /\ UNCHANGED <<localQ, staticQ, worker, clientVars>>

(* Pool thread w blocks on its queue and pops a task (server.cpp:337-341):*)
(* thread 0 serves only static tasks, the others only local tasks.         *)
WorkerTake(w) ==
  /\ worker[w] = NoTask
  /\ IF w = 0
     THEN /\ staticQ # <<>>
          /\ worker' = [worker EXCEPT ![w] = Head(staticQ)]
          /\ staticQ' = Tail(staticQ)
          /\ UNCHANGED localQ
     ELSE /\ localQ # <<>>
          /\ worker' = [worker EXCEPT ![w] = Head(localQ)]
          /\ localQ' = Tail(localQ)
          /\ UNCHANGED staticQ
  /\ UNCHANGED <<doneQ, slotVars, clientVars, ghostVars, crashed>>

(* The handler runs on the task's copy of the request, the response is     *)
(* prepared and serialized into the task, which goes to the performed      *)
(* queue (server.cpp:342-367).  Its length is what the handler produced.   *)
WorkerFinish(w) ==
  /\ worker[w] # NoTask
  /\ \E len \in TaskLens :
       doneQ' = Append(doneQ, [worker[w] EXCEPT !.len = len])
  /\ worker' = [worker EXCEPT ![w] = NoTask]
  /\ UNCHANGED <<localQ, staticQ, slotVars, clientVars, ghostVars, crashed>>

-----------------------------------------------------------------------------
Next ==
  /\ ~crashed
  /\ \/ Accept
     \/ Drain
     \/ \E fd \in FDs : \/ Recv(fd) \/ RecvWouldBlock(fd) \/ Send(fd)
                        \/ Timeout(fd) \/ ConnectionError(fd)
     \/ \E w \in Workers : WorkerTake(w) \/ WorkerFinish(w)

(* The pool threads and the drain loop always get to run; a client that    *)
(* keeps reading lets every attempted send make progress.  Clients need    *)
(* not send, hang up or time out.                                          *)
Fairness ==
  /\ \A w \in Workers : WF_vars(WorkerTake(w)) /\ WF_vars(WorkerFinish(w))
  /\ WF_vars(Drain)
  /\ \A fd \in FDs : WF_vars(Send(fd))

Spec == Init /\ [][Next]_vars
FairSpec == Spec /\ Fairness

-----------------------------------------------------------------------------
Byte == [code : {"200", "404", "408", "413", "503", "junk"}, req : ReqIds \cup {NoReq},
         i : 0 .. Max(TaskLens \cup {SynthLen})]
TaskT == [fd : FDs \cup {0}, stamp : Stamps \cup {InitStamp}, req : ReqIds \cup {NoReq},
          kind : Routes, len : TaskLens \cup {0}]

(* Every variable has its type; the input position is an index into the  *)
(* char[m_max_input_length_buffer] input buffer, whose byte at that index  *)
(* phr_parse_request reads (it is given position + 1 bytes, server.cpp:681).*)
TypeOK ==
  /\ live \in [FDs -> BOOLEAN]
  /\ alive \in [FDs -> Stamps \cup {InitStamp}]
  /\ interest \in [FDs -> {"IN", "OUT", "ERR", "NONE"}]
  /\ inPos \in [FDs -> 0 .. InCap - 1]
  /\ outPos \in [FDs -> Nat]
  /\ toSend \in [FDs -> Nat]
  /\ outBuf \in [FDs -> [Cells -> Byte]]
  /\ headerAccept \in [FDs -> BOOLEAN] /\ hasURI \in [FDs -> BOOLEAN]
  /\ bodyExists \in [FDs -> BOOLEAN] /\ bodyAccept \in [FDs -> BOOLEAN]
  /\ closing \in [FDs -> BOOLEAN]
  /\ localQ \in Seq(TaskT) /\ staticQ \in Seq(TaskT) /\ doneQ \in Seq(TaskT)
  /\ worker \in [Workers -> TaskT]
  /\ crashed \in BOOLEAN
  /\ creq \in [FDs -> Requests \cup {NoRequest}]
  /\ unread \in [FDs -> Nat]
  /\ curReq \in [FDs -> ReqIds \cup {NoReq}]
  /\ expect \in [FDs -> Seq(Byte)]

(* Every response queued for sending on a connection answers the request  *)
(* currently on it: the stamp check of the drain loop keeps the completion *)
(* of a request whose descriptor was closed and reused (or re-cycled by    *)
(* keep-alive) away from the new occupant.                                 *)
ResponseToOwnRequest ==
  \A fd \in FDs : \A k \in 1 .. Len(expect[fd]) : expect[fd][k].req = curReq[fd]

(* A task whose stamp is still its slot's stamp belongs to the request now *)
(* on that live connection, which is waiting for it with only error        *)
(* interest.  Every step that ends the wait (the drain's write, the sweep's *)
(* 408, keep-alive, close) must re-stamp the slot or consume the task;     *)
(* otherwise a handler's late answer would follow a 408, or land on a      *)
(* freed or re-used slot.                                                   *)
StampedTaskWaits ==
  \A t \in Tasks \ {NoTask} :
    t.stamp = alive[t.fd] =>
      /\ live[t.fd] /\ interest[t.fd] = "ERR"
      /\ t.req = curReq[t.fd]

(* The process never dies: no completion is written into a freed slot and *)
(* recv's result is never used as a length when it failed.                 *)
NoCrash == ~crashed

(* A request handed to the worker pool is answered: once a live connection *)
(* waits with only error interest and nothing to send, a response is       *)
(* eventually queued for it, or it is closed.                              *)
AwaitingTask(fd) == live[fd] /\ interest[fd] = "ERR"
TaskAnswered == \A fd \in FDs : AwaitingTask(fd) ~> ~AwaitingTask(fd)

(* The bytes send() transmits are the responses appended, in order: the   *)
(* pending region lies inside the buffer and holds exactly the bytes       *)
(* queued and not yet sent.                                                *)
WireIntegrity ==
  \A fd \in FDs :
    /\ outPos[fd] + toSend[fd] <= OutCap
    /\ toSend[fd] = Len(expect[fd])
    /\ \A k \in 1 .. toSend[fd] : outBuf[fd][outPos[fd] + k - 1] = expect[fd][k]

(* A response the reactor has queued is eventually sent in full, or the   *)
(* connection is closed (a client that keeps reading is assumed).          *)
QueuedResponseDelivered ==
  \A fd \in FDs : (live[fd] /\ toSend[fd] > 0) ~> (~live[fd] \/ toSend[fd] = 0)

=============================================================================
