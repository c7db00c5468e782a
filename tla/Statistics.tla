----------------------------- MODULE Statistics -----------------------------
(***************************************************************************)
(* StatisticsService (services/statistics/StatisticsService.cpp).  The     *)
(* status page is a LOCAL_TASK handler, so it runs on a pool thread while  *)
(* the reactor thread allocates, changes and frees the per-descriptor      *)
(* Buffer and Request objects that computeCurrentNumber*Requests walk      *)
(* through the raw arrays m_buffers / m_requests, without any lock.        *)
(*                                                                         *)
(* A slot pointer is "null", "live", or "freed": deleted by                *)
(* closeAllSocketsAndClearData but not yet set to nullptr.  Of a Buffer    *)
(* and a Request the walk reads only isHeaderAccept,                       *)
(* getInBufferPosition() > 0 and getOutBufferPosition() > 0.  The counters *)
(* are unsigned long long members of the one service object, shared by    *)
(* every pool thread that runs the callback; they wrap modulo ULLMod.      *)
(***************************************************************************)
EXTENDS Naturals, FiniteSets

CONSTANTS
    MaxConn,    \* m_max_connection: slots 0 .. MaxConn-1
    Walkers,    \* pool threads that may run the status-page callback
    ULLMod      \* 2^64, the range of unsigned long long

ASSUME MaxConn \in Nat \ {0} /\ ULLMod \in Nat \ {0}

Slot == 0 .. MaxConn - 1

VARIABLES
    buf, req,        \* m_buffers[s], m_requests[s]
    hdr,             \* m_requests[s]->isHeaderAccept()
    inAny,           \* m_buffers[s]->getInBufferPosition() > 0
    outAny,          \* m_buffers[s]->getOutBufferPosition() > 0
    readC, writeC, waitC,   \* m_current_number_{read,write,wait}_requests
    pc, idx,         \* where each walker is, and its loop index i
    freedSince,      \* the slot a walker checked was deleted before its dereference
    uaf,             \* some walker dereferenced a deleted Buffer or Request
    quiet            \* ghost: no reactor step since the walker's callback began

slotVars == <<buf, req, hdr, inAny, outAny>>
walkVars == <<readC, writeC, waitC, pc, idx, freedSince, uaf>>
vars == <<slotVars, walkVars, quiet>>

Inc(c) == (c + 1) % ULLMod

(* StatisticsService constructor: every pointer null, counters 0.          *)
Init ==
    /\ buf = [s \in Slot |-> "null"]
    /\ req = [s \in Slot |-> "null"]
    /\ hdr = [s \in Slot |-> FALSE]
    /\ inAny = [s \in Slot |-> FALSE]
    /\ outAny = [s \in Slot |-> FALSE]
    /\ readC = 0 /\ writeC = 0 /\ waitC = 0
    /\ pc = [w \in Walkers |-> "idle"]
    /\ idx = [w \in Walkers |-> 0]
    /\ freedSince = [w \in Walkers |-> FALSE]
    /\ uaf = FALSE
    /\ quiet = [w \in Walkers |-> TRUE]

-----------------------------------------------------------------------------
(* Reactor steps, as the walk sees them.  Each one makes every walk        *)
(* in progress non-quiet.                                                  *)

ReactorStep(slotChange) ==
    /\ slotChange
    /\ quiet' = [w \in Walkers |-> FALSE]

(* accept: factoryBuffer stored in m_buffers[conn_sock] (server.cpp:622).  *)
AllocBuffer(s) ==
    ReactorStep(/\ buf[s] = "null" /\ req[s] = "null"
                /\ buf' = [buf EXCEPT ![s] = "live"]
                /\ inAny' = [inAny EXCEPT ![s] = FALSE]
                /\ outAny' = [outAny EXCEPT ![s] = FALSE]
                /\ UNCHANGED <<req, hdr>>)
    /\ UNCHANGED walkVars

(* accept: factoryRequest stored in m_requests[conn_sock] (server.cpp:633). *)
AllocRequest(s) ==
    ReactorStep(/\ buf[s] = "live" /\ req[s] = "null"
                /\ req' = [req EXCEPT ![s] = "live"]
                /\ hdr' = [hdr EXCEPT ![s] = FALSE]
                /\ UNCHANGED <<buf, inAny, outAny>>)
    /\ UNCHANGED walkVars

(* writeToOutputBuffer's overflow branch (server.cpp:172-173): the        *)
(* response would not fit, so Buffer::clear zeroes both positions before  *)
(* the 413 is appended.  Whether a write overflows is a nondeterministic   *)
(* choice here; an append that fits changes nothing the walk reads.       *)
OutputWrite(s) ==
    \/ UNCHANGED <<inAny, outAny>>
    \/ /\ inAny' = [inAny EXCEPT ![s] = FALSE]
       /\ outAny' = [outAny EXCEPT ![s] = FALSE]

(* EPOLLIN (server.cpp:658-686): a chunk that would fill the input buffer  *)
(* is not appended; a 413 is written and the header marked accepted.       *)
(* Otherwise appendInBuffer, then the header is accepted by a complete     *)
(* parse or more bytes are awaited.                                        *)
Receive(s) ==
    ReactorStep(/\ buf[s] = "live" /\ req[s] = "live" /\ ~hdr[s]
                /\ \/ /\ hdr' = [hdr EXCEPT ![s] = TRUE]
                      /\ OutputWrite(s)
                   \/ /\ inAny' = [inAny EXCEPT ![s] = TRUE]
                      /\ \E accepted \in BOOLEAN : hdr' = [hdr EXCEPT ![s] = accepted]
                      /\ UNCHANGED outAny
                /\ UNCHANGED <<buf, req>>)
    /\ UNCHANGED walkVars

(* A 404, 503, 408 or a drained task response is written to a connection  *)
(* (server.cpp:554, 765, 781, 576) through writeToOutputBuffer.            *)
Respond(s) ==
    ReactorStep(/\ buf[s] = "live" /\ req[s] = "live"
                /\ OutputWrite(s)
                /\ UNCHANGED <<buf, req, hdr>>)
    /\ UNCHANGED walkVars

(* EPOLLOUT: send advances the send cursor; when everything is sent a      *)
(* keep-alive connection has its Buffer and Request cleared.               *)
Send(s) ==
    ReactorStep(/\ buf[s] = "live" /\ req[s] = "live" /\ hdr[s]
                /\ \/ outAny' = [outAny EXCEPT ![s] = TRUE]
                      /\ UNCHANGED <<hdr, inAny>>
                   \/ /\ hdr' = [hdr EXCEPT ![s] = FALSE]
                      /\ inAny' = [inAny EXCEPT ![s] = FALSE]
                      /\ outAny' = [outAny EXCEPT ![s] = FALSE]
                /\ UNCHANGED <<buf, req>>)
    /\ UNCHANGED walkVars

(* closeAllSocketsAndClearData, first half: delete m_buffers[fd] and       *)
(* m_requests[fd].  A walker holding this slot now holds freed pointers.   *)
CloseDelete(s) ==
    ReactorStep(/\ buf[s] = "live" /\ req[s] = "live"
                /\ buf' = [buf EXCEPT ![s] = "freed"]
                /\ req' = [req EXCEPT ![s] = "freed"]
                /\ UNCHANGED <<hdr, inAny, outAny>>)
    /\ freedSince' = [w \in Walkers |->
                        freedSince[w] \/ (pc[w] \in {"readDeref", "writeDeref"} /\ idx[w] = s)]
    /\ UNCHANGED <<readC, writeC, waitC, pc, idx, uaf>>

(* closeAllSocketsAndClearData, second half: the pointers set to nullptr. *)
CloseNull(s) ==
    ReactorStep(/\ buf[s] = "freed" /\ req[s] = "freed"
                /\ buf' = [buf EXCEPT ![s] = "null"]
                /\ req' = [req EXCEPT ![s] = "null"]
                /\ UNCHANGED <<hdr, inAny, outAny>>)
    /\ UNCHANGED walkVars

-----------------------------------------------------------------------------
(* The callback on pool thread w.                                          *)

(* The ghost: a walk is quiet when it begins with no slot half closed.   *)
QuietStart(w) == quiet' = [quiet EXCEPT ![w] = \A s \in Slot : buf[s] # "freed"]

(* Mutant: the read count is not reset when the callback begins.          *)
StartNoReset(w) ==
    /\ pc[w] = "idle"
    /\ pc' = [pc EXCEPT ![w] = "read"]
    /\ idx' = [idx EXCEPT ![w] = 0]
    /\ QuietStart(w)
    /\ UNCHANGED <<slotVars, readC, writeC, waitC, freedSince, uaf>>

(* callback: computeCurrentNumberReadRequests begins with its reset.       *)
Start(w) ==
    /\ pc[w] = "idle"
    /\ readC' = 0
    /\ pc' = [pc EXCEPT ![w] = "read"]
    /\ idx' = [idx EXCEPT ![w] = 0]
    /\ QuietStart(w)
    /\ UNCHANGED <<slotVars, writeC, waitC, freedSince, uaf>>

(* The dereference of a checked slot: reading a deleted object is a        *)
(* use after free, whatever value it then yields.  m_requests[i] is read   *)
(* again without synchronisation, so the build may use the pointer it      *)
(* checked (kept) or reload the slot, which may hold a new object.         *)
Deref(w) ==
    /\ \E kept \in BOOLEAN :
         uaf' = (uaf \/ (freedSince[w] /\ kept) \/ buf[idx[w]] # "live" \/ req[idx[w]] # "live")
    /\ freedSince' = [freedSince EXCEPT ![w] = FALSE]

(* `if (m_requests[i] && m_buffers[i])` of the read and write loops, and   *)
(* the loop's end, which starts the next loop with its reset.              *)
CheckStep(w, loop, derefPc, next, resetNext) ==
    /\ pc[w] = loop
    /\ IF idx[w] < MaxConn
         THEN /\ IF buf[idx[w]] # "null" /\ req[idx[w]] # "null"
                   THEN pc' = [pc EXCEPT ![w] = derefPc] /\ UNCHANGED idx
                   ELSE idx' = [idx EXCEPT ![w] = @ + 1] /\ UNCHANGED pc
              /\ UNCHANGED <<readC, writeC, waitC>>
         ELSE /\ pc' = [pc EXCEPT ![w] = next]
              /\ idx' = [idx EXCEPT ![w] = 0]
              /\ resetNext
    /\ UNCHANGED <<slotVars, freedSince, uaf, quiet>>

(* computeCurrentNumberReadRequests: the test of line 101.                 *)
IsReading(s) == ~hdr[s] /\ inAny[s]

(* computeCurrentNumberWriteRequests: the test of line 111.                *)
IsWriting(s) == hdr[s] /\ outAny[s]

ReadCheck(w) ==
    CheckStep(w, "read", "readDeref", "write", writeC' = 0 /\ UNCHANGED <<readC, waitC>>)

ReadDeref(w) ==
    /\ pc[w] = "readDeref"
    /\ Deref(w)
    /\ readC' = IF IsReading(idx[w]) THEN Inc(readC) ELSE readC
    /\ pc' = [pc EXCEPT ![w] = "read"]
    /\ idx' = [idx EXCEPT ![w] = @ + 1]
    /\ UNCHANGED <<slotVars, writeC, waitC, quiet>>

WriteCheck(w) ==
    CheckStep(w, "write", "writeDeref", "wait", waitC' = 0 /\ UNCHANGED <<readC, writeC>>)

WriteDeref(w) ==
    /\ pc[w] = "writeDeref"
    /\ Deref(w)
    /\ writeC' = IF IsWriting(idx[w]) THEN Inc(writeC) ELSE writeC
    /\ pc' = [pc EXCEPT ![w] = "write"]
    /\ idx' = [idx EXCEPT ![w] = @ + 1]
    /\ UNCHANGED <<slotVars, readC, waitC, quiet>>

(* computeCurrentNumberWaitRequests: count the non-null requests, then     *)
(* subtract the read and write counts in unsigned arithmetic.              *)
WaitFinal == (waitC + 2 * ULLMod - readC - writeC) % ULLMod

WaitStep(w) ==
    /\ pc[w] = "wait"
    /\ IF idx[w] < MaxConn
         THEN /\ waitC' = IF req[idx[w]] # "null" THEN Inc(waitC) ELSE waitC
              /\ idx' = [idx EXCEPT ![w] = @ + 1]
              /\ UNCHANGED pc
         ELSE /\ waitC' = WaitFinal
              /\ pc' = [pc EXCEPT ![w] = "page"]
              /\ UNCHANGED idx
    /\ UNCHANGED <<slotVars, readC, writeC, freedSince, uaf, quiet>>

(* callback: the page is formatted from the three members, and the         *)
(* thread goes back to its queue.                                          *)
Page(w) ==
    /\ pc[w] = "page"
    /\ pc' = [pc EXCEPT ![w] = "idle"]
    /\ UNCHANGED <<slotVars, readC, writeC, waitC, idx, freedSince, uaf, quiet>>

Next ==
    \/ \E s \in Slot : AllocBuffer(s) \/ AllocRequest(s) \/ Receive(s) \/ Respond(s) \/ Send(s)
                       \/ CloseDelete(s) \/ CloseNull(s)
    \/ \E w \in Walkers : Start(w) \/ ReadCheck(w) \/ ReadDeref(w) \/ WriteCheck(w)
                          \/ WriteDeref(w) \/ WaitStep(w) \/ Page(w)

Spec == Init /\ [][Next]_vars

-----------------------------------------------------------------------------
(* What the page should say, from the state of the slots: a connection is *)
(* reading while its header is incomplete and some bytes have arrived,    *)
(* writing while its response is partly sent, and waiting otherwise.      *)
OpenConns == {s \in Slot : req[s] = "live" /\ buf[s] = "live"}
ReadingConns == {s \in OpenConns : ~hdr[s] /\ inAny[s]}
WritingConns == {s \in OpenConns : hdr[s] /\ outAny[s]}

PageStep(w) == pc[w] = "page" /\ pc'[w] = "idle"

(* A status page whose callback ran while the reactor changed no slot     *)
(* shows the exact numbers of reading, writing and waiting connections:   *)
(* the three loops of StatisticsService.cpp:97-125 and their resets       *)
(* classify every slot once, and the wait count is what remains.           *)
PageExact ==
    [][\A w \in Walkers :
         PageStep(w) /\ quiet[w] =>
            /\ readC = Cardinality(ReadingConns)
            /\ writeC = Cardinality(WritingConns)
            /\ waitC = Cardinality(OpenConns \ (ReadingConns \cup WritingConns))]_vars

(* The page never shows more waiting connections than there are slots:   *)
(* the unsigned subtraction at StatisticsService.cpp:123-124 does not     *)
(* wrap.                                                                  *)
WaitCountInRange ==
    [][\A w \in Walkers : PageStep(w) => waitC <= MaxConn]_vars

(* The walk never dereferences a Buffer or Request that                   *)
(* closeAllSocketsAndClearData has deleted (StatisticsService.cpp:100-101, *)
(* 110-111 against server.cpp:1051-1055).                                 *)
NoStaleDeref == ~uaf

=============================================================================
