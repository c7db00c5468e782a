# TLA+ models of onyxup

onyxup is a small epoll-based HTTP server written in C++ (`src/sources`). This directory holds TLA+ models of
its concurrent core, the TLC configurations that check them, and `PROJECT.json`. That file lists the
components, the runs, the mutants, the map from every modelled definition to the source lines it translates,
the findings and the hazards.

## The system

| Part | Source | State | Operations |
|---|---|---|---|
| Reactor (one thread) | `server.cpp` `HttpServer::run`, `writeToOutputBuffer`, `closeAllSocketsAndClearData` | per-descriptor slot: `m_buffers[fd]`, `m_requests[fd]`, `m_alive_sockets[fd]`; the epoll mask of fd | accept; EPOLLIN (recv, size check, parse, body check, dispatch); EPOLLOUT (send, keep-alive or close); error events; stale sweep (408 or close); completion drain |
| Connection buffer | `buffer.cpp` | input position, output send cursor, pending count, output bytes | `appendInBuffer`, `appendOutBuffer`, `clear` |
| Request record | `request.cpp` | header accepted, URI, body exists/accepted, closing, headers | `factoryRequest`, `clear` |
| Task and queues | `task.h`, `server.h` | three `ThreadSafeQueue<PtrTask>`: local, static, performed | push, `wait_and_pop`, `try_pop` |
| Dispatcher | `server.cpp` `dispatcher`, `route.h` | route table (fixed after start) | first-matching route, or none |
| Worker pool | `server.cpp` `handler_tasks` | the task a thread holds | thread 0 pops static tasks, threads 1.. pop local tasks; run the handler, prepare, push to performed |
| Response preparation | `server.cpp` lines 88-167, `parseRangesRequest` | none (pure) | HEAD / Range / gzip / default |
| Static resources | `server.cpp` `default_callback_static_resources` | process-wide response cache | look up, read file, insert |
| Statistics | `StatisticsService.cpp` | counters; reads `m_buffers`/`m_requests` | counters updated by the reactor, page built by a worker |

How they interact: the reactor alone reads and writes sockets and the per-slot arrays. A complete request is
copied into a task, which carries the slot's liveness stamp. The task goes to the local or static queue, and
the descriptor's epoll mask is reduced to errors only. A pool thread runs the handler and pushes the task to the
performed queue. At the top of each loop iteration the reactor drains that queue: it writes a response only if
the task's stamp still equals the slot's stamp. `closeAllSocketsAndClearData`, keep-alive and the sweep's 408
all re-stamp the slot, so a late completion for a closed, reused or timed-out connection is dropped.

Hard behaviours:
- descriptor reuse while a task is in flight;
- the sweep's 408 racing a pending response or a completion;
- two responses appended to one output buffer;
- a request arriving in pieces;
- recv reporting would-block;
- the admission limit;
- the send gate while a body is incomplete;
- keep-alive cycles that reuse the slot;
- several pool threads.

Correctness:
- a response reaches only the connection whose request it answers;
- the bytes on the wire are the responses in order;
- every dispatched request is answered or its connection closed;
- a queued response is eventually sent or the connection closed;
- the process does not crash.

## Modules

**`Reactor.tla`** is the reactor, buffer, request flags, queues and worker pool.

One slot per descriptor in `FDs`, as functions over `FDs`:

| Variable | Models |
|---|---|
| `live` | buffer and request allocated |
| `alive` | the stamp |
| `interest` | the epoll mask |
| `inPos`, `outPos`, `toSend`, `outBuf` | the `Buffer` |
| `headerAccept`, `hasURI`, `bodyExists`, `bodyAccept`, `closing` | the `Request` |

The three queues are sequences. `worker[w]` is the task thread w holds. `crashed` records a null
dereference. The client side has two variables: `creq[fd]`, the request shape being sent (header bytes, the `atoi` value of its `Content-Length` as `cl`, body
bytes, keep-alive, route), and `unread[fd]`,
the bytes not yet received. `curReq` and `expect` are ghost variables: the identity of the request being
served, and the bytes queued in order.

Each code path is one action, or a disjunct of one:

| Action | Code |
|---|---|
| `Accept` | the accept block |
| `Recv` | the EPOLLIN block: 413 on overflow / wait for more header / close on parse error / accept header and body, then `Dispatch` (404, 503, local queue, static queue) |
| `RecvWouldBlock` | the EWOULDBLOCK fall-through |
| `Send` | the EPOLLOUT block, including `KeepAlive` |
| `Timeout` | one slot of the sweep |
| `ConnectionError` | EPOLLERR/HUP/RDHUP, recv 0, recv or send failure |
| `Drain` | one performed task |
| `WorkerTake` and `WorkerFinish` | `handler_tasks` |

`WriteOut` is `writeToOutputBuffer`, with its overflow branch. `Close` is `closeAllSocketsAndClearData`.

**Failing epoll_ctl.** When the constant `EpollCanFail` is TRUE, every `epoll_ctl(EPOLL_CTL_MOD)` on a client
socket may fail (`EpollModFails` = `Close`). Each caller then goes on as the code does:
- the 413 of `Recv` and `RecvWouldBlock` and the 408 of `Timeout` call `setClosingConnect` on the null
  `m_requests[fd]`, so the process crashes;
- a 404 or 503 (`DispatchFails`) logs through the deleted `Request`, which is undefined behaviour, so the process
  may or may not crash;
- the switch to errors only before dispatch, the switch back to EPOLLIN on keep-alive and the drain's write only
  drop the connection.

Abstractions:
- **Stamps.** A stamp is a model value not held anywhere else. The code only compares stamps for equality, and
  `steady_clock` is monotonic. On Linux, where the server runs (it uses epoll), it is `CLOCK_MONOTONIC` with
  nanosecond resolution. Two stored readings of one slot are separated by at least a request parse or a
  `close()`, so they never coincide.
- **Time-out test.** This is a nondeterministic choice; any live slot may time out.
- **Responses.** A response is `Bytes(code, request, length)`, so a property can name the bytes that a send transmits.
- **Routes and handlers.** These are abstracted to a route kind (`none`, `local`, `static`, `jsonrpc`, `malformed`) and a
  response length.

**`ResponsePrepare.tla`** is the preparation branch of `handler_tasks` (`server.cpp:342-366`) for one
popped task. It covers:
- the HEAD, Range, gzip and default stages, in the code's order;
- `check_client_support_gzip_encoding` and `check_client_request_range`, whose missing `return` on a present
  but non-matching header makes their result a nondeterministic boolean;
- `parseRangesRequest`, modelled operation by operation:
  - `std::getline` tokenizing, including dropping a trailing empty segment;
  - `trim_spaces`;
  - digit accumulation in `size_t`, taken modulo `SizeMod`;
  - the three token forms with their bound checks;
  - `std::sort`, where every order sorted by start is possible, because the order of equal starts is unspecified;
  - the border loop;
- the `std::copy` slices of `prepare_range_response`, including reads past the body.

A body of `len` bytes is the sequence of its byte indices, so a slice says exactly which bytes it holds. Next to
the code sits a reference semantics written from spec.md §4.4/4.5 (`SpecRange`, `SpecOutcomes`).
`Decimal` is the plain decimal value. The module's state is the popped task, the handler's result and the
prepared response. A behaviour prepares one task and stops, because the thread then blocks in `wait_and_pop`,
which `Reactor` models. Hence `CHECK_DEADLOCK FALSE`. `MCResponsePrepare.tla` builds range sets from up to two
of twelve tokens that reach every branch of the parser.

**`Statistics.tla`** is the status page of `StatisticsService`. Its callback is a `LOCAL_TASK`, so it runs on a
pool thread, and walks `m_buffers`/`m_requests` with no lock while the reactor changes them:
- **Slots.** A slot pointer is `"null"`, `"live"` or `"freed"`; `freed` is the window inside
  `closeAllSocketsAndClearData` between `delete` and `= nullptr`.
- **What the walk reads.** Only `isHeaderAccept`, `getInBufferPosition() > 0` and `getOutBufferPosition() > 0`.
- **Reactor steps.** Seven steps change these fields: the two allocations of accept, receive (an append, or
  the 413 branch that appends nothing), a response written by `writeToOutputBuffer` (whose overflow branch
  clears both buffer positions), send or keep-alive clear, and the two halves of close.
- **Walker steps.** Each walker (a pool thread inside the callback) takes one step per slot of each loop. The
  null check and the dereference are separate steps.
- **Counters.** They are the shared `unsigned long long` members, taken modulo `ULLMod`.
- **Dereference after free.** At a dereference after the slot was freed, the build may use the checked pointer
  or reload the slot (a data race), so both outcomes are possible.
- **The ghost `quiet[w]`.** This says that no reactor step has happened since walker w began, and that no slot
  was half closed then.

**`Connection.tla`** is the abstract protocol of one connection, written from spec.md 4.5. Each connection has:
- a phase: `free`, `recv`, `work` (with the pool) or `reply`;
- the request it carries;
- its answer: `pool`, `reactor`, or `final` (413 or 408: the connection is not reused).

**`ReactorConnection.tla`** extends `Reactor` and maps every slot onto it:
- `PhaseOf` reads allocation and the epoll interest;
- `AnswerOf` reads `closing` and the queued bytes;
- `req` is `curReq`.

`ConnectionRefined` is `Connection!Spec` under that mapping.

`MCReactor.tla` and `MCReactorLive.tla` give the model values and the request shapes, and supply the
symmetry set for the safety runs.

## Runs

| Run | cfg | Expect | What it shows |
|---|---|---|---|
| reactor_safety | `MCReactor.cfg` | pass | `ResponseToOwnRequest`: every queued byte answers the request now on its connection. This holds across descriptor reuse, keep-alive re-cycling, the sweep, three pool threads and failing epoll_ctl, because the drain compares stamps. `StampedTaskWaits`: a task that still carries its slot's stamp is for the live connection waiting for it; every step that ends the wait re-stamps or consumes. `ConnectionRefined`: the reactor with its pool and queues implements `Connection`. A handler's response is queued only while the slot's current request is with the pool, a 413/408 ends the connection, keep-alive begins a new request only after a reply, and a failing epoll_ctl only drops the connection. `TypeOK` includes that the input position stays an index into the input buffer. |
| reactor_liveness | `MCReactorLive.cfg` | pass | `TaskAnswered`: a request handed to the pool is eventually answered or its connection closed. |
| reactor_wire | `MCReactorWire.cfg` | violation | `WireIntegrity`: a 404 is pending when the sweep's 408 is appended. It is written at the send cursor over the 404, and the send transmits `[408, junk]`. |
| reactor_stall | `MCReactorStall.cfg` | violation | `QueuedResponseDelivered`: a 408 written after the header but before the whole body is never sent. The send gate at `server.cpp:796` stays shut, and the server never closes the connection. A `Content-Length: -1` request reaches the same state: `atoi` makes it expect a body that is never accepted. |
| reactor_wouldblock | `MCReactorWouldBlock.cfg` | violation | `NoCrash`: EPOLLIN with nothing to read, after part of the header arrived, appends `(size_t)-1` bytes. |
| reactor_epoll_fail | `MCReactorEpoll.cfg` | violation | `NoCrash`: a 404's epoll_ctl fails, `writeToOutputBuffer` frees the slot, and the log line reads the deleted `Request` (`server.cpp:780`). The 413 and 408 paths call `setClosingConnect` on the null `m_requests[fd]`. |
| prepare_ranges | `MCResponsePrepare.cfg` | pass | `RangesAgreeWithSpec`: for bodies of 2-3 bytes, every set of closed and open ranges (spaces, bad digits, reversed, out of bounds, overlapping, equal starts) gets the reference result. That is the same ranges in order with exactly their bytes, or 416. `RangeTerminal`: a `bytes` Range header always ends the chain with 206 or 416. |
| range_empty_body | `MCRangeEmptyBody.cfg` | violation | `InvalidRangeRejected`: on an empty body `size() - 1` wraps, and `bytes=1-2` gets 206 with two bytes read past the body. |
| stats_quiet_exact | `MCStatistics.cfg` | pass | `PageExact`: with one pool thread serving local tasks (a pool of 2, the minimum), a page whose walk overlaps no reactor step shows exactly the reading, writing and waiting connections. |
| stats_uaf | `MCStatsUaf.cfg` | violation | `NoStaleDeref`: the reactor deletes a slot's Buffer/Request between the walk's null check and its dereference. |
| stats_wait_wrap | `MCStatsWaitWrap.cfg` | violation | `WaitCountInRange`: a connection counted as reading closes before the wait loop, and the unsigned wait count wraps. |

All of these violations are code bugs; `PROJECT.json` "findings" gives the lines.

Each property of a passing run has a mutant in `PROJECT.json` that TLC catches:

| Mutant | Violates |
|---|---|
| the drain checks allocation instead of the stamp | `ResponseToOwnRequest` |
| the sweep's 408 does not re-stamp the slot | `StampedTaskWaits` (the other properties of the run still hold) |
| the task is not stamped | `TaskAnswered` |
| the input check uses `>` | `TypeOK` |
| the border check uses the previous start | `RangesAgreeWithSpec` |
| compression is tried before Range | `RangeTerminal` |
| the sweep's 408 does not mark the connection closing | `ConnectionRefined` |
| the callback does not reset the read count | `PageExact` |

### Bounds

**Safety run:**
- 2 descriptors, so that one is reused while the other holds a task;
- 3 pool threads (one static, two local), so that two local completions can come back in either order;
- 4 stamps and 3 request ids, which are reused as they are freed;
- `InCap = OutCap = 3`, so a 2-byte request nearly fills the input buffer and a 3-byte handler response overflows the output buffer;
- `LimitLocalTasks = 0`, so a second local task gets a 503;
- `MaxPending = 1`, which bounds how often the sweep may append onto pending bytes; without it `toSend` is unbounded, which is the wire bug;
- six request shapes covering every route (a `JSON_RPC_TASK` route included, which the reactor closes), keep-alive on and off, and a body;
- `EpollCanFail = TRUE`, so every handler may lose its slot in the middle (the refinement run too). The
  liveness runs set it FALSE, since a failure there may crash the process and no progress is then owed.

Symmetry over stamps and request ids is sound because the model only compares them for equality. The
refinement is checked in the same run: it is a safety property, so the symmetry is sound for it too. About
660k distinct states, about two minutes.

**Range runs:**
- bodies of 0-3 bytes;
- `SizeMod = 64` as the width of `size_t`, which is far above every number a token spells, so only `SIZE_MAX` and its `+1` wrap;
- all 2 methods, 3 encodings and 2 task kinds;
- 185 range sets of up to two tokens (closed, open, suffix, bare `-`, empty, non-digit, leading space, reversed, out of bounds);
- about 31k states.

Each violation config narrows the body sizes to the case it is about.

Two divergences the model shows in single steps have no run of their own:
- `bytes=0-0` on a one-byte body gets 416, because `!max_index_byte` throws (`server.cpp:224`);
- `bytes=-1` on a two-byte body returns both bytes (`server.cpp:252`).

Also without a run: the missing `return` of `check_client_support_gzip_encoding` (`server.cpp:88`) lets a client
that sent `Accept-Encoding: identity` get gzip. `PROJECT.json` lists these under "hazards".

**Statistics runs:**
- 2 slots, which is enough for a walk to pass one slot while the reactor changes the other;
- `ULLMod = 16`, far above any count of 2 slots, so only a real underflow wraps;
- 1 walker: the counters are shared by every thread that runs the callback, and spec §5 calls them best-effort
  statistics tolerant of races, so two concurrent pages are not checked against each other;
- about 470k states for the passing run.

**Liveness run:** one descriptor, which is still reused across connections, and no symmetry. Besides the
local, static and unrouted shapes it has one whose `Content-Length` is `-1`: `atoi` gives a non-zero value, so
`bodyExists` is set (`server.cpp:710`), and the body check `len && pos == parse_result + len` can never hold.
About 460k states. The same shapes on their own make the stall run fail: the sweep answers the stuck request
with 408, and that response waits behind the send gate.

### Fairness

Each of these actions is weakly fair:
- `WorkerTake(w)` and `WorkerFinish(w)`: a pool thread blocked on a non-empty queue is woken, and the handler returns;
- `Drain`: the reactor drains the performed queue every iteration, because `epoll_wait` has a 100 ms timeout;
- `Send(fd)`: the client keeps reading.

Nothing is assumed of clients sending, hanging up or timing out.

## Not modelled (yet)

- **Failures in accept**: of `epoll_ctl(EPOLL_CTL_ADD)`, of `set_non_blocking_mode_socket` and of the
  `Buffer`/`Request` allocations. Each closes the new socket before a slot is set up, so no slot changes.
- **The rotating 100-slot sweep window.** Every slot is eventually visited, so the nondeterministic time-out covers it.
- **The static cache.** Static tasks run only on pool thread 0, so the unsynchronised cache insert races only
  when an application routes `default_callback_static_resources` as a `LOCAL_TASK`. What remains is file I/O.
- **Statistics totals.** `addTotalNumber*` and `setCurrentNumberTasks` are only incremented by the reactor and printed.
- **String parsing helpers** (`parseParamsRequest`, `urlencoded`, `multipartFormData`). They have no shared
  state, so their defects are single-call bugs a unit test reaches. Reading `multipartFormData` shows three:
  the searches for `name=`, `filename=`, `Content-Type` and the blank line run past the current part's boundary,
  so an absent field takes a later part's value; `name=` also matches inside `filename=`; and the part data
  keeps its trailing CRLF. Modelling them would mean building strings character by character, which the model
  checker adds nothing to.
- **Configuration.**
- **The dead `response/chains/*.h` classes.**

See `PROJECT.json` "components".

## Plan for later sittings

1. Done: `ResponsePrepare.tla`. Left open: what a bare `-` or an empty element should mean, since the spec is silent.
2. Done: `Connection.tla` and `ReactorConnection.tla`.
3. Done: epoll_ctl failure (`EpollModFails`, `DispatchFails`).
4. Done: `Statistics.tla`.
5. Not planned: the static cache (see "Not modelled").
6. A request shape with trailing bytes (pipelining, or more body than `content-length`), for the exact-length
   body check of `server.cpp:723`.
7. Not planned: request parameter and form parsing (see "Not modelled").
8. Done: negative `Content-Length` through `atoi` (the `cl` field of a request shape).
