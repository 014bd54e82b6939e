# Verification of xfinal

TLA+ models of xfinal (`src/xfinal/*.hpp`), a header-only C++ HTTP and websocket
framework on asio, with TLC runs on small instances and TLAPS proofs for all.
`PROJECT.json` lists the runs, the mutants, the source lines behind every
definition, the findings, the hazards and the theorems.

## 1. The system

| Component | Source | State | Operations | What is hard |
|---|---|---|---|---|
| websocket write path | `websocket.hpp` 221-286, 350-367, 529-667; `http_router.hpp` 249-277 | hub list under `list_mutex_`, `end_thread_`, per websocket two atomics and a write timer, per message a queue of frames | `write`, `send`, `write_frame` and its completions, timer expiry, `close`/`shutdown`, `~http_router` | several hub threads, io threads and application threads on two unsynchronised flags; callbacks under a mutex; shutdown |
| http connection | `connection.hpp`, `http_handler.hpp` 299-315, 510-534 | socket, `socket_close_`, `need_terminate_request_`, three timers, one request and one response, a deferred guard | read header, read body, route, refuse, write (plain, chunked, upgrade), keep-alive, time-outs, drain | an application thread answers beside the io thread; expiries already queued; who ends what |
| sessions | `session.hpp`, `http_handler.hpp` 330-380 and 799-814, `http_router.hpp` 570-579 | map under a mutex, session objects under their own, files on disk | create, look up, change data/id/expiry, save, expiry check, restart | two mutexes in two orders; save in several sections; crash between truncation and writing |
| websocket reading side | `websocket.hpp` 141-156, 221-365, 381-524, 670-677 | `frame_info_`, `buffers_` and `data_current_pos_`, `message_`, read timer, the map of websockets | frame parser, fragments, ping/pong/close, "open", "message" and "close" events | one buffer for all fragments; each read under a timer; `close` on several threads at a time |
| websocket handshake | `websocket.hpp` 726-763 | key and version of the last handshake | `is_websocket`, `update_to_websocket` | members that all io threads share, kept while a body is read |
| body buffer, multipart and octet-stream | `connection.hpp` 154-173, 188-602; `http_parser.hpp` 456-533; `utils.hpp` 247-262 | `buffers_` and the positions and sizes in it, the parts, the file | `expand_size`, `continue_read_data`, header, text, octet stream and part readers | a boundary or a body cut by the segments; the limit; positions that outlive a move |
| http client | `client.hpp` 176-218, 503-591, 640-685, 774-845, 883-1119 | pool of connections, `ScopeRunner::count`, a timer per connection, `concurrent_synchronous_requests` | request, connect, write, read, retry, `stop`, destructor | retry races stop and time-out |
| response | `http_handler.hpp` 536-953, `response_status.hpp`, `files.hpp`, `connection.hpp` 609-715 | state, headers, body, file and positions in it | `write_string`, `write_file`, `write_state`, `redirect`, whole or in chunks, `Range`, `reset` | what several calls leave behind; where a client thinks the response ends |
| routing, interceptors | `http_router.hpp` 285-556 | maps filled before `run` | register, look up a route, its interceptors, a websocket's events | which of several urls that fit |
| server, acceptor, io pool | `http_server.hpp` 46-80, 235-291; `ioservice_pool.hpp` | acceptor, `io_index_`, the io_services, their work and threads | `serve`, accept, `get_io`, `run`, `stop` | `stop` from any thread and at any time; which threads handlers share |
| parser, request, cookies, utilities | `http_parser.hpp`, `http_handler.hpp`, `utils.hpp`, ... | none or per request | parsing and formatting | text |
| vendored code and tables | `json.hpp`, `inja.hpp`, `ghc/`, ... | | | not part of this project |

How they interact.  The server accepts a socket on the acceptor's thread, takes
an `io_service` from the pool and starts a `connection` on it; every handler of
that connection runs on that io thread.  `connection` asks `http_router` for a
route and runs it.  The route answers at once, or takes `response::defer()` and
an application thread answers when it drops the guard.  Responses save the
sessions of their request through `session_manager`, whose map http_router's
timer thread checks for expired ones.  An upgrade moves the socket to a
`websocket`; what is written to it goes through the process-wide
`websocket_hub`, which http_router's second thread runs.  `connection` reads its
requests through its one buffer, whose handlers end in the route, in a refusal or
in a disconnection; what the route's calls leave in the response it writes at
once or in chunks, and resets the response for the next request.  The client is a program of its own: it shares no object
with the server.

## 2. Modules

| Module | Models |
|---|---|
| `FrameStream` | abstract: what the write path of a websocket promises |
| `WebsocketHub` | the write path, one step per access to shared state |
| `MCWebsocketHub` | its instances for TLC |
| `WebsocketHubProofs` | proofs, among them that `WebsocketHub` implements `FrameStream` |
| `HttpConnection` | one connection, one step per handler; the application thread in three steps |
| `HttpConnectionProofs` | proofs |
| `SessionManager` | sessions, requests, the expiry check, the files and the restart, one step per critical section |
| `MCSessionManager` | its symmetry for TLC |
| `SessionManagerProofs` | proofs |
| `FrameWriter` | `websocket::write` as an algorithm: a message cut into frames |
| `WebsocketReader` | the reading side of a websocket, one step per handler; `close` taken apart |
| `MCWebsocketReader` | what `FrameWriter` promises, for TLC |
| `WebsocketReaderProofs` | proofs, also of what `FrameWriter` promises |
| `RequestReader` | how a request is read: the buffer, the header, the four kinds of body |
| `MCRequestReader` | the requests a peer sends, for TLC |
| `RequestReaderProofs` | proofs |
| `ScopeLock` | abstract: what `ScopeRunner` promises |
| `HttpClient` | the client: pool, sessions, timers, retry, `ScopeRunner`, `stop`, the synchronous calls |
| `MCHttpClient` | which connections have a timeout, for TLC |
| `HttpClientProofs` | proofs, among them that `HttpClient` implements `ScopeLock` |
| `HttpResponse` | the calls of a route, the writing of the response, the reset before the next |
| `HttpRouter` | the tables of routes, interceptors and events, and the look-up in them |
| `MCHttpResponse` | their instance for TLC: requests, registrations and urls |
| `HttpResponseProofs` | proofs, also of the routes for any registrations |
| `HttpServer` | acceptor, io pool, `run` and `stop`, and the handshakes on the io threads |
| `HttpServerProofs` | proofs |

`HttpConnection` and `RequestReader` are two views of `connection`: the first has
its operations, timers and the application thread, and takes from a read only
its outcome; the second has the bytes of one request and no other activity,
which `OneActivity` of the first justifies.

### WebsocketHub

`list`, `listMutex`, `endThread` are the hub's; `open` and `writing` the two
atomics; `queue[m]` the number of frames left of a message (the cutting of a
message into frames is abstracted to their number); `net[m]` the asynchronous
write outstanding for it; `timer` and `expired` the write timer and a queued
expiry.  `hubPc` follows the loop of `send()`: `HubPop`, the reads of the two
flags (`HubTestOpen`, `HubTestWriting`), `HubClaim` (`is_writing_ = true`), the
second reads (`HubRetestOpen`, `HubRetestWriting`), and `write_frame`
(`HubFrame`, `HubStart`, `HubRelease`, `HubCallback`).  `ioPc[s]` follows the
completion handler of the websocket's io thread through the same `write_frame`
or through `close()`.  `UserClose` is an application thread in `close()` or
`shutdown()`; it starts after the test of the flag, since `shutdown()` has none.
A callback may write another message (`ReplyOf`): on an io thread it waits in
`add()`; on the hub thread it waits for the mutex its own thread holds
(`selfLock`).  `RouterEnd` and `RouterWake` are `~http_router`.

### HttpConnection

A handler is one step: `HeaderMore`, `HeaderRefused`, `HeaderRoute`,
`HeaderBody` and `HeaderDropped` are the outcomes of `read_header`'s handler,
the `Body` actions those of `continue_read_data` and the multipart and
octet-stream readers, the `Chunk` actions, `ResponseDone` and `Upgraded` those
of the writes, `Drained` that of `terminate_request`'s read, `IoExpiry` those of
the three timers.  `ops[o]` says whether operation `o` is outstanding or its
handler is queued.  `UserRelease`, `UserTest` and `UserStart` are
`~defer_guarder` on an application thread: it cancels the timer, reads
`socket_close_`, and starts the write; the io thread may act in between.  What
a request contains is a choice of its outcome.

### SessionManager

A section under one mutex is a step.  `set_id` (`SetId`, `ReplaceSession`) and
`check_expires` (`CheckExpires`, `Visit`, `RemoveExpired`, `EndCheck`) hold one
mutex while they wait for the other, and are split there.
`write_sessions_to_client` is `Respond`, `Serialize`, `OpenFile` (which
truncates), `WriteFile`, `ClearDataUpdate`, `ClearIdUpdate`.  `data[s]` counts
the changes made by `set_data`.  `Restart` forgets the memory and loads what the
files hold, as `default_session_storage::init` does; torn files are skipped.
Of a session's time only `stale` (expired or not) is kept.

### WebsocketReader and FrameWriter

`reads[k]` is the asynchronous read of a frame's head, length, mask key or
payload: outstanding, its handler queued, or none.  `Read` is what every one of
them starts with (`start_read_timeout`, then `async_read`), `Handler` what every
handler starts with (`cancel_read_time`).  `HeadCloses`, `HeadControl` and
`HeadData` are the ways through `frame_parser`, `LengthHandler` is
`handle_payload_length`, `KeyEmpty`, `KeyData` and `KeyThrows` are `read_data`, `DataHandler`
is `set_current_pos` and `decode_data`.  `info` is `frame_info_`, `buffers` and
`pos` are `buffers_` and `data_current_pos_`.  `ioPc` says which application
event the io thread is in; `EventReturns` and `EventCloses` are what the
application may do there.  `pc[t]` follows thread `t`, the io thread or one of
`Users`, through `close()` or `null_close()`, which run without a lock:
`CloseTest`, `CloseSocket`, `ClearOpen`, `CancelTimers`, `Unregister`.
`PeerFrame`, `PeerMore` and `PeerData` are the peer, whose messages are
fragmented as the protocol says; `wire` is the frame it is sending.

A length is the peer's, up to 2^64 - 1.  `TotalSize` is the sum of `expand_buffer`
(511-516) with its width, `WordSize`.  It may wrap: then `Resize` makes the buffer
shorter than `data_current_pos_`, and the read that follows is told to put the payload
behind the buffer's end.  The first byte that comes is undefined behaviour
(`PeerOverruns`), after which the program has ended or nothing is seen of it.  It may be
more than a vector can have or there is memory for (`MaxBuffer`): `resize` throws,
nothing on the pool's thread catches that, and the program ends (`KeyThrows`,
`Terminates`).

A payload byte is its number in what the peer sends and the mask on it, so that
lost, repeated, reordered and wrongly unmasked bytes are told apart.  A head may
come one byte at a time: the handler then reads the zero that `memset` left for
the second byte, takes the frame for unmasked and closes.

`Cut` gives the frames of `websocket::write` one by one, in closed form, with
the two sixteen-bit sizes of its loop.  `MCWebsocketReader` compares them with
what a frame sequence has to be: payloads in a row are the message, each length
in its right form, one first and one final frame.

### RequestReader

`buffers`, `cur`, `left`, `start` and `expand` are `buffers_`,
`current_use_pos_`, `left_buffer_size_`, `start_read_pos_` and
`expand_buffer_size`; sizes are kept to the width of `std::size_t`
(`WordSize`).  `pc` is the handler function that runs next, at once or, when
`reading` is set, as the callback of the read.  `Receive(n)` is a segment of any
length that `async_read_some` may return.  `Expanded` is `expand_size`,
`ReadMore` and `ReadAfresh` the two forms of `continue_read_data`, `Forwarded` is
`forward_contain_data`.  `HeaderIncomplete`, `HeaderRefused` and `RouteBare` are
`read_header` and what it decides; `PreprocessBody`, `PreprocessBodyAfresh` and
`ProcessBody` the body that stays in the buffer (a url-encoded form or a text);
`PreprocessOctStream` and `ProcessOctStream` the one that goes to a file;
`PreprocessMultipart`, the `PartHead` actions and the `PartData` actions the
parts of a form, with the searches of `is_complete_part_header`,
`parser_part_head`, `is_end_part_data` and `is_end`.  Bytes are kept, since
everything here is about which of them are whose: the buffer holds zeros where
`resize` put them, stale bytes where something was moved away, and a header's
bytes as `HeadByte`.  A request says what its peer meant (`body`, `parts`, and in `at`
where the boundaries of a form are), so that the route can be compared with it.
`Encodes` says when a body is the encoding of its parts: boundary, head, data and
CR LF of each, no boundary elsewhere, no two parts of one name.  `BodyWhole` and
`Served` promise nothing of a body that encodes no form; those of the run all
encode one (`FormsAssumption`).

Kept short: the "--" of a boundary and its key are one byte each; a header is
complete by its length; a part with a file and one with a text are the same, and
so are their maps; a part's head has one field, its name.

### HttpClient and ScopeLock

`pool` and `inUse` are `connections` and their flag, `conn[r]` is the session's
connection, `retryable` holds the connections with `attempt_reconnect`; an
object without a reference is gone (`Refer`), as `shared_ptr` has it.  `op[r]` is
the asynchronous operation of request `r` and `net[r]` how far it is; `async_write`
and `async_read` are composed of transfers, and between two of them (`partial`,
`Transfer`, `Continue`) nothing is outstanding on the socket.  A completion
handler is `Dispatch` (`cancel_timeout`, the load of the counter), `EnterScope`,
`Reload` and `TurnedAway` (the loop of `continue_lock`, one step per
compare-and-swap), and then one of its ways out: `Advance` starts the next
operation, `Retry` and `Reconnect` make the request again, `Succeed` and `Fail`
call back (`EndSession` is the section under `connections_mutex`, `RunCallback`
the application's function), and `Throw` leaves by an exception: `stoull` of a
`Content-Length` that is no number (919), or `new char[length]` for a chunk (1046), both
outside any `try`.  The stack is unwound, so that the lock of the scope and the session
are let go, but the callback, which alone clears `in_use`, is not called: the
connection stays in the pool as a used one (`leaked`), and the request is never
answered (`broken`).  `RunThrows` is where the exception arrives: in `io_service::run()`
of one of the threads there.  Of a synchronous call, whichever request's handler it was
running, `--concurrent_synchronous_requests` is skipped (`"threw"`): the counter never
comes back to 0, nobody resets the `io_service` once it has stopped, and a later call,
also one with nobody beside it, returns empty (it is `late`, as the call that threw is
still counted in).  `Expire` and `OnExpiry` are the timer, which
cancels what the socket is doing by then.  `CloseScope` is `ScopeRunner::stop`
and the `stop()` after it; `Destroy`, or a callback, starts the destructor.
`CountIn`, `EnterRun`, `RunRefused`, `LeaveRun` and `CountOut` are a synchronous
call around its `io_service`.  What a response says (its length, its chunks,
whether it is malformed) is a choice of the outcome.

`ScopeLock` has no counter and no loop: handlers enter and leave, and the scope
is closed when none is inside, for good.

### HttpResponse and HttpRouter

`status`, `body`, `isChunked`, `writeType`, `startPos`, `endPos`, `portion` and
`file` are the members of `response` (`state_`, `body_`, `is_chunked_`,
`write_type_`, `init_start_pos_`, `init_end_pos_`, `portion_need_size_`,
`file_`); of `header_map_` the headers that frame a response are kept: the
`Content-Length`s, how many `Transfer-Encoding`s, the `Content-Range`.  Each call
is an action: `WriteState`, `Redirect`, `WriteString`, and `WriteFile` with its
ways out (no such file, `HEAD`, at once, in chunks, a range); a route may make
several.  Of a file read at once, `WriteFileWhole` takes the size that becomes
`Content-Length` (`files.hpp` 193-196), and `ReadAll` is the step after it, which reads
to the end that the file has by then (238-244).  `Release` is the guard's: `header_to_buffer` with the terminator's
`Connection: close`, and the bytes of a response that is not chunked.
`ChunkString`, `ChunkFile`, `ChunkNone` are `chunked_body` by the type of the
body, `FileRead` is `XFile::read` with the stream's failed state, `EndChunk` the
last chunk.  `NextRequest` resets everything but `state_`, `FileChanges` is
anybody who writes the file between any two steps.  A byte is its position in the text or
file; `meant` is the history of what the last call asked for.

`Register` is `reg_router` with `add_event`, `PreRouter` is `pre_router`,
`GetInterceptorsProcess` its namesake and `Dispatch` what `parse_header` and
`start_webscoket` make of the three.  Urls are sequences of characters, of which
`/` and `*` count.  The tables change only before the server runs, so the module
is operators: `RouteAgrees` compares them with `Deserved`, which says directly
which registration a request is due (a url for itself, one with a star for all
below; the longest; the first of equals), over every table of the bounds.

### HttpServer

`thread` and `busy` are the pool's threads and the handler each is in: thread `i`
runs the `i`-th `io_service`, the last the acceptor's.  `stopCount` says how far
`stop()` has come along them, `runPc` where the thread is that calls `serve()` and
`run()`.  `StartAcceptor` is `start_acceptor` with `get_io`; `Accepted` and
`AcceptNext` are the handler of `async_accept` on either side of its last call.
A handshake is taken apart at the accesses to what the threads share: `Header`
begins its handler, `IsWebsocket` stores `sec_webSocket_key_`, then the handler
refuses (`Refused`), waits for a body (`AwaitBody`, `RouteAfterBody`) or routes
(`Route`), and `UpdateToWebsocket` reads the key.  A `string_view` is two words:
who stores or reads while another thread stores may get `Torn`.

A connection has one handshake and then waits for its peer (requests that are not
handshakes touch nothing that is shared here); the version is kept beside the key
and goes the same way.  Which connection object `start_acceptor` makes is a
`CHOOSE`, as those not yet made are alike.  `Run` is one step, and not in the middle
of `stop()`: both write the vectors of the pool without a lock, which is undefined
behaviour.

## 3. Runs

| Run | Bounds | Shows |
|---|---|---|
| `hub` | two routers and hub threads, one websocket, a closing thread, three messages, one of two frames, one written by its callback | writes of a websocket never overlap, only a closed websocket locks the hub up, refinement of `FrameStream`; every message settles, `~http_router` returns |
| `hub_lost_message` | one hub thread, two messages, nobody closes | **violated**: a message is lost on an open websocket |
| `connection` | up to two requests | one activity at a time, request/response alternation, timers, release |
| `connection_drain` | one refused request | **violated**: the drain never times out |
| `sessions` | two requests at a time, one object, three ids, one restart | map and ids agree; files and sessions agree |
| `sessions_deadlock` | one request and the check | **violated**: `set_id` and `check_expires` deadlock |
| `reader` | two frames, one closing thread, lengths 0, 1 and 3, `WordSize = 5`, `MaxBuffer = 3` | no read without its timer; messages whole, in and out; a silent websocket closes, a closed one is let go |
| `client` | two requests, three connections of which one has a timeout, one io thread; asynchronous, with `stop()`, or synchronous, without | one session per connection and none leaks unless a handler threw, at most one callback and one retry per request, a synchronous call gets its answer, refinement of `ScopeLock`, a request with a timeout ends, the destructor returns |
| `body` | 25 requests of every kind, `InitialSize = 8`, `MaxSize = 20`, segments of every length | reads stay in the buffer and nothing in it is stale; the route gets what was sent; nothing is waited for that has come |
| `response` | two files of 0, 4 or 5 bytes that may change, texts of 0, 3 or 4, chunks of 2, two calls per route, sixteen requests; all registrations of up to two urls with any methods and three with one, over seven urls, and all request urls of up to five characters | a client finds one response, of the status and bytes the route asked for, and its end; a request gets the best registration's route, interceptors and events |
| `server` | three connections, two io threads, `stop()` at any time | a handshake's own key unless another thread has overwritten it; `run()` returns after `stop()`, and no handler runs after it |
| `reader_timeout` | one frame, nobody closes | **violated**: a websocket that got a ping never times out |

Why the bounds are enough to meet the cases.  Two messages on one websocket are
what competes for `is_writing_`, a third comes from the callback of one of them; two frames are what makes a message be in the
middle; two hub threads are two routers in the process.  Two requests on a
connection reach keep-alive and the state the first leaves behind; more repeat
it.  Two requests on one session with three ids reach two concurrent `set_id`
calls; one restart reads every file the first process can leave, and what
follows it is as before.  One session object is re-used when nothing refers to
it; sessions share nothing but the manager, and two at a time are left to a
later extension.  Two frames are a first and a last fragment, or a fragment and a
control frame, or a message after another; `Len7 = 2` and `Len16 = 3` stand for
126 and 65536, so that lengths 0, 1 and 3 meet an empty frame, a length in the
head and one after it, and a message of 3 bytes is written back in two frames of
`FrameSize = 2`, one full and one not.  Which of the longer forms a length is in (two or
eight bytes) changes only how it is parsed; that one of eight bytes may be near 2^64
does not: `WordSize = 5` and `MaxBuffer = 3` stand for 2^64 and the longest vector, so
that a first fragment of 1 byte and a second of 3 are too long together (4), and two
of 3 wrap (6, which is 1).  `ReaderAssumption` keeps `FrameSize` below `Len16`:
the manual's maximum (README.md:642), which `set_websocket_frame_size` does not
enforce.

Two requests of a client share the pool, the counter and, synchronous, the
`io_service`; a third connection is what a retry needs beside two in use.  The
second connection is the timed one, so that a request may be made on it new or
kept, beside one without a timeout.  Two io threads add only the interleaving of
handlers of two requests between the steps of `continue_lock`; the proofs cover
any number.  A buffer of 8 that may grow to 20 is doubled once and then clamped
(a form) or refused (anything else); headers of 3 and 8 leave room behind them
or fill it; bodies of 1, 2, 10 and 24 fit, fill and exceed; `WordSize = 64` lets
the size of an endless header wrap.  The forms have empty parts, parts that
start like a boundary, a part longer than the buffer, a preamble and an epilogue.
The kind of a request is what the code takes it for: `has_body` reads `Content-Length`
with `atoi` (`http_handler.hpp` 60; `body_length` uses `atol`, 71), so that on the usual
platforms a body of 2^31 bytes or more may count as none and be routed without its
content.  `BodyWhole` promises nothing of such a request.
With chunks of 2, lengths 0, 3, 4 and 5 are no chunk, whole chunks and a rest;
the ranges `2-`, `1-3` and `-2` begin and end inside, before and behind a file of
these sizes, and `WordSize = 16` lets a portion wrap.  Two files and two calls
reach a second call on an open handle; a kept connection carries any number of
responses.  The seven urls are a root, a url, one below it, and stars below each
of them and below one that shares only its letters; three registrations are two
that fit and one that does not, in every order.  In `serve()` the resolver takes the first
index of `get_io`, so that of three connections the first and the third share an
io thread and the second has the other: a handshake meets one on its own thread
and one beside it, before, during and after its body.  Deadlock is not checked: a
connection, a hub, a session, a client, a reader, a response and a server really
do come to rest.

`MessageWhole` leaves out a message whose last fragment is empty: `read_data`
(462-472) then reports an empty message and throws away the fragments before
it.  In the passing runs the lost message counts as settled (`Forgotten`), the
locked-up hub as an exception (`LockedUp`), and the session shared by two
requests as not promised (`shared`), the websocket that got a ping as never
closing (`Deaf`): the violation runs and the hazards say why.  Of a reader, `TypeOK`
leaves out a buffer whose sum wrapped (`Wrapped`), and of `ClosedReleased` the event
when the program has ended.  Of a client, `PoolSound` leaves out the connections of
sessions whose handler threw (`leaked`) and `AnsweredOnce` says of their requests that no callback
comes (`broken`);
`RequestSettles` leaves out a request whose expiry came between two transfers
(`lost`) or whose caller was thrown out of `run()`, and `SyncAnswered` one that was
counted in too late (`late`) or whose handler threw in another thread's `run()`;
`DestroyReturns` leaves out a destructor that a callback runs.  `BodyWhole` and
`Served` leave out the ways listed below under 7, `Framed` those under 8
(`mishaps` of either module), `RouteAgrees` the events of 8 (`ShareEvents`) and
`OwnHandshake` a handshake with a late body and the keys of other threads (9).  The
models keep a history variable for each, so that nothing else is left out.

### Fairness

* hub: threads that can run do, an io thread runs some posted handler, a timer
  expires, a write on a closed socket is aborted (asio's guarantee).  The peer
  need not read and the application need not write or close.  `list_mutex_` is
  not fair in theory; the hub thread spins on it while a websocket is busy, so
  while it is free again and again one of the threads that wait is assumed to get
  it (strong fairness of `Waiting`).  The two liveness properties say that again
  and again nothing is left unsettled or unjoined; since nothing that is settled
  is ever unsettled, that is the same as each message leading to its end, and TLC
  checks it without a tableau.
* connection: handlers run, timers expire, aborted operations complete, a
  thread inside `~defer_guarder` goes on.  The peer need not do anything, and a
  route need not release its guard.
* sessions: threads go on; the timer is armed again after every check.  Requests
  are not fair.
* reader: handlers run, the timer expires, reads on a closed socket end, a
  thread inside `close` goes on.  Neither the peer nor the application need do
  anything, and a write need not fail.
* client: threads of the `io_service` and callers go on (the program is assumed to
  call `run()` again on a thread that an exception left), timers expire, the
  resolver answers and a connection attempt ends, either way.  The server need
  not do anything once it is connected, except that a chunked body has a last
  chunk (strong fairness of the end of a body).  `ScopeRunner::stop` spins; it is
  assumed to be scheduled at a moment when the counter is 0 if there are always
  such moments (strong fairness of `CloseScope`).
* server: the threads of the pool go on with the handlers they have begun and leave
  `io_service::run` when there is nothing to do, `stop()` and `run()` go on.  Nobody need
  connect, send or call `stop()`.
* body, response: safety only.

### What the runs found

1. `websocket.hpp` 647-653: `is_writing_` is read twice; if the previous write
   ends between the two reads the popped message is dropped, on an open
   websocket, with no callback.
2. `websocket.hpp` 609-614: a websocket closed under way gives `true` to the
   callback, whatever frames are left, against README.md:605 ("whether it was
   written out").  `FrameStream` has it as it is: success is reported when the last
   frame is out or the socket was closed before.
3. `connection.hpp` 732-751 and 764-774: the read timer of the drain calls
   `disconnect()`, which does nothing as `socket_close_` is set already.
4. `session.hpp` 195-204 and 169-181: the two mutexes are taken in two orders.
5. `websocket.hpp` 387-400: a ping or a pong starts no further read and leaves no
   timer armed, and no pong is sent, since `write("")` does nothing: the
   websocket stays open, deaf, until a write fails or the application closes it.

Items 1, 3, 4 and 5 are runs of their own, which TLC shows violated.  Item 2 and
the following are met in the passing runs, whose properties name them as exceptions.

6. `client.hpp`.  The expiry (503-521) cancels what the socket does at that
   moment: between two transfers of a read or a write that is nothing, and no
   timer is left, so that the request waits as long as the server likes, against
   "Set timeout on requests in seconds" (476).  An expiry already queued when an
   operation completes cancels the next one.  The resolver is not cancelled.  A
   synchronous request that counts itself in after the `io_service` has run out
   of work and before another counts itself out returns an empty response
   (573-584).  The destructor, called from a callback, waits for the lock that
   callback holds (209, 783).  A retry leaves what came of the first header in the
   response's buffer (972); `attempt_reconnect` keeps it to one retry.  An exception of
   `stoull` on `Content-Length` (919) or of `new char[length]` (1046) leaves `run()`: no
   callback, a connection of the pool in use for ever, and a synchronous counter that never
   reaches 0 again, so that later requests may return empty.
7. `connection.hpp`.  `expand_size` doubles with every read, whatever has come: a
   small header or text in a dozen segments is refused as too large
   (`shortRead`).  `read_header` ignores what `expand_size` returns, so that an
   endless header is read on into a buffer that grows no more, until the size
   wraps (`headerOverflow`).  A delimiter cut just before its last byte is
   recorded as data (`http_parser.hpp` 496, `swallowed`); `is_end` compares bytes
   that have not come (`cutEnd`).  The file of an octet stream is opened only if
   some of it came with the header (`unopened`), and one followed by more is
   never complete.  A part's head that a read cuts behind a large part refuses
   the request; a head whose end stands before its boundary ends in a
   disconnection without a response.
8. `http_handler.hpp` and `http_router.hpp`.  An empty text or file in chunks is
   one empty chunk, which is the end of a body, and then comes the end again
   (`empty`).  `state_` is not reset (899-913), so that a route that writes
   nothing repeats the status of the request before, without a length (`silent`).
   A second call adds a second `Content-Length` or `Transfer-Encoding` (`twice`).
   A `HEAD` request is sent the body of a text (`headBody`).  A range is not
   compared with the file's size, and "the last n bytes" is read as a negative
   position (`range`); a file that is cut while it is sent ends its chunks early
   (`shrunk`); one that gets longer between its size and `read_all` (655-656) is sent with
   more bytes than `Content-Length` says (`grown`).  The line of status 202 is cut to the length of another's
   (`response_status.hpp` 59, `statusLine`).  A url that is registered with a slash
   at its end is never found (463-472); a websocket on a url and one on the same
   with `/*` behind it have their events under one key, and the second's are lost
   (`ShareEvents`).
9. `websocket.hpp` 748-758.  The key of a handshake is a member that all io threads
   share.  One with a body that comes after its header, or with a handshake on
   another thread between its header and its route, is answered with the key of
   another, or with a view that two threads wrote or whose buffer is gone.  With
   one io thread only the late body is left (`OneThreadIsSafe`).  `is_websocket`
   tests "empty and not upgrade" (733, 737), so that any value of the two headers
   passes.
10. `websocket.hpp` 508-517.  A payload length near 2^64 behind a gathered fragment wraps
   the sum of `expand_buffer`: the buffer gets shorter than `data_current_pos_` and the
   payload is read past its end (`PeerOverruns`).  A length that is only huge makes
   `resize` throw out of `io_service::run()`, which ends the program (`KeyThrows`).
   Nothing compares a length with a maximum.

## 4. Proofs

Each proofs module proves its invariant for all values of the constants, from
the ASSUMEs of the module it extends (constants have their types, the values
that stand for "nothing" are distinct from the others; for the hub also that a
message has at least one frame, since `write` returns at once for an empty
message).

**WebsocketHubProofs.**  `OneTransmission` is not inductive: that two messages of
a websocket are not both in the middle rests on the flag, the flag on who may
clear it, and that on where every thread is.  `IInv` has four parts.  *Control*:
a hub thread is inside its loop exactly when it holds the mutex; a handler is
about a message of its own websocket; `close` has cleared `socket_is_open_`
when it clears `is_writing_`.  *Places*: a message is in the list, with a hub
thread, in a handler or on the wire, and in one of them only; until a hub thread
claims its websocket no frame of it is sent.  *Progress*: a message in a handler
or on the wire has had a frame sent.  *Exclusion*: while a websocket is open,
`is_writing_` covers whoever transmits or is past its last test; a thread that
claims or releases the flag finds nobody else transmitting.  From `IInv`: type
correctness, `OneTransmission`, `CallbackOnce`, `SelfLockNeedsClose`,
`FailureCloses`, and `ImplementsStream`: every step of the hub is a step of
`FrameStream` or leaves its variables alone.

**HttpConnectionProofs.**  The invariants are inductive together with three more:
`SockFlag` (what `sock` says about `socket_close_`), `Due` (a response is due
exactly while a body is read or a guard is held, so that `begun` follows
`received`) and `Refused` (once `need_terminate_request_` is set only the writes
of that response and the drain are left).  From them all four invariants of the
run; and `HandedOver` (after an upgrade the connection does nothing to the socket)
and `RefusalEnds`, which no run repeats.

**SessionManagerProofs.**  `RegisteredByItsId` is inductive with `Held` (the mutex
of a session is held between steps only by the request that is in `set_id` with
it), `Named` (what is used or registered has an id) and `Checked` (while the
check runs nobody else changes the map).  `SavedUnlessShared` speaks of the moment
at which no request uses the session; `SavedOrSaving` says what holds while one
does: the file is right (`Saved`), or a flag is up that makes the request write
it, or the request is on its way to (`Saving`).  That a write lands in the right
file needs `FilesOwned` (a file, an open file and a text are those of the
session's own id, unless two requests shared the session while its id changed),
and that nobody else writes it needs `Assigned` (no two sessions have one id, none is
given twice, not even after a restart) and `TwoUsers` (two requests of one session
make its id `shared`).

**WebsocketReaderProofs.**  `ReadTimed` is not inductive: a thread in `close` may
find the flag clear and leave, and may cancel the timer of a read.  `Shut`
closes the gap: a thread past `CloseSocket`, and a flag that is clear, say that
the socket is closed.  With `OneReader`, which makes the handler that cancels
the timer the only one that could wait for it, and `BufferFits`, which keeps
`data_current_pos_` inside the buffer as long as no sum wrapped, all four are inductive, for any number of
threads and frames, any payload lengths and any width of their sum: `Room` says that
outside a read of a payload whose sum wrapped, which ends in an error or with the
program, the position is inside.  `OneReader` and `BufferFits` are proved only, no run repeats them.  `MessageWhole` follows the bytes: `Gathers` says for each
stage of a read what the buffer has of the message (`BetweenFrames`, `HeadRead`,
`InfoRead`, and `PayloadRead`, with the new bytes still masked behind those that
are not), so that unmasking at the right position yields the message and
`expand_buffer` and `reset` lose nothing of it.  `FramesCarryMessage` is proved of
`FrameWriter` for a message of any length and any frame size below `Len16`:
`CountsFacts` counts the frames, `FlattenPieces` joins pieces of one length (the
folds of `FlattenSeq` are induction over data, done by the least counterexample
that `Smallest` gives), `CutCarries` puts them together, and `WrittenBack` ties
them to the message the reader reported.

**HttpClientProofs.**  `PoolSound`, `AnsweredOnce` and `SyncAnswered` need each
other and what ties the counter to the handlers: `Counter` (while the client
lives `count` is the number of handlers in the scope; an `expected` that is
negative has been read from a counter that is), `Exclusive` (a connection has one
session, and an unused one none), `NoLeak`, `FlagsReferred` (no flag of an object
that is gone), `Sessions` (a request has a connection exactly while it is under
way, and its operation agrees with where its caller and its handler are),
`RetriedOnce` (a second write is on a connection that is not `retryable`) and
`SyncCalls` (`syncCount` is the number of counted calls, the `io_service` runs dry
only while one is counted, and one that came back is answered or late) with
`Answered` (a request with no operation and no handler left was answered, or a handler
of it threw: `ThrownCalls` says what `Throw` leaves of the calls, one of which stays
counted in).  `ImplementsScopeLock` follows from `Counter`: a step that
raises `count` lets a handler in, and `CloseScope` finds none inside.  All are
for any number of requests, connections and io threads.

**RequestReaderProofs.**  Two invariants, one on the other.  `IInv` is about the
buffer: `BufferSound` is inductive with `Room` (a read has room
until the header overflows), `Sized` (the buffer is at most `MaxSize` long, `cur`
within it, which is where the width of the sizes matters), `Position` and `Started`
(where the window is in every handler), `Kept` (the window is the last that
was taken of the stream; the four ways of moving it keep it so) and `TextWhole`
(a text that is routed is the body).  `BodyInv` is about what is made of it.
`Waits`: a read is started only while something is missing.  `OctetKept`: the
file of an octet stream has all that was read behind the header.  `Filled`: as
long as every read fills the buffer, as many bytes were read as it has been made
to hold, so that a refusal means a large request.  For forms, `Pos` is where in the
body the window starts and `Got` how far it was read.  `FormFollows` says that
while no boundary was lost (`swallowed`, `cutEnd`) the handlers follow the parts that
the peer encoded: `HeadNext(k)`, the window starts at the head of part k and the
parts before it are recorded; `DataNext(k)`, it is inside the data of part k, of
which all before the window is recorded, and the CR LF of the next boundary is
still ahead.  Each search is decided by where boundaries are (`Encodes`):
`NextFound` and `BoundaryMissing` for `find` and the boundary, `HeadFound` for the end of a
head, `LastCR` and `NothingKept` for `rfind` and a boundary that has begun,
`LastTold` for the test of the last one.  `FormApart` says as much of a
form in which one was lost, where only the distance to the boundaries is known.
From both invariants, for any requests, segments and sizes that `SizesAssumption`
admits: `BodyWhole` and `Served`.  `Smallest` gives `string_view::find` its first
match and `rfind` its last.

**HttpResponseProofs.**  `Framed` speaks of a response that is complete.  The
invariant follows it through the route and the chunks: `RouteInv` (what a route's
calls leave is what its last one asked for, as long as nothing went amiss),
`ChunkInv` (in the middle of a chunked body what was sent and what is left make
up the body; for a file that is a position, a portion and a handle that did not
fail), `WrittenInv` (what was written is all of it), `ReadInv` (between its size and
`read_all` a file that neither shrank nor grew is as long as announced), with `BodyThere`,
`ChunkedFramed` and `ChunkPc`, which say that the file is open and the response
marked as chunked while chunks are under way.  The lemmas before it put two
pieces of a text or a file together.  For any requests, texts, files that change
at any time, chunk size, width and number of calls.

`RoutesAgree` is about `HttpRouter`, for any registrations and urls whose stars are
at their end, behind a slash (`RegType`).  `TablesAre` gives the tables a closed form:
under each key is what the `First` of the registrations with that key gave
(`InsertNext`, `RegisterNext`).
`FitsIs` and `KeyFits` say that `Fits` is "the base or below it" and no more, and
`KeysAre` that keys keep methods and urls apart.  With them `SpecificFirst`,
`GeneralFirst` and `NoneFits` show for the three ways `pre_router` ends that what
it finds is what is deserved, and without `ShareEvents` the events too.
`RouteAgrees` follows, since the registrations and urls of the run are of that
type.

**HttpServerProofs.**  `OwnHandshake` follows a key from the store to the answer:
`KeyHeld` says that between the two, in a request that came at once, the shared
key is one's own or one of another thread, which needs `Occupies` (a connection
inside a handler has its thread for itself) and `Placed` (a connection has a thread
of the pool from its making).  `Runs` (only a running thread is in a handler, and
`run()` has waited for all) gives `QuietAfterRun`.  `OneThreadIsSafe` assumes
`PoolSize = 1` and concludes that the answer is one's own key.

Only model-checked: all liveness properties (fairness and ENABLED are beyond
the prover).

## 5. Not modelled

* Of the websocket's handshake: its headers and the digest of the key; when the buffer
  that a foreign key points to is freed (any foreign answer is already wrong).
* Of routing: the interceptors' own functions, the controllers' construction and
  what a route does beside its calls; their outcomes are choices of
  `HttpConnection` and `RequestReader`.
* Of the server: configuration, directories, the static route, and what resolve,
  open and bind throw.  A name with two addresses opens the acceptor a second time
  (`listen`, 240-243), which throws outside its `try`; with one address there is one
  accept loop, which is what is modelled.  `stop()` in the middle of `run()`'s start is
  undefined behaviour.
* Of the response: the bytes of headers and of chunk heads, cookies, templates
  and JSON, which end in `write_string`; the MIME type; several ranges in one
  header, which `accept_range` does not know.
* Parsing, formatting, cookies, templates: sequential functions or system
  calls, whose outcomes are inputs.  What a parser returns matters in the places
  `RequestReader` models: where a header and a part end.
* Of the client: HTTPS (the same chain with a handshake in it), the proxy, the
  form and file builders, and the bytes of a response, so that the partial header
  a retry keeps (972) is not told from other outcomes.  A chunk size that cannot be
  parsed is caught (1007-1013) and is a `Fail`; what is not caught is `Throw`.  A
  synchronous caller whose thread ran the throwing handler of another's request leaves
  its own `request()` with the exception, and its session with a callback that refers to
  local variables that are gone: calling it is undefined behaviour, and modelled as a
  callback like others.  The application's callbacks are assumed not to throw.  A connection has one queued expiry at a time.
  `handler_runner->stop()` and the `stop()` behind it are one step, as no handler
  is let in between.
* Of the reader: a second request in the bytes of the first, which `reset()`
  discards (776); a buffer shorter than the `left` bytes asked for; a boundary
  closer to the data's start than its CR LF (`Served` shows that it is not met).
* asio's own thread safety: xfinal uses socket and timer objects from several
  threads without a strand; the models take each call as atomic.  The order in
  which two messages of one websocket are sent, which the code promises nowhere.
* `~websocket_event_map`, which calls `close()` of every websocket as an
  application thread does; the websocket's user data; custom session storages;
  `add_expires`, `sub_expires` and the cookie's attributes, which set the same
  flags as `set_expires`.
* Vendored code and tables (`json.hpp`, `ghc/`, `inja.hpp`, `string_view.hpp`,
  `uuid.hpp`, `nanolog.hpp`, the tables of MIME types and code pages).  They are
  more than four fifths of the lines under `src/xfinal`, with no state shared with the
  framework, so that what is modelled is a small share of all lines and most of
  those with concurrency or state.

## 6. Plan

Order: by how much of the system's correctness hangs on it and how little a test
reaches it.

1. Done: write path, connection, sessions, the reading side of the websocket and
   the cutting into frames, each with its first theorems.
2. Done: `HttpClient` over `ScopeLock`, with its pool, retry, time-outs and
   synchronous calls; one run, its safety properties proved.
3. Done: `RequestReader`, the buffer over all ways a request may be cut into
   segments; one run, its safety properties proved.
4. Done: `HttpResponse` with the look-up of `HttpRouter`; one run, `Framed`
   proved.
5. Done: `HttpServer`, the io threads and the key they share; one run, its safety
   properties proved.
6. Done, proofs: `MessageWhole`, `FramesCarryMessage`, `SavedUnlessShared`, `BodyWhole`,
   `Served` and `RouteAgrees`: every safety property of a passing run is a theorem.
7. Two sessions in `sessions`; two io threads in `client`.
