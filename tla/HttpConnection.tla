--------------------------- MODULE HttpConnection ---------------------------
(***************************************************************************)
(* One HTTP connection (src/xfinal/connection.hpp): its asynchronous       *)
(* operations, its three timers, the response that a route may defer to an *)
(* application thread, keep-alive, refusal, and the handing over of the    *)
(* socket to a websocket.                                                  *)
(*                                                                         *)
(* The io thread of the connection runs one handler at a time: a handler   *)
(* is one step.  The application thread that releases a deferred response  *)
(* runs beside it: its release takes three steps.  A timer that expires    *)
(* queues its handler, which cancel() does not take back.                  *)
(***************************************************************************)
EXTENDS Naturals

CONSTANT MaxRequests    \* bound: the requests the peer sends

ASSUME MaxRequestsAssumption == MaxRequests \in Nat

VARIABLES
    sock,           \* socket_: open, half (shutdown for sending), closed or moved
    socketClose,    \* socket_close_
    terminate,      \* need_terminate_request_
    ops,            \* the asynchronous operations, or their queued handlers
    armed,          \* the timers that are waiting
    expired,        \* the timers whose expiry handler is queued
    guard,          \* the defer_guarder an application thread holds
    keepAlive,      \* req_.is_keep_alive()
    websocket,      \* req_.is_websocket()
    chunked,        \* res_.is_chunked_
    received,       \* the requests parsed
    begun,          \* the responses begun
    peer            \* the peer's end of the connection

flags == <<sock, socketClose>>
requestVars == <<keepAlive, websocket>>
vars == <<flags, terminate, ops, armed, expired, guard, requestVars, chunked,
          received, begun, peer>>

Reads == {"readHeader", "readBody"}
Writes == {"write", "upgrade", "chunkHead", "chunk", "chunkEnd"}
Ops == Reads \cup Writes \cup {"drain"}
OpStates == {"none", "out", "ok", "error"}
Timers == {"keep", "read", "defer"}
Guards == {"none", "held", "cancelled", "tested"}

\* The accepted connection starts with read_header.
Init ==
    /\ sock = "open"
    /\ socketClose = FALSE
    /\ terminate = FALSE
    /\ ops = [o \in Ops |-> IF o = "readHeader" THEN "out" ELSE "none"]
    /\ armed = {"read"}
    /\ expired = {}
    /\ guard = "none"
    /\ keepAlive \in BOOLEAN
    /\ websocket = FALSE
    /\ chunked = FALSE
    /\ received = 0
    /\ begun = 0
    /\ peer = "open"

-----------------------------------------------------------------------------
(* The transport, the peer and the timers.                                 *)

\* Data arrives, or the system takes what is written.
TransportOk(o) ==
    /\ ops[o] = "out"
    /\ sock = "open"
    /\ o \in Reads => peer = "open"
    /\ ops' = [ops EXCEPT ![o] = "ok"]
    /\ UNCHANGED <<flags, terminate, armed, expired, guard, requestVars, chunked,
                   received, begun, peer>>

\* The peer is gone, or the operation is aborted since the socket is closed.
TransportError(o) ==
    /\ ops[o] = "out"
    /\ sock = "closed" \/ peer = "closed"
    /\ ops' = [ops EXCEPT ![o] = "error"]
    /\ UNCHANGED <<flags, terminate, armed, expired, guard, requestVars, chunked,
                   received, begun, peer>>

PeerClose ==
    /\ peer = "open"
    /\ peer' = "closed"
    /\ UNCHANGED <<flags, terminate, ops, armed, expired, guard, requestVars, chunked,
                   received, begun>>

\* The three timers run independently, with times the application sets.
Expire(t) ==
    /\ t \in armed
    /\ armed' = armed \ {t}
    /\ expired' = expired \cup {t}
    /\ UNCHANGED <<flags, terminate, ops, guard, requestVars, chunked, received,
                   begun, peer>>

-----------------------------------------------------------------------------
(* What the handlers do.  The handler of operation o starts at most one    *)
(* other one; start_read_waiter goes with every start, cancel_read_waiter  *)
(* with every completion.                                                  *)

Finish(o) == ops' = [ops EXCEPT ![o] = "none"]

Continue(o, next) == ops' = [ops EXCEPT ![o] = "none", ![next] = "out"]

\* Mutant: the flag is set and the socket stays open.
DisconnectFlagOnly == socketClose' = TRUE /\ UNCHANGED sock

\* disconnect
Disconnect ==
    IF socketClose THEN UNCHANGED flags
                   ELSE sock' = "closed" /\ socketClose' = TRUE

\* Mutant: start_read_waiter is left out.
RespondUntimed(o, first, timers) ==
    /\ IF socketClose THEN Finish(o) /\ UNCHANGED begun
                      ELSE Continue(o, first) /\ begun' = begun + 1
    /\ armed' = timers

\* forward_write, chunked_write: the response is begun unless the connection
\* was disconnected; `timers` are those that run when the handler gets here.
Respond(o, first, timers) ==
    IF socketClose
      THEN /\ Finish(o)
           /\ armed' = timers
           /\ UNCHANGED begun
      ELSE /\ Continue(o, first)
           /\ armed' = timers \cup {"read"}
           /\ begun' = begun + 1

\* write
FirstOp(isChunked) == IF isChunked THEN "chunkHead" ELSE "write"

\* request_error and terminate_write: the response is the last one.
Refuse(o, isChunked, timers) ==
    /\ terminate' = TRUE
    /\ chunked' = isChunked
    /\ Respond(o, FirstOp(isChunked), timers)
    /\ UNCHANGED <<flags, guard>>

\* Mutants: the response is written although the route defers it; the defer
\* timer is not started.
PostRouterWritesDeferred(o, upgrade, timers) ==
    /\ terminate' = FALSE
    /\ chunked' \in BOOLEAN
    /\ Respond(o, IF upgrade THEN "upgrade" ELSE FirstOp(chunked'), timers \ {"defer"})
    /\ guard' \in {"none", "held"}
    /\ UNCHANGED flags
PostRouterUntimed(o, upgrade, timers) ==
    /\ terminate' = FALSE
    /\ chunked' \in BOOLEAN
    /\ \/ /\ Respond(o, IF upgrade THEN "upgrade" ELSE FirstOp(chunked'), timers)
          /\ UNCHANGED guard
       \/ /\ guard' = "held"
          /\ Finish(o)
          /\ armed' = timers
          /\ UNCHANGED begun
    /\ UNCHANGED flags

\* post_router: the route answers, and the guard it does not defer is
\* destroyed as post_router returns; or it defers, and the defer timer runs.
PostRouter(o, upgrade, timers) ==
    /\ terminate' = FALSE
    /\ chunked' \in BOOLEAN
    /\ \/ /\ Respond(o, IF upgrade THEN "upgrade" ELSE FirstOp(chunked'), timers \ {"defer"})
          /\ UNCHANGED guard
       \/ /\ guard' = "held"
          /\ Finish(o)
          /\ armed' = timers \cup {"defer"}
          /\ UNCHANGED begun
    /\ UNCHANGED flags

\* terminate_request: what the peer has sent is drained, under the read
\* timer; when nothing has come the connection is dropped, and with it the
\* socket.  socket_close_ is set in any case.
TerminateRequest(o) ==
    /\ socketClose' = TRUE
    /\ IF socketClose
         THEN Finish(o) /\ armed' = armed \ {"read"} /\ UNCHANGED sock
         ELSE /\ sock' = "half"
              /\ \/ Continue(o, "drain") /\ armed' = armed \cup {"read"}
                 \/ Finish(o) /\ armed' = armed \ {"read"}
    /\ UNCHANGED <<terminate, begun>>

-----------------------------------------------------------------------------
(* The handler of an operation that failed: disconnect.                    *)

Failed(o) ==
    /\ o # "drain"
    /\ ops[o] = "error"
    /\ Finish(o)
    /\ armed' = armed \ {"read"}
    /\ Disconnect
    /\ UNCHANGED <<terminate, expired, guard, requestVars, chunked, received, begun, peer>>

\* The draining ends, on whatever error: the socket is closed.
Drained ==
    /\ ops["drain"] = "error"
    /\ Finish("drain")
    /\ armed' = armed \ {"read"}
    /\ sock' = "closed"
    /\ UNCHANGED <<socketClose, terminate, expired, guard, requestVars, chunked,
                   received, begun, peer>>

(* read_header's handler, which also cancels the keep-alive timer.         *)

AfterHeader == armed \ {"read", "keep"}

\* The header is not complete: read on.
HeaderMore ==
    /\ ops["readHeader"] = "ok"
    /\ Continue("readHeader", "readHeader")
    /\ armed' = AfterHeader \cup {"read"}
    /\ UNCHANGED <<flags, terminate, expired, guard, requestVars, chunked, received,
                   begun, peer>>

\* A complete header, of a request of any kind.
HeaderParsed ==
    /\ ops["readHeader"] = "ok"
    /\ received < MaxRequests
    /\ received' = received + 1
    /\ keepAlive' \in BOOLEAN
    /\ websocket' \in BOOLEAN
    /\ UNCHANGED <<expired, peer>>

\* parse_header: the header does not parse, no route matches, an interceptor
\* refuses (and writes what it likes), or the content type is not supported.
HeaderRefused ==
    /\ HeaderParsed
    /\ \E c \in BOOLEAN : Refuse("readHeader", c, AfterHeader)

\* handle_read: a request without body, or whose body came with the header.
HeaderRoute == HeaderParsed /\ PostRouter("readHeader", websocket', AfterHeader)

HeaderBody ==
    /\ HeaderParsed
    /\ Continue("readHeader", "readBody")
    /\ armed' = AfterHeader \cup {"read"}
    /\ UNCHANGED <<flags, terminate, guard, chunked, begun>>

\* pre_process_multipart_data ignores a part whose head is malformed, here one
\* that came with the header: nothing is started, and the connection dropped.
HeaderDropped ==
    /\ HeaderParsed
    /\ Finish("readHeader")
    /\ armed' = AfterHeader
    /\ UNCHANGED <<flags, terminate, guard, chunked, begun>>

(* continue_read_data's and process_oct_stream's handler.                  *)

AfterRead == armed \ {"read"}

BodyMore ==
    /\ ops["readBody"] = "ok"
    /\ Continue("readBody", "readBody")
    /\ armed' = AfterRead \cup {"read"}
    /\ UNCHANGED <<flags, terminate, expired, guard, requestVars, chunked, received,
                   begun, peer>>

\* The body is too large, or its multipart header has no boundary.
BodyRefused ==
    /\ ops["readBody"] = "ok"
    /\ Refuse("readBody", FALSE, AfterRead)
    /\ UNCHANGED <<expired, requestVars, received, peer>>

BodyRoute ==
    /\ ops["readBody"] = "ok"
    /\ PostRouter("readBody", websocket, AfterRead)
    /\ UNCHANGED <<expired, requestVars, received, peer>>

\* A part whose head is malformed.
BodyDropped ==
    /\ ops["readBody"] = "ok"
    /\ Finish("readBody")
    /\ armed' = AfterRead
    /\ UNCHANGED <<flags, terminate, expired, guard, requestVars, chunked, received,
                   begun, peer>>

(* The handlers of the writes.                                             *)

\* write_body_chunked and write_end_chunked test socket_close_ again.
ChunkStep(o, next) ==
    /\ ops[o] = "ok"
    /\ IF socketClose
         THEN Finish(o) /\ armed' = AfterRead
         ELSE Continue(o, next) /\ armed' = AfterRead \cup {"read"}
    /\ UNCHANGED <<flags, terminate, expired, guard, requestVars, chunked, received,
                   begun, peer>>

ChunkFirst == ChunkStep("chunkHead", "chunk")
ChunkNext == ChunkStep("chunk", "chunk")
ChunkLast == ChunkStep("chunk", "chunkEnd")

\* close: reset and read the next request, under the keep-alive timer and
\* the read timer, or disconnect.
Close(o) ==
    IF keepAlive
      THEN /\ Continue(o, "readHeader")
           /\ armed' = AfterRead \cup {"keep", "read"}
           /\ terminate' = FALSE
           /\ UNCHANGED flags
      ELSE /\ Finish(o)
           /\ armed' = AfterRead
           /\ Disconnect
           /\ UNCHANGED terminate

\* The response is out.
ResponseDone(o) ==
    /\ o \in {"write", "chunkEnd"}
    /\ ops[o] = "ok"
    /\ IF terminate THEN TerminateRequest(o)
                    ELSE Close(o) /\ UNCHANGED begun
    /\ UNCHANGED <<expired, guard, requestVars, chunked, received, peer>>

\* The response to an upgrade is out: the websocket takes the socket.
Upgraded ==
    /\ ops["upgrade"] = "ok"
    /\ IF terminate THEN TerminateRequest("upgrade")
                    ELSE /\ Finish("upgrade")
                         /\ armed' = armed \ {"read", "keep"}
                         /\ sock' = "moved"
                         /\ socketClose' = TRUE
                         /\ UNCHANGED <<terminate, begun>>
    /\ UNCHANGED <<expired, guard, requestVars, chunked, received, peer>>

\* Mutant: the expiry is only reported.
IoExpiryReports(t) ==
    /\ t \in expired
    /\ expired' = expired \ {t}
    /\ UNCHANGED <<flags, terminate, ops, armed, guard, requestVars, chunked, received,
                   begun, peer>>

\* The expiry handler of any of the timers.
IoExpiry(t) ==
    /\ t \in expired
    /\ expired' = expired \ {t}
    /\ Disconnect
    /\ UNCHANGED <<terminate, ops, armed, guard, requestVars, chunked, received,
                   begun, peer>>

-----------------------------------------------------------------------------
(* The application thread drops the last reference to the guard:           *)
(* ~defer_guarder cancels the defer timer and writes the response.         *)

UserRelease ==
    /\ guard = "held"
    /\ guard' = "cancelled"
    /\ armed' = armed \ {"defer"}
    /\ UNCHANGED <<flags, terminate, ops, expired, requestVars, chunked, received,
                   begun, peer>>

UserTest ==
    /\ guard = "cancelled"
    /\ guard' = IF socketClose THEN "none" ELSE "tested"
    /\ UNCHANGED <<flags, terminate, ops, armed, expired, requestVars, chunked,
                   received, begun, peer>>

\* Mutant: the guard writes, and stays to write again.
UserStartKeepsGuard ==
    /\ guard = "tested"
    /\ ops' = [ops EXCEPT ![IF websocket THEN "upgrade" ELSE FirstOp(chunked)] = "out"]
    /\ armed' = armed \cup {"read"}
    /\ begun' = begun + 1
    /\ UNCHANGED <<guard, flags, terminate, expired, requestVars, chunked, received, peer>>

UserStart ==
    /\ guard = "tested"
    /\ guard' = "none"
    /\ ops' = [ops EXCEPT ![IF websocket THEN "upgrade" ELSE FirstOp(chunked)] = "out"]
    /\ armed' = armed \cup {"read"}
    /\ begun' = begun + 1
    /\ UNCHANGED <<flags, terminate, expired, requestVars, chunked, received, peer>>

-----------------------------------------------------------------------------
HeaderHandler == HeaderMore \/ HeaderRefused \/ HeaderRoute \/ HeaderBody \/ HeaderDropped
BodyHandler == BodyMore \/ BodyRefused \/ BodyRoute \/ BodyDropped
ChunkHandler == ChunkFirst \/ ChunkNext \/ ChunkLast

Next ==
    \/ \E o \in Ops : TransportOk(o) \/ TransportError(o) \/ Failed(o) \/ ResponseDone(o)
    \/ \E t \in Timers : Expire(t) \/ IoExpiry(t)
    \/ PeerClose
    \/ Drained
    \/ HeaderHandler
    \/ BodyHandler
    \/ ChunkHandler
    \/ Upgraded
    \/ UserRelease \/ UserTest \/ UserStart

Spec == Init /\ [][Next]_vars

\* Handlers that are queued run, timers expire, an operation on a closed
\* socket is aborted, and a thread inside ~defer_guarder goes on.  Nothing
\* makes the peer send, read or close, or a route release its guard.
Fairness ==
    /\ \A o \in Ops : WF_vars(TransportError(o)) /\ WF_vars(Failed(o)) /\ WF_vars(ResponseDone(o))
    /\ \A t \in Timers : WF_vars(Expire(t)) /\ WF_vars(IoExpiry(t))
    /\ WF_vars(Drained)
    /\ WF_vars(HeaderHandler)
    /\ WF_vars(BodyHandler)
    /\ WF_vars(ChunkHandler)
    /\ WF_vars(Upgraded)
    /\ WF_vars(UserTest) /\ WF_vars(UserStart)

FairSpec == Spec /\ Fairness

-----------------------------------------------------------------------------
(* Properties.                                                             *)

\* Every variable has its type.
TypeOK ==
    /\ sock \in {"open", "half", "closed", "moved"}
    /\ socketClose \in BOOLEAN
    /\ terminate \in BOOLEAN
    /\ ops \in [Ops -> OpStates]
    /\ armed \subseteq Timers
    /\ expired \subseteq Timers
    /\ guard \in Guards
    /\ keepAlive \in BOOLEAN
    /\ websocket \in BOOLEAN
    /\ chunked \in BOOLEAN
    /\ received \in 0 .. MaxRequests
    /\ begun \in 0 .. MaxRequests
    /\ peer \in {"open", "closed"}

Busy(o) == ops[o] # "none"

\* The socket, the request and the response belong to one activity at a time:
\* an operation of the io thread, or the thread that holds the guard.  Two
\* operations would share read_waiter_, the buffers and the response.
OneActivity ==
    /\ \A o, p \in Ops : Busy(o) /\ Busy(p) => o = p
    /\ guard # "none" => \A o \in Ops : ~Busy(o)

\* Requests and responses alternate: a request is not read before the response
\* to the one before has begun and no response begins that was not asked for.
Alternation ==
    /\ begun \in {received, received - 1}
    /\ Busy("readHeader") => begun = received
    /\ Busy("readBody") \/ guard # "none" => begun # received

\* A read or write outstanding on an open socket has the read timer running,
\* or its expiry about to be handled: no peer can hold the connection by
\* doing nothing.  A deferred response has the defer timer.
Timed ==
    sock = "open" =>
        /\ (\E o \in Ops : ops[o] = "out") => "read" \in armed \cup expired
        /\ guard = "held" => "defer" \in armed \cup expired

\* Once the websocket has the socket the connection does nothing more to it.
HandedOver ==
    sock = "moved" => socketClose /\ guard = "none" /\ \A o \in Ops : ~Busy(o)

\* A refused request is the last one: the connection is not used again.
RefusalEnds == [][terminate => terminate']_vars

\* No read or write stays outstanding for ever, whatever the peer does.
OperationSettles == \A o \in Ops \ {"drain"} : ops[o] = "out" ~> ops[o] # "out"

\* A response that is never released ends in the disconnection.
DeferSettles == guard = "held" ~> guard # "held" \/ socketClose

\* Nothing refers to the connection any more: it is destroyed, and the socket
\* it still has with it.
Released ==
    /\ \A o \in Ops : ~Busy(o)
    /\ armed = {} /\ expired = {}
    /\ guard = "none"

\* A connection that is closed is in the end destroyed, unless a route holds
\* its guard or the peer is being drained.
ClosedReleased == socketClose ~> Released \/ guard = "held" \/ Busy("drain")

\* README: a read or write that times out closes the socket.  The draining of
\* a refused request is such a read.
DrainSettles == ops["drain"] = "out" ~> ops["drain"] # "out"
=============================================================================
