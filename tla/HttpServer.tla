----------------------------- MODULE HttpServer -----------------------------
(***************************************************************************)
(* The server (src/xfinal/http_server.hpp): the acceptor and its thread,   *)
(* the pool of io threads (ioservice_pool.hpp), run() and stop(), and how  *)
(* the handshakes of the connections (connection.hpp, websocket.hpp), each *)
(* on its own io thread, use the key that class websockets keeps for all   *)
(* of them.  (The version is kept beside it and goes the same way.)        *)
(*                                                                         *)
(* Thread i of the pool runs the i-th io_service; the last one runs the    *)
(* acceptor's.  A connection has one handshake and no other requests,      *)
(* which touch nothing that is shared here.                                *)
(***************************************************************************)
EXTENDS Integers

CONSTANTS
    Connections,
    PoolSize,       \* the size of the pool
    Nobody,         \* no connection
    Torn            \* what a data race leaves of a string_view

ASSUME PoolSizeAssumption == PoolSize \in Nat \ {0}
ASSUME NobodyAssumption == Nobody \notin Connections
ASSUME TornAssumption == Torn \notin Connections /\ Torn # Nobody

VARIABLES
    runPc,          \* the thread that calls serve() and run()
    stopCount,      \* how many io_services stop() has stopped; -1 before it
    thread,         \* the threads that run() starts
    busy,           \* whose handler a thread is in
    ioIndex,        \* io_index_
    io,             \* the thread of a connection
    pc,             \* how far a connection is
    late,           \* its request has a body that came after the header
    secKey,         \* sec_webSocket_key_: whose it is
    answer          \* whose key a handshake was answered with

serverVars == <<runPc, stopCount, thread>>
poolVars == <<ioIndex, io>>
shakeVars == <<secKey, answer>>
vars == <<serverVars, busy, poolVars, pc, late, shakeVars>>

Acceptor == PoolSize + 1
Pool == 1..PoolSize
Threads == 1..Acceptor

Owners == Connections \cup {Nobody, Torn}
RunPcs == {"config", "served", "running", "returned"}
HandlerPcs == {"store", "routing", "update"}
Pcs == {"none", "pending", "reading", "body", "answered", "closed"} \cup HandlerPcs

Init ==
    /\ runPc = "config"
    /\ stopCount = -1
    /\ thread = [i \in Threads |-> "none"]
    /\ busy = [i \in Threads |-> Nobody]
    /\ ioIndex = 0
    /\ io = [c \in Connections |-> 0]
    /\ pc = [c \in Connections |-> "none"]
    /\ late = [c \in Connections |-> FALSE]
    /\ secKey = Nobody
    /\ answer = [c \in Connections |-> Nobody]

-----------------------------------------------------------------------------
(* The acceptor.                                                           *)

\* Mutant: an index too far.
GetIoPast(index) == IF index > PoolSize THEN 1 ELSE index + 1

\* get_io: the index of the io_service given out is one less than the new one.
GetIo(index) == IF index >= PoolSize THEN 1 ELSE index + 1

\* start_acceptor: a connection is made, on the next io_service, and waits to
\* be accepted.  Which of those that are not there is made makes no difference.
\* Bound: there are no more than Connections.
New == {c \in Connections : pc[c] = "none"}
StartAcceptor(index) ==
    IF New = {} THEN UNCHANGED <<poolVars, pc>>
    ELSE LET c == CHOOSE n \in New : TRUE IN
         /\ ioIndex' = GetIo(index)
         /\ io' = [io EXCEPT ![c] = GetIo(index)]
         /\ pc' = [pc EXCEPT ![c] = "pending"]

\* serve(): the resolver takes an io_service, the first connection another.
Serve ==
    /\ runPc = "config"
    /\ runPc' = "served"
    /\ StartAcceptor(GetIo(ioIndex))
    /\ UNCHANGED <<stopCount, thread, busy, late, shakeVars>>

\* A thread may begin a handler while its io_service is not stopped.
Stopped(i) == i <= stopCount
Begins(i, c) ==
    /\ thread[i] = "running"
    /\ ~Stopped(i)
    /\ busy[i] = Nobody
    /\ busy' = [busy EXCEPT ![i] = c]
Ends(i) == busy' = [busy EXCEPT ![i] = Nobody]

\* The handler of async_accept: the connection begins to read, or is dropped.
Accepted(c, to) ==
    /\ pc[c] = "pending"
    /\ Begins(Acceptor, c)
    /\ pc' = [pc EXCEPT ![c] = to]
    /\ UNCHANGED <<serverVars, poolVars, late, shakeVars>>

\* Its last call.
AcceptNext ==
    /\ busy[Acceptor] # Nobody
    /\ Ends(Acceptor)
    /\ StartAcceptor(ioIndex)
    /\ UNCHANGED <<serverVars, late, shakeVars>>

-----------------------------------------------------------------------------
(* A handshake on the io thread of its connection.                         *)

Goes(c, from, to) ==
    /\ pc[c] = from
    /\ pc' = [pc EXCEPT ![c] = to]

\* The header has come, and is_websocket finds a handshake.  The body, if it
\* has one, came with it or did not.
Header(c) ==
    /\ Goes(c, "reading", "store")
    /\ Begins(io[c], c)
    /\ \E l \in BOOLEAN : late' = [late EXCEPT ![c] = l]
    /\ UNCHANGED <<serverVars, poolVars, shakeVars>>

\* The peer goes away, or a read times out.
Lost(c) ==
    /\ pc[c] \in {"reading", "body"}
    /\ pc' = [pc EXCEPT ![c] = "closed"]
    /\ thread[io[c]] = "running" /\ ~Stopped(io[c]) /\ busy[io[c]] = Nobody
    /\ UNCHANGED <<serverVars, busy, poolVars, late, shakeVars>>

\* Another thread is storing a key.
Races(c) == \E d \in Connections \ {c} : pc[d] = "store"
Raced(c) == IF Races(c) THEN {Torn} ELSE {}

\* is_websocket stores the key, a string_view of two words, without a lock.
IsWebsocket(c) ==
    /\ Goes(c, "store", "routing")
    /\ secKey' \in {c} \cup Raced(c)
    /\ UNCHANGED <<serverVars, busy, poolVars, late, answer>>

\* No route, an interceptor that ends the request, or a body of no known type.
Refused(c) ==
    /\ Goes(c, "routing", "closed")
    /\ Ends(io[c])
    /\ UNCHANGED <<serverVars, poolVars, late, shakeVars>>

\* handle_read: the body is still to be read.
AwaitBody(c) ==
    /\ late[c]
    /\ Goes(c, "routing", "body")
    /\ Ends(io[c])
    /\ UNCHANGED <<serverVars, poolVars, late, shakeVars>>

\* Mutant: the route is posted to the io_service.
RoutePosted(c) ==
    /\ ~late[c]
    /\ Goes(c, "routing", "body")
    /\ Ends(io[c])
    /\ UNCHANGED <<serverVars, poolVars, late, shakeVars>>

\* post_router: the route of a websocket calls update_websocket.
Route(c) ==
    /\ ~late[c]
    /\ Goes(c, "routing", "update")
    /\ UNCHANGED <<serverVars, busy, poolVars, late, shakeVars>>

RouteAfterBody(c) ==
    /\ Goes(c, "body", "update")
    /\ Begins(io[c], c)
    /\ UNCHANGED <<serverVars, poolVars, late, shakeVars>>

\* update_to_websocket answers with the key that it finds, and the handler
\* returns, which releases the guard.
UpdateToWebsocket(c) ==
    /\ Goes(c, "update", "answered")
    /\ \E v \in {secKey} \cup Raced(c) : answer' = [answer EXCEPT ![c] = v]
    /\ Ends(io[c])
    /\ UNCHANGED <<serverVars, poolVars, late, secKey>>

-----------------------------------------------------------------------------
(* run() and stop().                                                       *)

\* ioservice_pool::run starts the threads and waits for them.  Bound: it does
\* not begin in the middle of stop(), with which it shares its work.
Run ==
    /\ runPc = "served"
    /\ stopCount \in {-1, Acceptor}
    /\ runPc' = "running"
    /\ thread' = [i \in Threads |-> "running"]
    /\ UNCHANGED <<stopCount, busy, poolVars, pc, late, shakeVars>>

\* What waits in an io_service and keeps its thread: once stop() has begun
\* there is no other work.
Outstanding(i) ==
    IF i = Acceptor THEN \E c \in Connections : pc[c] = "pending"
    ELSE \E c \in Connections : io[c] = i /\ pc[c] \in {"reading", "body", "answered"}

\* io_service::run returns.
ThreadEnds(i) ==
    /\ thread[i] = "running"
    /\ busy[i] = Nobody
    /\ Stopped(i) \/ (stopCount # -1 /\ ~Outstanding(i))
    /\ thread' = [thread EXCEPT ![i] = "ended"]
    /\ UNCHANGED <<runPc, stopCount, busy, poolVars, pc, late, shakeVars>>

\* Mutant: run() joins the acceptor's thread only.
RunEndsEarly ==
    /\ runPc = "running"
    /\ thread[Acceptor] = "ended"
    /\ runPc' = "returned"
    /\ UNCHANGED <<stopCount, thread, busy, poolVars, pc, late, shakeVars>>

\* The joins.
RunEnds ==
    /\ runPc = "running"
    /\ \A i \in Threads : thread[i] = "ended"
    /\ runPc' = "returned"
    /\ UNCHANGED <<stopCount, thread, busy, poolVars, pc, late, shakeVars>>

\* stop() lets go of the work that keeps the threads ...
Stop ==
    /\ stopCount = -1
    /\ stopCount' = 0
    /\ UNCHANGED <<runPc, thread, busy, poolVars, pc, late, shakeVars>>

\* Mutant: the acceptor's io_service is not stopped.
StopPoolOnly ==
    /\ stopCount \in 0..(PoolSize - 1)
    /\ stopCount' = stopCount + 1
    /\ UNCHANGED <<runPc, thread, busy, poolVars, pc, late, shakeVars>>

\* ... and stops one io_service after the other, the acceptor's at last.
StopNext ==
    /\ stopCount \in 0..PoolSize
    /\ stopCount' = stopCount + 1
    /\ UNCHANGED <<runPc, thread, busy, poolVars, pc, late, shakeVars>>

-----------------------------------------------------------------------------
\* A handler goes on.
Handler(c) ==
    \/ IsWebsocket(c) \/ UpdateToWebsocket(c)
    \/ Refused(c) \/ AwaitBody(c) \/ Route(c)

Next ==
    \/ \E c \in Connections :
         \/ Accepted(c, "reading") \/ Accepted(c, "closed")
         \/ Header(c) \/ Lost(c) \/ RouteAfterBody(c) \/ Handler(c)
    \/ Serve \/ AcceptNext \/ Run \/ RunEnds \/ Stop \/ StopNext
    \/ \E i \in Threads : ThreadEnds(i)

\* Threads go on with what they have begun.  Nobody need connect, send or stop.
Fairness ==
    /\ \A c \in Connections : WF_vars(Handler(c))
    /\ \A i \in Threads : WF_vars(ThreadEnds(i))
    /\ WF_vars(AcceptNext) /\ WF_vars(StopNext) /\ WF_vars(RunEnds)

Spec == Init /\ [][Next]_vars
FairSpec == Spec /\ Fairness

-----------------------------------------------------------------------------
(* Properties.                                                             *)

\* Every variable has its type; a thread is given out that there is.
TypeOK ==
    /\ runPc \in RunPcs
    /\ stopCount \in -1..Acceptor
    /\ thread \in [Threads -> {"none", "running", "ended"}]
    /\ busy \in [Threads -> Connections \cup {Nobody}]
    /\ ioIndex \in 0..PoolSize
    /\ io \in [Connections -> 0..PoolSize]
    /\ pc \in [Connections -> Pcs]
    /\ late \in [Connections -> BOOLEAN]
    /\ secKey \in Owners
    /\ answer \in [Connections -> Owners]

\* A handshake on another thread than that of c may have left v.
Foreign(c, v) == \E d \in Connections : io[d] \in Pool /\ io[d] # io[c] /\ v \in {d, Torn}

\* class websockets keeps one key for the handshakes of all io threads
\* (websocket.hpp:748, 755).  A handshake whose request came at once is
\* answered with its own, unless one on another thread has taken its place: a
\* handshake on the same thread never has, since the handler does not return.
OwnHandshake ==
    \A c \in Connections : pc[c] = "answered" /\ ~late[c] =>
        answer[c] = c \/ Foreign(c, answer[c])

\* When run() has returned no handler runs on any thread: the server, which
\* they refer to, may be destroyed (ioservice_pool::run).
QuietAfterRun ==
    runPc = "returned" =>
        /\ \A i \in Threads : busy[i] = Nobody
        /\ \A c \in Connections : pc[c] \notin HandlerPcs

\* Once stop() was called, by whatever thread, run() returns, whatever the
\* connections wait for (ioservice_pool::stop).
RunReturns == (runPc = "running" /\ stopCount >= 0) ~> runPc = "returned"
=============================================================================
