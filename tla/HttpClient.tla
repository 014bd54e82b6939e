----------------------------- MODULE HttpClient -----------------------------
(***************************************************************************)
(* xfinal's http client (ClientBase and http_client_<HTTP>,                *)
(* src/xfinal/client.hpp): a pool of persistent connections under          *)
(* connections_mutex, a session per request that goes through a chain of   *)
(* asynchronous operations, one timer per connection whose expiry cancels  *)
(* the socket's operation, a retry when a kept connection turns out to be  *)
(* dead, and a ScopeRunner that lets the destructor wait for the handlers  *)
(* that are running and turns away the later ones.                         *)
(*                                                                         *)
(* The asynchronous interface runs on IoThreads threads of the program;    *)
(* the synchronous one runs the io_service in the calling thread.  The two *)
(* may not be mixed (the comments of the code), so `mode` is chosen once.  *)
(*                                                                         *)
(* A critical section of connections_mutex is one step; continue_lock and  *)
(* stop of ScopeRunner take one step per compare_exchange_weak.  A handler *)
(* that has started its next operation only lets its shared lock go, which *)
(* no other step waits for but the destructor: it is part of that step.    *)
(***************************************************************************)
EXTENDS Integers, FiniteSets

CONSTANTS
    Requests,       \* the requests the application makes
    Connections,    \* bound: the connection objects alive at a time
    TimedConnections, \* those created while a timeout is configured, by mode
    NoConnection,   \* a session that is over has none
    IoThreads,      \* how many threads run the io_service (asynchronous use)
    StopModes,      \* bound: the modes in which the application calls stop()
    App             \* an application thread that destroys the client

Modes == {"async", "sync"}

ASSUME RequestsAssumption == IsFiniteSet(Requests)
ASSUME IoThreadsAssumption == IoThreads \in Nat \ {0}
ASSUME NoConnectionAssumption == NoConnection \notin Connections
ASSUME TimedAssumption == TimedConnections \in [Modes -> SUBSET Connections]
ASSUME StopModesAssumption == StopModes \subseteq Modes
ASSUME AppAssumption == App \notin Requests

VARIABLES
    mode,           \* "async" or "sync": which interface the program uses
    pool,           \* connections
    inUse,          \* the connections with in_use set
    opened,         \* the connections whose socket is open
    retryable,      \* the connections with attempt_reconnect set
    armed,          \* the connections whose timer runs
    expired,        \* the connections with an expiry handler queued
    lost,           \* those whose expiry cancelled nothing: history, see OnExpiry
    call,           \* where the thread that makes a request is
    conn,           \* session->connection
    op,             \* the asynchronous operation of a session
    net,            \* how far it is: "partial" between two of its transfers
    pc,             \* where the handler of that operation is
    expected,       \* its local `expected` in continue_lock
    count,          \* ScopeRunner::count
    sent,           \* how often it was written, until its header is answered
    answered,       \* how often the application's callback was called
    appPc,          \* where the destructor of the client is
    destroyer,      \* who runs it: the application thread, or a callback
    syncCount,      \* concurrent_synchronous_requests
    stopped,        \* the io_service is stopped, run() returns at once
    late,           \* counted in while the io_service is stopped and another
                    \* call is not counted out
    leaked,         \* history: the connections an exception left in use
    broken          \* history: the requests one of whose handlers threw

poolVars == <<pool, inUse, retryable>>
timerVars == <<armed, expired, lost>>
opVars == <<op, net>>
scopeVars == <<expected, count>>
appVars == <<appPc, destroyer>>
syncVars == <<syncCount, stopped, late>>
throwVars == <<leaked, broken>>
vars == <<mode, poolVars, opened, timerVars, call, conn, opVars, pc,
          scopeVars, sent, answered, appVars, syncVars, throwVars>>

\* "body" reads what Content-Length says, or to the end of the stream, or the
\* next piece of a chunked body: the size of a chunk or the rest of its data.
Operations == {"resolve", "connect", "write", "header", "body"}
Composed == {"write", "header", "body"}
NetStates == {"none", "pending", "partial", "done", "aborted"}
HandlerPcs == {"idle", "enter", "inside", "connect", "user", "destroying"}
CallPcs == {"idle", "connect", "count", "enter", "run", "ended", "returned", "threw"}
AppPcs == {"alive", "wait", "gone"}

\* The handlers that hold a shared lock of the ScopeRunner.
InScope(r) == pc[r] \in {"inside", "connect", "user", "destroying"}
Holders == {r \in Requests : InScope(r)}

Idle == pool \ inUse

\* A connection lives while the pool or a session refers to it.  An object no
\* longer referred to is destroyed, its id is free;
\* an expiry of it that is queued keeps it a little longer, to no effect.
Referred(P, C) == P \cup {C[r] : r \in Requests}
Fresh == Connections \ Referred(pool, conn)
NewConnection == CHOOSE c \in Fresh : TRUE
Refer(P, C, used, retry, leak) ==
    /\ pool' = P
    /\ conn' = C
    /\ inUse' = used \cap Referred(P, C)
    /\ expired' = expired \cap Referred(P, C)
    /\ retryable' = retry \cap Referred(P, C)
    /\ opened' = opened \cap Referred(P, C)
    /\ leaked' = leak \cap Referred(P, C)

Init ==
    /\ mode \in Modes
    /\ pool = {} /\ inUse = {} /\ opened = {} /\ retryable = {}
    /\ armed = {} /\ expired = {} /\ lost = {}
    /\ call = [r \in Requests |-> "idle"]
    /\ conn = [r \in Requests |-> NoConnection]
    /\ op = [r \in Requests |-> "none"]
    /\ net = [r \in Requests |-> "none"]
    /\ pc = [r \in Requests |-> "idle"]
    /\ expected = [r \in Requests |-> 0]
    /\ count = 0
    /\ sent = [r \in Requests |-> 0]
    /\ answered = [r \in Requests |-> 0]
    /\ appPc = "alive" /\ destroyer = App
    /\ syncCount = 0
    /\ stopped = FALSE
    /\ late = [r \in Requests |-> FALSE]
    /\ leaked = {} /\ broken = {}

-----------------------------------------------------------------------------
(* The io_service.                                                         *)

Threads == IF mode = "async" THEN IoThreads
           ELSE Cardinality({r \in Requests : call[r] = "run"})
FreeThread == ~stopped /\ Cardinality({r \in Requests : pc[r] # "idle"}) < Threads

Work ==
    armed # {} \/ expired # {} \/ \E r \in Requests : op[r] # "none" \/ pc[r] # "idle"

-----------------------------------------------------------------------------
(* Operations and timers.                                                  *)

\* set_timeout and the start of operation o of r, which the handler of the
\* last operation does last: it leaves the scope.  set_timeout replaces the
\* timer; an expiry of the old one that is queued stays queued.
StartOp(r, o) ==
    /\ op' = [op EXCEPT ![r] = o]
    /\ net' = [net EXCEPT ![r] = "pending"]
    /\ armed' = armed \cup ({conn[r]} \cap TimedConnections[mode])
    /\ opened' = IF o = "connect" THEN opened \cup {conn[r]} ELSE opened
    /\ sent' = [sent EXCEPT ![r] = IF o = "write" THEN @ + 1
                                      ELSE IF o = "body" THEN 0 ELSE @]

\* http_client_<HTTP>::connect: an open socket is written to at once.
Connect(r) == StartOp(r, IF conn[r] \in opened THEN "write" ELSE "resolve")

\* lowest_layer().cancel() of the sockets of S: the operations outstanding on
\* them end with operation_aborted.  The resolver is no socket, and of a
\* composed operation whose next transfer is yet to be started nothing is
\* outstanding.
Aborts(r, S) == conn[r] \in S /\ net[r] = "pending" /\ op[r] # "resolve"
CancelSockets(S) ==
    net' = [r \in Requests |-> IF Aborts(r, S) THEN "aborted" ELSE net[r]]

\* The network or the resolver ends an operation of r: its handler is queued
\* and looks at the outcome when it runs.
Complete(r) ==
    /\ net[r] = "pending"
    /\ net' = [net EXCEPT ![r] = "done"]
    /\ UNCHANGED <<mode, poolVars, opened, timerVars, call, conn, op, pc,
                   scopeVars, sent, answered, appVars, syncVars, throwVars>>

\* A part of what r writes or reads is transferred: asio's intermediate
\* handler is queued.
Transfer(r) ==
    /\ net[r] = "pending"
    /\ op[r] \in Composed
    /\ net' = [net EXCEPT ![r] = "partial"]
    /\ UNCHANGED <<mode, poolVars, opened, timerVars, call, conn, op, pc,
                   scopeVars, sent, answered, appVars, syncVars, throwVars>>

\* asio's intermediate handler runs and starts the next transfer.
Continue(r) ==
    /\ net[r] = "partial"
    /\ FreeThread
    /\ net' = [net EXCEPT ![r] = "pending"]
    /\ UNCHANGED <<mode, poolVars, opened, timerVars, call, conn, op, pc,
                   scopeVars, sent, answered, appVars, syncVars, throwVars>>

\* The timer of connection c expires.  (Bound: one queued expiry at a time.)
Expire(c) ==
    /\ c \in armed
    /\ c \notin expired
    /\ armed' = armed \ {c}
    /\ expired' = expired \cup {c}
    /\ UNCHANGED <<mode, poolVars, opened, lost, call, conn, opVars, pc,
                   scopeVars, sent, answered, appVars, syncVars, throwVars>>

\* Mutant: the expiry handler cancels nothing.
OnExpiryIgnored(c) ==
    /\ c \in expired
    /\ FreeThread
    /\ expired' = expired \ {c}
    /\ UNCHANGED <<mode, poolVars, opened, armed, lost, call, conn, opVars, pc,
                   scopeVars, sent, answered, appVars, syncVars, throwVars>>

\* The expiry handler cancels whatever the socket is doing now: by then it may
\* be another operation, or asio may be about to continue a composed one, and
\* nothing is cancelled.
CancelMisses(c) ==
    c \notin armed /\ \E r \in Requests : conn[r] = c /\ net[r] = "partial"

OnExpiry(c) ==
    /\ c \in expired
    /\ FreeThread
    /\ expired' = expired \ {c}
    /\ CancelSockets({c})
    /\ lost' = IF CancelMisses(c) THEN lost \cup {c} ELSE lost
    /\ UNCHANGED <<mode, poolVars, opened, armed, call, conn, op, pc,
                   scopeVars, sent, answered, appVars, syncVars, throwVars>>

-----------------------------------------------------------------------------
(* A thread makes request r.                                               *)

\* get_connection: an unused connection of the pool, or a new one.
GetConnection(r) ==
    /\ call[r] = "idle"
    /\ appPc = "alive"
    /\ Idle = {} => Fresh # {}
    /\ \E c \in IF Idle = {} THEN {NewConnection} ELSE Idle :
         /\ pool' = pool \cup {c}
         /\ inUse' = inUse \cup {c}
         /\ retryable' = retryable \cup {c}
         /\ conn' = [conn EXCEPT ![r] = c]
    /\ call' = [call EXCEPT ![r] = "connect"]
    /\ UNCHANGED <<mode, opened, timerVars, opVars, pc, scopeVars, sent, answered,
                   appVars, syncVars, throwVars>>

\* connect(session) at the end of request().
Begin(r) ==
    /\ call[r] = "connect"
    /\ Connect(r)
    /\ call' = [call EXCEPT ![r] = IF mode = "sync" THEN "count" ELSE "returned"]
    /\ UNCHANGED <<mode, poolVars, expired, lost, conn, pc, scopeVars, answered,
                   appVars, syncVars, throwVars>>

-----------------------------------------------------------------------------
(* The completion handler of r's operation.                                *)

\* It starts with cancel_timeout and the load of `expected`.
Dispatch(r) ==
    /\ net[r] \in {"done", "aborted"}
    /\ pc[r] = "idle"
    /\ FreeThread
    /\ armed' = armed \ {conn[r]}
    /\ lost' = lost \ {conn[r]}
    /\ expected' = [expected EXCEPT ![r] = count]
    /\ pc' = [pc EXCEPT ![r] = "enter"]
    /\ UNCHANGED <<mode, poolVars, opened, expired, call, conn, opVars,
                   count, sent, answered, appVars, syncVars, throwVars>>

\* Mutant: the incremented value is stored whatever the counter is by then.
EnterScopeStores(r) ==
    /\ pc[r] = "enter"
    /\ expected[r] >= 0
    /\ count' = expected[r] + 1
    /\ expected' = [expected EXCEPT ![r] = 0]
    /\ pc' = [pc EXCEPT ![r] = "inside"]
    /\ UNCHANGED <<mode, poolVars, opened, timerVars, call, conn, opVars,
                   sent, answered, appVars, syncVars, throwVars>>

\* continue_lock: the compare_exchange_weak succeeds.
EnterScope(r) ==
    /\ pc[r] = "enter"
    /\ expected[r] >= 0
    /\ expected[r] = count
    /\ count' = count + 1
    /\ expected' = [expected EXCEPT ![r] = 0]
    /\ pc' = [pc EXCEPT ![r] = "inside"]
    /\ UNCHANGED <<mode, poolVars, opened, timerVars, call, conn, opVars,
                   sent, answered, appVars, syncVars, throwVars>>

\* continue_lock: it fails, and `expected` is loaded again.
Reload(r) ==
    /\ pc[r] = "enter"
    /\ expected[r] >= 0
    /\ expected[r] # count
    /\ expected' = [expected EXCEPT ![r] = count]
    /\ UNCHANGED <<mode, poolVars, opened, timerVars, call, conn, opVars, pc,
                   count, sent, answered, appVars, syncVars, throwVars>>

\* The session of r is over: the handler was the last to refer to it.
SessionOver(r) ==
    /\ op' = [op EXCEPT ![r] = "none"]
    /\ net' = [net EXCEPT ![r] = "none"]
    /\ sent' = [sent EXCEPT ![r] = 0]
Without(r) == [conn EXCEPT ![r] = NoConnection]

\* Mutant: a handler that is turned away lets go of a lock it does not hold.
TurnedAwayReleases(r) ==
    /\ pc[r] = "enter"
    /\ expected[r] < 0
    /\ expected' = [expected EXCEPT ![r] = 0]
    /\ count' = count - 1
    /\ pc' = [pc EXCEPT ![r] = "idle"]
    /\ SessionOver(r)
    /\ Refer(pool, Without(r), inUse, retryable, leaked)
    /\ UNCHANGED <<mode, armed, lost, call, answered, appVars, syncVars, broken>>

\* continue_lock returned nullptr: the handler returns and nothing is called.
TurnedAway(r) ==
    /\ pc[r] = "enter"
    /\ expected[r] < 0
    /\ expected' = [expected EXCEPT ![r] = 0]
    /\ pc' = [pc EXCEPT ![r] = "idle"]
    /\ SessionOver(r)
    /\ Refer(pool, Without(r), inUse, retryable, leaked)
    /\ UNCHANGED <<mode, armed, lost, call, count, answered, appVars, syncVars, broken>>

\* What may follow an operation that succeeded: the next operation, by what
\* the response's header and chunk sizes say and what has already arrived, or
\* the end of the response.
Following(r) ==
    CASE op[r] = "resolve" -> {"connect"}
      [] op[r] = "connect" -> {"write"}
      [] op[r] = "write" -> {"header"}
      [] OTHER -> {"body", "end"}

\* Mutant: the shared lock is not let go.
AdvanceKeepsLock(r) ==
    /\ pc[r] = "inside"
    /\ net[r] = "done"
    /\ \E o \in Following(r) \ {"end"} : StartOp(r, o)
    /\ pc' = [pc EXCEPT ![r] = "idle"]
    /\ UNCHANGED <<mode, poolVars, expired, lost, call, conn, scopeVars,
                   answered, appVars, syncVars, throwVars>>

\* The operation succeeded and the next one of r is started.
Advance(r) ==
    /\ pc[r] = "inside"
    /\ net[r] = "done"
    /\ \E o \in Following(r) \ {"end"} : StartOp(r, o)
    /\ retryable' = IF op[r] = "header" THEN retryable \cup {conn[r]} ELSE retryable
    /\ count' = count - 1
    /\ pc' = [pc EXCEPT ![r] = "idle"]
    /\ UNCHANGED <<mode, pool, inUse, expired, lost, call, conn, expected,
                   answered, appVars, syncVars, throwVars>>

\* Mutant: the new connection may be tried again, like a kept one.
RetryAgain(r) ==
    /\ pc[r] = "inside"
    /\ op[r] = "header"
    /\ net[r] = "done"
    /\ conn[r] \in retryable \cap pool
    /\ Fresh # {}
    /\ LET c == NewConnection IN
       Refer((pool \ {conn[r]}) \cup {c}, [conn EXCEPT ![r] = c], inUse \cup {c},
             retryable \cup {c}, leaked)
    /\ pc' = [pc EXCEPT ![r] = "connect"]
    /\ UNCHANGED <<mode, armed, lost, call, opVars, scopeVars, sent, answered,
                   appVars, syncVars, broken>>

\* read: the header could not be read.  The kept connection may have been
\* closed by the server: the request is made again on a new one, unless stop()
\* removed the old one from the pool.
Retry(r) ==
    /\ pc[r] = "inside"
    /\ op[r] = "header"
    /\ net[r] = "done"
    /\ conn[r] \in retryable \cap pool
    /\ Fresh # {}
    /\ LET c == NewConnection IN
       Refer((pool \ {conn[r]}) \cup {c}, [conn EXCEPT ![r] = c], inUse \cup {c},
             retryable, leaked)
    /\ pc' = [pc EXCEPT ![r] = "connect"]
    /\ UNCHANGED <<mode, armed, lost, call, opVars, scopeVars, sent,
                   answered, appVars, syncVars, broken>>

\* Its connect(session), after the mutex is released.
Reconnect(r) ==
    /\ pc[r] = "connect"
    /\ Connect(r)
    /\ count' = count - 1
    /\ pc' = [pc EXCEPT ![r] = "idle"]
    /\ UNCHANGED <<mode, poolVars, expired, lost, call, conn, expected, answered,
                   appVars, syncVars, throwVars>>

\* Mutant: the unused connections are not counted.
EndSessionKeepsAll(r, failed) ==
    /\ pc[r] = "inside"
    /\ Refer(pool \ IF failed THEN {conn[r]} ELSE {}, Without(r), inUse \ {conn[r]},
             retryable, leaked)
    /\ SessionOver(r)
    /\ pc' = [pc EXCEPT ![r] = "user"]
    /\ UNCHANGED <<mode, armed, lost, call, scopeVars, answered, appVars, syncVars, broken>>

\* session->callback, under connections_mutex: the connection is unused again
\* and, of the unused ones, the first the loop meets is kept; after an error
\* its own connection is not.
EndSession(r, failed) ==
    /\ pc[r] = "inside"
    /\ LET used == inUse \ {conn[r]}
           unused == (pool \ used) \ IF failed THEN {conn[r]} ELSE {}
           retry == IF op[r] = "header" /\ ~failed THEN retryable \cup {conn[r]}
                    ELSE retryable
       IN \E kept \in IF unused = {} THEN {{}} ELSE {{c} : c \in unused} :
              Refer((pool \cap used) \cup kept, Without(r), used, retry, leaked)
    /\ SessionOver(r)
    /\ pc' = [pc EXCEPT ![r] = "user"]
    /\ UNCHANGED <<mode, armed, lost, call, scopeVars, answered, appVars, syncVars, broken>>

\* The response is whole; a read to the end of the stream takes eof for it.
Succeed(r) ==
    /\ net[r] = "done"
    /\ "end" \in Following(r)
    /\ EndSession(r, FALSE)

\* The operation failed, or what it read is too long, or a head or the size of
\* a chunk that cannot be parsed.
Fail(r) == EndSession(r, TRUE)

\* Where run() ends by the exception of a handler.  A synchronous request()
\* ends with it, whichever request's handler its thread was running, and does
\* not count itself out; asio stops the io_service if no work is left, of which
\* the wait of a timer that was cancelled may still be some.  A thread of the
\* program calls run() again.
RunThrows ==
    IF mode = "async" THEN UNCHANGED <<call, stopped>>
    ELSE /\ \E q \in Requests : call[q] = "run" /\ call' = [call EXCEPT ![q] = "threw"]
         /\ \/ stopped' = (stopped \/ ~Work')
            \/ TimedConnections[mode] # {} /\ stopped' = stopped

\* The handler throws: stoull finds no number in Content-Length, or there is no
\* memory for a chunk of the size announced.  Nothing in the client catches it:
\* the lock of the scope is let go and the session destroyed, the callback is
\* not called, and the pool keeps the connection as one in use.
Throw(r) ==
    /\ pc[r] = "inside"
    /\ net[r] = "done"
    /\ op[r] \in {"header", "body"}
    /\ Refer(pool, Without(r), inUse,
             IF op[r] = "header" THEN retryable \cup {conn[r]} ELSE retryable,
             leaked \cup {conn[r]})
    /\ broken' = broken \cup {r}
    /\ SessionOver(r)
    /\ count' = count - 1
    /\ pc' = [pc EXCEPT ![r] = "idle"]
    /\ UNCHANGED <<mode, armed, lost, expected, answered, appVars, syncCount, late>>
    /\ RunThrows

\* The application's callback runs and the handler returns; the callback may
\* destroy the client, and then the handler is still in the scope.
RunCallback(r) ==
    /\ pc[r] = "user"
    /\ answered' = [answered EXCEPT ![r] = @ + 1]
    /\ \/ /\ pc' = [pc EXCEPT ![r] = "idle"]
          /\ count' = count - 1
          /\ UNCHANGED appVars
       \/ /\ mode = "async" /\ appPc = "alive"
          /\ \A q \in Requests : call[q] # "connect"
          /\ pc' = [pc EXCEPT ![r] = "destroying"]
          /\ appPc' = "wait" /\ destroyer' = r
          /\ UNCHANGED count
    /\ UNCHANGED <<mode, poolVars, opened, timerVars, call, conn, opVars,
                   expected, sent, syncVars, throwVars>>

-----------------------------------------------------------------------------
(* stop() and the destructor.                                              *)

\* stop(): under the mutex every socket of the pool is cancelled and every
\* connection is dropped from the pool.
StopPool ==
    /\ CancelSockets(pool)
    /\ Refer({}, conn, inUse, retryable, leaked)

Stop ==
    /\ appPc = "alive"
    /\ mode \in StopModes
    /\ pool # {}
    /\ StopPool
    /\ UNCHANGED <<mode, armed, lost, call, op, pc, scopeVars, sent,
                   answered, appVars, syncVars, broken>>

\* ~ClientBase: no thread is inside a request() of the client.
Destroy ==
    /\ appPc = "alive"
    /\ \A r \in Requests : IF mode = "sync" THEN call[r] \in {"idle", "returned", "threw"}
                           ELSE call[r] # "connect"
    /\ appPc' = "wait" /\ destroyer' = App
    /\ UNCHANGED <<mode, poolVars, opened, timerVars, call, conn, opVars, pc,
                   scopeVars, sent, answered, syncVars, throwVars>>

\* ScopeRunner::stop: compare_exchange_weak(0, -1) succeeds; while a handler is
\* in the scope it is tried again and again.  Then stop(): no handler that
\* could tell is let in between the two.
CloseScope ==
    /\ appPc = "wait"
    /\ count = 0
    /\ count' = -1
    /\ StopPool
    /\ appPc' = "gone"
    /\ UNCHANGED <<mode, armed, lost, call, op, pc, expected, sent, answered,
                   destroyer, syncVars, broken>>

-----------------------------------------------------------------------------
(* A synchronous call: it counts itself in, runs the io_service until that *)
(* is out of work, and counts itself out; the last one resets it.          *)

SyncStep(r, from, to) ==
    /\ call[r] = from
    /\ call' = [call EXCEPT ![r] = to]
    /\ UNCHANGED <<mode, poolVars, opened, timerVars, conn, opVars, pc,
                   scopeVars, sent, answered, appVars, throwVars>>

\* The calls that are counted in and not out; one that threw stays.
Counted == {q \in Requests : call[q] \in {"enter", "run", "ended", "threw"}}

CountIn(r) ==
    /\ SyncStep(r, "count", "enter")
    /\ syncCount' = syncCount + 1
    /\ late' = [late EXCEPT ![r] = stopped /\ Counted # {}]
    /\ UNCHANGED stopped

\* run() is entered.
EnterRun(r) ==
    /\ ~stopped
    /\ SyncStep(r, "enter", "run")
    /\ UNCHANGED syncVars

\* A stopped io_service returns from run() at once.
RunRefused(r) ==
    /\ stopped
    /\ SyncStep(r, "enter", "ended")
    /\ UNCHANGED syncVars

\* run() returns: the io_service is out of work, which stops it, or stopped.
LeaveRun(r) ==
    /\ stopped \/ ~Work
    /\ SyncStep(r, "run", "ended")
    /\ stopped' = TRUE
    /\ UNCHANGED <<syncCount, late>>

\* Mutant: the io_service is not reset.
CountOutOnly(r) ==
    /\ SyncStep(r, "ended", "returned")
    /\ syncCount' = syncCount - 1
    /\ UNCHANGED <<stopped, late>>

CountOut(r) ==
    /\ SyncStep(r, "ended", "returned")
    /\ syncCount' = syncCount - 1
    /\ stopped' = (stopped /\ syncCount' # 0)
    /\ UNCHANGED late

-----------------------------------------------------------------------------
HandlerStep(r) ==
    \/ Dispatch(r) \/ EnterScope(r) \/ Reload(r) \/ TurnedAway(r)
    \/ Advance(r) \/ Succeed(r) \/ Retry(r) \/ Reconnect(r) \/ Fail(r) \/ Throw(r)
    \/ RunCallback(r)

SyncCall(r) == CountIn(r) \/ EnterRun(r) \/ RunRefused(r) \/ LeaveRun(r) \/ CountOut(r)

Next ==
    \/ \E r \in Requests :
         \/ GetConnection(r) \/ Begin(r) \/ HandlerStep(r) \/ SyncCall(r)
         \/ Complete(r) \/ Transfer(r) \/ Continue(r)
    \/ \E c \in armed : Expire(c)
    \/ \E c \in expired : OnExpiry(c)
    \/ Stop \/ Destroy \/ CloseScope

Spec == Init /\ [][Next]_vars

\* The threads of the io_service and of the callers go on, those of the program
\* also after an exception; timers expire; the resolver answers and a connection
\* attempt ends, with or without success.  Nothing is assumed of the server once
\* it is connected but that a chunked body has a last chunk.  A thread that spins
\* on a compare-and-swap is scheduled at a moment when it succeeds, if there are
\* always such moments.
Fairness ==
    /\ \A r \in Requests :
         /\ WF_vars(HandlerStep(r))
         /\ WF_vars(Begin(r) \/ SyncCall(r))
         /\ WF_vars(op[r] \notin Composed /\ Complete(r))
         /\ SF_vars(op[r] = "body" /\ (Succeed(r) \/ Fail(r)))
    /\ \A c \in Connections : WF_vars(Expire(c)) /\ WF_vars(OnExpiry(c))
    /\ SF_vars(CloseScope)

FairSpec == Spec /\ Fairness

-----------------------------------------------------------------------------
(* Properties.                                                             *)

\* The values of the variables; nothing is referred to that does not exist.
TypeOK ==
    /\ mode \in Modes
    /\ pool \subseteq Connections
    /\ inUse \subseteq Connections
    /\ retryable \subseteq Connections
    /\ opened \subseteq Connections
    /\ armed \subseteq Connections
    /\ expired \subseteq Connections
    /\ lost \subseteq Connections
    /\ call \in [Requests -> CallPcs]
    /\ conn \in [Requests -> Connections \cup {NoConnection}]
    /\ op \in [Requests -> Operations \cup {"none"}]
    /\ net \in [Requests -> NetStates]
    /\ pc \in [Requests -> HandlerPcs]
    /\ expected \in [Requests -> Nat \cup {-1}]
    /\ count \in Nat \cup {-1}
    /\ sent \in [Requests -> Nat]
    /\ answered \in [Requests -> Nat]
    /\ appPc \in AppPcs
    /\ destroyer \in Requests \cup {App}
    /\ syncCount \in Int
    /\ stopped \in BOOLEAN
    /\ late \in [Requests -> BOOLEAN]
    /\ leaked \subseteq Connections /\ broken \subseteq Requests

\* Of the unused connections at most one is kept; two sessions never share a
\* connection, an unused one has no session, and, while the client lives, every
\* used one of the pool has: none leaks, on whatever way its session ended,
\* except the one of a session whose handler threw.
PoolSound ==
    /\ \A c, d \in Idle : c = d
    /\ \A q, r \in Requests : conn[q] = conn[r] /\ conn[q] # NoConnection => q = r
    /\ \A r \in Requests : conn[r] \notin Idle
    /\ count >= 0 =>
         \A c \in pool \cap inUse : c \in leaked \/ \E r \in Requests : conn[r] = c

\* The callback of a request is called at most once (never when its handler
\* threw) and nothing is under way for it afterwards; a request that fails is
\* written again at most once before a header came, also when the new
\* connection fails as the old one did.
AnsweredOnce ==
    \A r \in Requests :
        /\ answered[r] <= 1 /\ sent[r] <= 2
        /\ answered[r] = 1 \/ r \in broken => conn[r] = NoConnection /\ op[r] = "none"
        /\ r \in broken => answered[r] = 0

\* A synchronous call returns with the outcome of its own request, unless a
\* handler of it threw in another thread's run(), or it was counted in when the
\* io_service had stopped and another call was not counted out yet, which one
\* that threw never is: then nobody resets it, run() is refused and an empty
\* response is returned.
SyncAnswered ==
    \A r \in Requests :
        mode = "sync" /\ call[r] = "returned" => answered[r] = 1 \/ late[r] \/ r \in broken

\* A request with a timeout ends, whatever the server does: as each is made
\* once, again and again none is under way.  Excepted are one whose expiry came
\* between two transfers of an operation and cancelled nothing, one whose
\* caller was counted in beside others too late to run it, or was thrown out of
\* run(), and those the destructor drops.
RequestSettles ==
    []<>(\A r \in Requests :
            \/ op[r] = "none" \/ late[r] \/ call[r] = "threw" \/ appPc # "alive"
            \/ conn[r] \notin TimedConnections[mode] \/ conn[r] \in lost)

\* The destructor returns, however many requests are under way, unless it is
\* called from a request's callback, which it would have to wait for.
DestroyReturns == (appPc = "wait" /\ destroyer = App) ~> (appPc = "gone")

\* ScopeRunner keeps its promise: the destructor gets past its stop() when no
\* handler is in the scope, and no handler enters afterwards.
Scope == INSTANCE ScopeLock WITH
    Handlers <- Requests, holders <- Holders, closed <- count < 0
ScopeSpec == Scope!Spec
=============================================================================
