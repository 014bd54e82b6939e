---------------------------- MODULE WebsocketHub ----------------------------
(***************************************************************************)
(* The write path of xfinal's websockets (src/xfinal/websocket.hpp).       *)
(*                                                                         *)
(* websocket::write cuts a message into frames and hands the frame queue   *)
(* to the process-wide websocket_hub, whose list is guarded by             *)
(* list_mutex_.  A hub thread (one per http_router) pops a message, looks  *)
(* at two atomics of its socket and either starts the first asynchronous   *)
(* write, puts the message back at the tail, or forgets it.  The following *)
(* frames are started by the completion handlers, on the io thread that    *)
(* runs the socket, without the mutex.  Any thread may close the socket    *)
(* meanwhile, and a timer closes it when a write takes too long.           *)
(*                                                                         *)
(* One step is one access to shared state: the flags socket_is_open_ and   *)
(* is_writing_ are read and written one at a time, as the code does.       *)
(***************************************************************************)
EXTENDS Naturals, Sequences

CONSTANTS
    HubThreads,     \* the hub threads: one per http_router alive
    Sockets,        \* the websockets
    Users,          \* application threads that close websockets
    Messages,       \* the messages the application writes
    NoMessage,      \* "no message": the null shared_ptr of the wake-up entry
    Free,           \* list_mutex_ is not held
    SocketOf,       \* the websocket a message is written to
    FramesOf,       \* the number of frames websocket::write cuts it into
    ReplyOf         \* the message its write callback writes, or NoMessage

ASSUME NoMessageAssumption == NoMessage \notin Messages
ASSUME FreeAssumption == Free \notin HubThreads
ASSUME SocketOfAssumption == SocketOf \in [Messages -> Sockets]
(* websocket::write returns at once for an empty message, so every message *)
(* that reaches the hub has a frame.                                       *)
ASSUME FramesOfAssumption == FramesOf \in [Messages -> Nat \ {0}]
ASSUME ReplyOfAssumption == ReplyOf \in [Messages -> Messages \cup {NoMessage}]

VARIABLES
    listMutex,      \* list_mutex_: its holder, or Free
    list,           \* message_list_
    endThread,      \* end_thread_
    hubPc,          \* where each hub thread is in websocket_hub::send
    hubMsg,         \* its local `one`
    routerPc,       \* where the router owning the hub thread is in its life
    open,           \* socket_is_open_ of each websocket
    writing,        \* is_writing_ of each websocket
    written,        \* the messages the application has called write for
    queue,          \* the frames left in each message's frame queue
    net,            \* the asynchronous write outstanding for a message
    timer,          \* wait_write_timer_ of each websocket is armed
    expired,        \* an expiry handler of that timer is queued to run
    ioPc,           \* the handler the io thread of a websocket is running
    ioMsg,          \* the message that handler is about
    userPc,         \* where each application thread is in websocket::close
    userSock,       \* the websocket it closes
    result          \* what the message's write callback was called with

hubVars == <<listMutex, list, endThread, hubPc, hubMsg, routerPc>>
flagVars == <<open, writing>>
chainVars == <<queue, net>>
timerVars == <<timer, expired>>
ioVars == <<ioPc, ioMsg>>
userVars == <<userPc, userSock>>
vars == <<hubVars, flagVars, written, chainVars, timerVars, ioVars, userVars, result>>

HubPcs == {"wait", "testOpen", "testWriting", "retestOpen", "retestWriting",
           "claim", "frame", "start", "release", "callback", "selfLock", "ended"}
IoPcs == {"idle", "frame", "start", "release", "callback", "testClose",
          "clearOpen", "clearWriting", "failed", "reply"}
UserPcs == {"idle", "clearOpen", "clearWriting"}
RouterPcs == {"running", "waking", "joining"}
NetStates == {"none", "sent", "ok", "error"}
Results == {"none", "true", "false"}

Sock(h) == SocketOf[hubMsg[h]]
Replies == {ReplyOf[m] : m \in Messages} \ {NoMessage}

Init ==
    /\ listMutex = Free
    /\ list = <<>>
    /\ endThread = FALSE
    /\ hubPc = [h \in HubThreads |-> "wait"]
    /\ hubMsg = [h \in HubThreads |-> NoMessage]
    /\ routerPc = [h \in HubThreads |-> "running"]
    /\ open = [s \in Sockets |-> TRUE]
    /\ writing = [s \in Sockets |-> FALSE]
    /\ written = {}
    /\ queue = FramesOf
    /\ net = [m \in Messages |-> "none"]
    /\ timer = [s \in Sockets |-> FALSE]
    /\ expired = [s \in Sockets |-> FALSE]
    /\ ioPc = [s \in Sockets |-> "idle"]
    /\ ioMsg = [s \in Sockets |-> NoMessage]
    /\ userPc = [u \in Users |-> "idle"]
    /\ userSock \in [Users -> Sockets]
    /\ result = [m \in Messages |-> "none"]

-----------------------------------------------------------------------------
(* Producers: any thread writes a message.                                 *)

\* websocket_hub::add, called with the mutex free: append and notify.
Add(m) ==
    /\ listMutex = Free
    /\ list' = Append(list, m)

\* websocket::write from a thread that runs no handler of the hub.
Write(m) ==
    /\ m \notin written \cup Replies
    /\ Add(m)
    /\ written' = written \cup {m}
    /\ UNCHANGED <<listMutex, endThread, hubPc, hubMsg, routerPc, flagVars,
                   chainVars, timerVars, ioVars, userVars, result>>

-----------------------------------------------------------------------------
(* The hub thread h, websocket_hub::send.  It holds list_mutex_ from the   *)
(* wake-up to the end of the iteration.                                    *)

HubStep(h, from, to) ==
    /\ hubPc[h] = from
    /\ hubPc' = [hubPc EXCEPT ![h] = to]

\* The unique_lock goes out of scope at the end of the loop body.
HubUnlock == listMutex' = Free

\* Mutant: the head is read and not popped.
HubPopKeepsHead(h) ==
    /\ HubStep(h, "wait", "testOpen")
    /\ listMutex = Free
    /\ list # <<>>
    /\ ~endThread
    /\ listMutex' = h
    /\ hubMsg' = [hubMsg EXCEPT ![h] = Head(list)]
    /\ UNCHANGED <<list, endThread, routerPc, flagVars, written, chainVars, timerVars,
                   ioVars, userVars, result>>

\* wait() returns with the lock: the list is not empty; pop its head.
HubPop(h) ==
    /\ HubStep(h, "wait", "testOpen")
    /\ listMutex = Free
    /\ list # <<>>
    /\ ~endThread
    /\ listMutex' = h
    /\ hubMsg' = [hubMsg EXCEPT ![h] = Head(list)]
    /\ list' = Tail(list)
    /\ UNCHANGED <<endThread, routerPc, flagVars, written, chainVars, timerVars,
                   ioVars, userVars, result>>

\* wait() returns and end_thread_ is set: the thread returns.
HubEnd(h) ==
    /\ HubStep(h, "wait", "ended")
    /\ listMutex = Free
    /\ list # <<>>
    /\ endThread
    /\ UNCHANGED <<listMutex, list, endThread, hubMsg, routerPc, flagVars, written,
                   chainVars, timerVars, ioVars, userVars, result>>

\* if (websocket->socket_is_open_ == true && ...
HubTestOpen(h) ==
    /\ HubStep(h, "testOpen", IF open[Sock(h)] THEN "testWriting" ELSE "retestOpen")
    /\ UNCHANGED <<listMutex, list, endThread, hubMsg, routerPc, flagVars, written,
                   chainVars, timerVars, ioVars, userVars, result>>

\* Mutant: the test of is_writing_ is left out.
HubTestOnlyOpen(h) ==
    /\ HubStep(h, "testWriting", "claim")
    /\ UNCHANGED <<listMutex, list, endThread, hubMsg, routerPc, flagVars, written,
                   chainVars, timerVars, ioVars, userVars, result>>

\* ... websocket->is_writing_ == false)
HubTestWriting(h) ==
    /\ HubStep(h, "testWriting", IF writing[Sock(h)] THEN "retestOpen" ELSE "claim")
    /\ UNCHANGED <<listMutex, list, endThread, hubMsg, routerPc, flagVars, written,
                   chainVars, timerVars, ioVars, userVars, result>>

\* websocket->is_writing_ = true;
HubClaim(h) ==
    /\ HubStep(h, "claim", "frame")
    /\ writing' = [writing EXCEPT ![Sock(h)] = TRUE]
    /\ UNCHANGED <<listMutex, list, endThread, hubMsg, routerPc, open, written,
                   chainVars, timerVars, ioVars, userVars, result>>

\* else if (websocket->socket_is_open_ == true && ...: read a second time.
\* A message whose socket is closed is forgotten, without a callback.
HubRetestOpen(h) ==
    /\ hubPc[h] = "retestOpen"
    /\ IF open[Sock(h)]
         THEN /\ HubStep(h, "retestOpen", "retestWriting")
              /\ UNCHANGED <<listMutex, hubMsg>>
         ELSE /\ HubStep(h, "retestOpen", "wait")
              /\ hubMsg' = [hubMsg EXCEPT ![h] = NoMessage]
              /\ HubUnlock
    /\ UNCHANGED <<list, endThread, routerPc, flagVars, written, chainVars,
                   timerVars, ioVars, userVars, result>>

\* ... websocket->is_writing_ == true): put the message back.  When the flag
\* was cleared since the first test neither branch is taken.
HubRetestWriting(h) ==
    /\ HubStep(h, "retestWriting", "wait")
    /\ list' = IF writing[Sock(h)] THEN Append(list, hubMsg[h]) ELSE list
    /\ hubMsg' = [hubMsg EXCEPT ![h] = NoMessage]
    /\ HubUnlock
    /\ UNCHANGED <<endThread, routerPc, flagVars, written, chainVars, timerVars,
                   ioVars, userVars, result>>

-----------------------------------------------------------------------------
(* websocket_hub::write_frame, entered by the hub thread for the first     *)
(* frame of a message and by the io thread for the following ones.         *)

\* Mutants: either half of the test left out.
NothingToWriteUnlessOpen(m) == ~open[SocketOf[m]]
NothingToWriteWhenEmpty(m) == queue[m] = 0

\* if (frame_queue->empty() || !websocket->is_open())
NothingToWrite(m) == queue[m] = 0 \/ ~open[SocketOf[m]]

\* Mutant: the write timer is not armed.
StartFrameUntimed(m) ==
    /\ queue' = [queue EXCEPT ![m] = @ - 1]
    /\ net' = [net EXCEPT ![m] = "sent"]
    /\ UNCHANGED timer

\* Pop a frame, arm the write timer (which forgets an earlier wait) and
\* start the asynchronous write.
StartFrame(m) ==
    /\ queue' = [queue EXCEPT ![m] = @ - 1]
    /\ net' = [net EXCEPT ![m] = "sent"]
    /\ timer' = [timer EXCEPT ![SocketOf[m]] = TRUE]

\* write_ok
WriteOk(s) == writing' = [writing EXCEPT ![s] = FALSE]

Report(m, r) == result' = [result EXCEPT ![m] = r]

HubFrame(h) ==
    /\ HubStep(h, "frame", IF NothingToWrite(hubMsg[h]) THEN "release" ELSE "start")
    /\ UNCHANGED <<listMutex, list, endThread, hubMsg, routerPc, flagVars, written,
                   chainVars, timerVars, ioVars, userVars, result>>

HubStart(h) ==
    /\ HubStep(h, "start", "wait")
    /\ StartFrame(hubMsg[h])
    /\ hubMsg' = [hubMsg EXCEPT ![h] = NoMessage]
    /\ HubUnlock
    /\ UNCHANGED <<list, endThread, routerPc, flagVars, written, expired, ioVars,
                   userVars, result>>

HubRelease(h) ==
    /\ HubStep(h, "release", "callback")
    /\ WriteOk(Sock(h))
    /\ UNCHANGED <<listMutex, list, endThread, hubMsg, routerPc, open, written,
                   chainVars, timerVars, ioVars, userVars, result>>

\* The callback runs on the hub thread, under list_mutex_: one that writes
\* waits in add() for the mutex its own thread holds.
HubCallback(h) ==
    /\ hubPc[h] = "callback"
    /\ Report(hubMsg[h], "true")
    /\ IF ReplyOf[hubMsg[h]] \in Messages \ written
         THEN /\ HubStep(h, "callback", "selfLock")
              /\ UNCHANGED <<listMutex, hubMsg>>
         ELSE /\ HubStep(h, "callback", "wait")
              /\ hubMsg' = [hubMsg EXCEPT ![h] = NoMessage]
              /\ HubUnlock
    /\ UNCHANGED <<list, endThread, routerPc, flagVars, written, chainVars,
                   timerVars, ioVars, userVars>>

-----------------------------------------------------------------------------
(* The transport and the write timer of a websocket.                       *)

\* The peer's TCP stack takes the frame: the write ends without an error.
TransportOk(m) ==
    /\ net[m] = "sent"
    /\ open[SocketOf[m]]
    /\ net' = [net EXCEPT ![m] = "ok"]
    /\ UNCHANGED <<hubVars, flagVars, written, queue, timerVars, ioVars, userVars, result>>

\* The connection breaks, or the socket was closed under the write.
TransportError(m) ==
    /\ net[m] = "sent"
    /\ net' = [net EXCEPT ![m] = "error"]
    /\ UNCHANGED <<hubVars, flagVars, written, queue, timerVars, ioVars, userVars, result>>

\* The time is up: the expiry handler is queued, and cancel() is too late.
Expire(s) ==
    /\ timer[s]
    /\ timer' = [timer EXCEPT ![s] = FALSE]
    /\ expired' = [expired EXCEPT ![s] = TRUE]
    /\ UNCHANGED <<hubVars, flagVars, written, chainVars, ioVars, userVars, result>>

-----------------------------------------------------------------------------
(* The io thread of websocket s runs one handler at a time.                *)

IoStep(s, from, to) ==
    /\ ioPc[s] = from
    /\ ioPc' = [ioPc EXCEPT ![s] = to]

IoIdle(s) == ioMsg' = [ioMsg EXCEPT ![s] = NoMessage]

\* The completion handler: cancel_write_time, then by the error code.
IoComplete(s, m) ==
    /\ SocketOf[m] = s
    /\ net[m] \in {"ok", "error"}
    /\ IoStep(s, "idle", IF net[m] = "ok" THEN "frame" ELSE "testClose")
    /\ ioMsg' = [ioMsg EXCEPT ![s] = m]
    /\ net' = [net EXCEPT ![m] = "none"]
    /\ timer' = [timer EXCEPT ![s] = FALSE]
    /\ UNCHANGED <<hubVars, flagVars, written, queue, expired, userVars, result>>

IoFrame(s) ==
    /\ IoStep(s, "frame", IF NothingToWrite(ioMsg[s]) THEN "release" ELSE "start")
    /\ UNCHANGED <<hubVars, flagVars, written, chainVars, timerVars, ioMsg, userVars, result>>

IoStart(s) ==
    /\ IoStep(s, "start", "idle")
    /\ StartFrame(ioMsg[s])
    /\ IoIdle(s)
    /\ UNCHANGED <<hubVars, flagVars, written, expired, userVars, result>>

IoRelease(s) ==
    /\ IoStep(s, "release", "callback")
    /\ WriteOk(s)
    /\ UNCHANGED <<hubVars, open, written, chainVars, timerVars, ioMsg, userVars, result>>

\* After the callback the handler returns, unless the callback writes.
AfterCallback(s, from) ==
    IF ReplyOf[ioMsg[s]] \in Messages \ written
      THEN IoStep(s, from, "reply") /\ UNCHANGED ioMsg
      ELSE IoStep(s, from, "idle") /\ IoIdle(s)

IoCallback(s) ==
    /\ ioPc[s] = "callback"
    /\ Report(ioMsg[s], "true")
    /\ AfterCallback(s, "callback")
    /\ UNCHANGED <<hubVars, flagVars, written, chainVars, timerVars, userVars>>

IoFailed(s) ==
    /\ ioPc[s] = "failed"
    /\ Report(ioMsg[s], "false")
    /\ AfterCallback(s, "failed")
    /\ UNCHANGED <<hubVars, flagVars, written, chainVars, timerVars, userVars>>

\* The callback's write: add() waits for the mutex.
IoReply(s) ==
    /\ IoStep(s, "reply", "idle")
    /\ IoIdle(s)
    /\ IF ReplyOf[ioMsg[s]] \in written
         THEN UNCHANGED <<list, written>>
         ELSE /\ Add(ReplyOf[ioMsg[s]])
              /\ written' = written \cup {ReplyOf[ioMsg[s]]}
    /\ UNCHANGED <<listMutex, endThread, hubPc, hubMsg, routerPc, flagVars,
                   chainVars, timerVars, userVars, result>>

\* The expiry handler of the write timer closes the websocket.
IoTimeout(s) ==
    /\ expired[s]
    /\ IoStep(s, "idle", "testClose")
    /\ expired' = [expired EXCEPT ![s] = FALSE]
    /\ UNCHANGED <<hubVars, flagVars, written, chainVars, timer, ioMsg, userVars, result>>

\* The reading side sees the peer close, or break the protocol.
IoPeerClose(s) ==
    /\ open[s]
    /\ IoStep(s, "idle", "testClose")
    /\ UNCHANGED <<hubVars, flagVars, written, chainVars, timerVars, ioMsg, userVars, result>>

-----------------------------------------------------------------------------
(* websocket::close: test the flag, close the socket, clear socket_is_open_*)
(* and then is_writing_.                                                   *)

ClearOpen(s) == open' = [open EXCEPT ![s] = FALSE]

\* The timers are cancelled after the flags.
ClearWriting(s) ==
    /\ writing' = [writing EXCEPT ![s] = FALSE]
    /\ timer' = [timer EXCEPT ![s] = FALSE]

AfterClose(s) == IF ioMsg[s] = NoMessage THEN "idle" ELSE "failed"

IoTestClose(s) ==
    /\ IoStep(s, "testClose", IF open[s] THEN "clearOpen" ELSE AfterClose(s))
    /\ UNCHANGED <<hubVars, flagVars, written, chainVars, timerVars, ioMsg, userVars, result>>

IoClearOpen(s) ==
    /\ IoStep(s, "clearOpen", "clearWriting")
    /\ ClearOpen(s)
    /\ UNCHANGED <<hubVars, writing, written, chainVars, timerVars, ioMsg, userVars, result>>

IoClearWriting(s) ==
    /\ IoStep(s, "clearWriting", AfterClose(s))
    /\ ClearWriting(s)
    /\ UNCHANGED <<hubVars, open, written, chainVars, expired, ioMsg, userVars, result>>

UserStep(u, from, to) ==
    /\ userPc[u] = from
    /\ userPc' = [userPc EXCEPT ![u] = to]

\* An application thread calls close(), which tests socket_is_open_, or
\* shutdown(), whose null_close() does not.
UserClose(u, s) ==
    /\ UserStep(u, "idle", "clearOpen")
    /\ userSock' = [userSock EXCEPT ![u] = s]
    /\ UNCHANGED <<hubVars, flagVars, written, chainVars, timerVars, ioVars, result>>

UserClearOpen(u) ==
    /\ UserStep(u, "clearOpen", "clearWriting")
    /\ ClearOpen(userSock[u])
    /\ UNCHANGED <<hubVars, writing, written, chainVars, timerVars, ioVars, userSock, result>>

UserClearWriting(u) ==
    /\ UserStep(u, "clearWriting", "idle")
    /\ ClearWriting(userSock[u])
    /\ UNCHANGED <<hubVars, open, written, chainVars, expired, ioVars, userSock, result>>

-----------------------------------------------------------------------------
(* ~http_router: end_thread_ is set, a null entry is added to wake the hub *)
(* threads, and the router's own one is joined.                            *)

RouterEnd(h) ==
    /\ routerPc[h] = "running"
    /\ routerPc' = [routerPc EXCEPT ![h] = "waking"]
    /\ endThread' = TRUE
    /\ UNCHANGED <<listMutex, list, hubPc, hubMsg, flagVars, written, chainVars,
                   timerVars, ioVars, userVars, result>>

\* Mutant: the wake-up entry is not added.
RouterJoinsAtOnce(h) ==
    /\ routerPc[h] = "waking"
    /\ routerPc' = [routerPc EXCEPT ![h] = "joining"]
    /\ listMutex = Free
    /\ UNCHANGED <<listMutex, list, endThread, hubPc, hubMsg, flagVars, written, chainVars,
                   timerVars, ioVars, userVars, result>>

RouterWake(h) ==
    /\ routerPc[h] = "waking"
    /\ routerPc' = [routerPc EXCEPT ![h] = "joining"]
    /\ Add(NoMessage)
    /\ UNCHANGED <<listMutex, endThread, hubPc, hubMsg, flagVars, written, chainVars,
                   timerVars, ioVars, userVars, result>>

-----------------------------------------------------------------------------
HubNext(h) ==
    \/ HubPop(h)       \/ HubEnd(h)
    \/ HubTestOpen(h)  \/ HubTestWriting(h)  \/ HubClaim(h)
    \/ HubRetestOpen(h) \/ HubRetestWriting(h)
    \/ HubFrame(h)     \/ HubStart(h)        \/ HubRelease(h)  \/ HubCallback(h)

\* The handler the io thread of s is in the middle of.
IoContinue(s) ==
    \/ IoFrame(s)     \/ IoStart(s)      \/ IoRelease(s)
    \/ IoCallback(s)  \/ IoFailed(s)
    \/ IoTestClose(s) \/ IoClearOpen(s)  \/ IoClearWriting(s)

\* The handlers posted to the io thread of s, begun or not.
IoNext(s) ==
    \/ IoContinue(s) \/ IoTimeout(s)
    \/ \E m \in Messages : IoComplete(s, m)

UserContinue(u) == UserClearOpen(u) \/ UserClearWriting(u)

Next ==
    \/ \E m \in Messages : Write(m) \/ TransportOk(m) \/ TransportError(m)
    \/ \E h \in HubThreads : HubNext(h) \/ RouterEnd(h) \/ RouterWake(h)
    \/ \E s \in Sockets :
         \/ IoNext(s) \/ IoReply(s) \/ IoPeerClose(s) \/ Expire(s)
         \/ \E u \in Users : UserClose(u, s)
    \/ \E u \in Users : UserContinue(u)

Spec == Init /\ [][Next]_vars

\* The threads that wait for the mutex to add an entry.
Waiting ==
    \/ \E h \in HubThreads : RouterWake(h)
    \/ \E s \in Sockets : IoReply(s)

\* The scheduling the code relies on: every thread that can run does, an io
\* thread runs some handler that was posted, a write on a closed socket is
\* aborted, and a timer expires.  Nothing makes the peer take a frame, or the
\* application write or close.  The mutex is not fair; while it is free again
\* and again one of those that wait gets it in the end (strong fairness), or
\* the hub thread, which spins on a busy socket, could keep it for ever.
Fairness ==
    /\ \A h \in HubThreads : WF_vars(HubNext(h))
    /\ \A s \in Sockets : WF_vars(IoNext(s)) /\ WF_vars(Expire(s))
    /\ WF_vars(\E m \in Messages : ~open[SocketOf[m]] /\ TransportError(m))
    /\ \A u \in Users : WF_vars(UserContinue(u))
    /\ SF_vars(Waiting)

FairSpec == Spec /\ Fairness

-----------------------------------------------------------------------------
(* Properties.                                                             *)

\* Every variable has its type.
TypeOK ==
    /\ listMutex \in HubThreads \cup {Free}
    /\ list \in Seq(Messages \cup {NoMessage})
    /\ endThread \in BOOLEAN
    /\ hubPc \in [HubThreads -> HubPcs]
    /\ hubMsg \in [HubThreads -> Messages \cup {NoMessage}]
    /\ routerPc \in [HubThreads -> RouterPcs]
    /\ open \in [Sockets -> BOOLEAN]
    /\ writing \in [Sockets -> BOOLEAN]
    /\ written \in SUBSET Messages
    /\ queue \in [Messages -> Nat]
    /\ net \in [Messages -> NetStates]
    /\ timer \in [Sockets -> BOOLEAN]
    /\ expired \in [Sockets -> BOOLEAN]
    /\ ioPc \in [Sockets -> IoPcs]
    /\ ioMsg \in [Sockets -> Messages \cup {NoMessage}]
    /\ userPc \in [Users -> UserPcs]
    /\ userSock \in [Users -> Sockets]
    /\ result \in [Messages -> Results]

\* Message m has frames out and frames to come, or an asynchronous write of
\* one of its frames is outstanding.
Transmitting(m) ==
    \/ net[m] # "none"
    \/ queue[m] \in 1 .. FramesOf[m] - 1

\* On a websocket the frames of two messages are never interleaved, and no
\* write is started while another is outstanding: what is_writing_ is for.
OneTransmission ==
    \A m, n \in Messages :
        (m # n /\ SocketOf[m] = SocketOf[n]) => ~(Transmitting(m) /\ Transmitting(n))

\* A write callback is never about to be called for a message whose callback
\* was called before, on whichever thread.
CallbackOnce ==
    /\ \A h \in HubThreads : hubPc[h] = "callback" => result[hubMsg[h]] = "none"
    /\ \A s \in Sockets : ioPc[s] \in {"callback", "failed"} => result[ioMsg[s]] = "none"

\* A write reported as failed leaves its websocket closed.
FailureCloses ==
    \A m \in Messages : result[m] = "false" => ~open[SocketOf[m]]

\* The hub thread runs a callback, which may then lock it up, only for a
\* message whose websocket was closed after the thread found it open.
SelfLockNeedsClose ==
    \A h \in HubThreads : hubPc[h] \in {"callback", "selfLock"} => ~open[Sock(h)]

Stream == INSTANCE FrameStream WITH
    up <- open,
    sent <- [m \in Messages |-> FramesOf[m] - queue[m]],
    reported <- result

\* The write path implements the abstract stream of frames: a frame is sent
\* for every one that leaves its queue (websocket.hpp:586-663).
StreamSpec == Stream!Spec

InList(m) == \E i \in 1 .. Len(list) : list[i] = m
InHub(m) == \E h \in HubThreads : hubMsg[h] = m

\* A message that was written, is nowhere, and of which no frame was sent.
Forgotten(m) ==
    /\ m \in written
    /\ ~InList(m) /\ ~InHub(m)
    /\ queue[m] = FramesOf[m]
    /\ result[m] = "none"

Settled(m) == result[m] # "none" \/ Forgotten(m)

LockedUp == \E h \in HubThreads : hubPc[h] = "selfLock"

\* Every message handed to the hub is in the end sent, failed or forgotten,
\* even when the peer reads nothing more, unless the hub has been shut down
\* or a callback has locked it up.  Nothing unsettles a message: that there is
\* again and again none unsettled says that each one settles.
EveryMessageSettles ==
    []<>((\A m \in written : Settled(m)) \/ endThread \/ LockedUp)

\* ~http_router joins its hub thread: the thread does end, whichever router's
\* wake-up entry it is that ends it.
RouterJoins ==
    []<>((\A h \in HubThreads : routerPc[h] = "joining" => hubPc[h] = "ended") \/ LockedUp)

\* README: ws.write_string sends the message.  The hub forgets a message only
\* when its websocket is closed.
NoSilentLoss == \A m \in Messages : Forgotten(m) => ~open[SocketOf[m]]
=============================================================================
