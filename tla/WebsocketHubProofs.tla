------------------------- MODULE WebsocketHubProofs -------------------------
(***************************************************************************)
(* Proofs about WebsocketHub, for any number of hub threads, websockets,   *)
(* application threads and messages of any number of frames.               *)
(*                                                                         *)
(* The argument has three layers.  Control says where the threads are: a   *)
(* hub thread inside its loop holds the mutex, and is_writing_ is cleared  *)
(* by close only after socket_is_open_.  Places says where the messages    *)
(* are: a message is in the list, with a hub thread, in a handler or on    *)
(* the wire, and in one of them only.  Exclusion says that, while a        *)
(* websocket is open, the flag is_writing_ covers whoever transmits.       *)
(***************************************************************************)
EXTENDS WebsocketHub, SequenceTheorems, TLAPS

-----------------------------------------------------------------------------
(* Control.                                                                *)

\* A hub thread is in the mutex exactly when it is inside its loop body, and
\* has a message there; the null entry is in the list only at the end.
HubControl ==
    /\ \A h \in HubThreads :
         IF hubPc[h] \in {"wait", "ended"}
           THEN listMutex # h /\ hubMsg[h] = NoMessage
           ELSE listMutex = h /\ hubMsg[h] \in Messages
    /\ \A i \in 1 .. Len(list) : list[i] = NoMessage => endThread
    /\ \A h \in HubThreads : routerPc[h] # "running" => endThread

\* A handler is about a message of its own websocket.
IoControl ==
    \A s \in Sockets :
        /\ ioMsg[s] # NoMessage => SocketOf[ioMsg[s]] = s
        /\ ioPc[s] = "idle" => ioMsg[s] = NoMessage
        /\ ioPc[s] \in {"frame", "start", "release", "callback", "failed", "reply"}
             => ioMsg[s] # NoMessage
        /\ ioPc[s] = "reply" => ReplyOf[ioMsg[s]] # NoMessage

\* close clears is_writing_ only when socket_is_open_ is clear, which it
\* stays; a failed message is reported only after close.
CloseControl ==
    /\ \A s \in Sockets : ioPc[s] \in {"clearWriting", "failed"} => ~open[s]
    /\ \A u \in Users : userPc[u] = "clearWriting" => ~open[userSock[u]]

Control == TypeOK /\ HubControl /\ IoControl /\ CloseControl

-----------------------------------------------------------------------------
(* Places.                                                                 *)

AtHub(h, m) == hubMsg[h] = m /\ hubPc[h] # "selfLock"
AtIo(s, m) == ioMsg[s] = m /\ ioPc[s] # "reply"

\* No frame of m was sent, and its callback was not called.
Untouched(m) == queue[m] = FramesOf[m] /\ net[m] = "none" /\ result[m] = "none"

\* A message nobody wrote yet is untouched.
UnwrittenPlaces == \A m \in Messages : m \notin written => Untouched(m)

\* A message in the list is there once, untouched, and nowhere else.
ListPlaces ==
    \A i \in 1 .. Len(list) : list[i] \in Messages =>
        /\ list[i] \in written
        /\ Untouched(list[i])
        /\ \A h \in HubThreads : ~AtHub(h, list[i])
        /\ \A s \in Sockets : ~AtIo(s, list[i])
        /\ \A j \in 1 .. Len(list) : i # j => list[i] # list[j]

\* A message a hub thread holds is untouched, and in no handler.
HubPlaces ==
    \A m \in Messages, h \in HubThreads : AtHub(h, m) =>
        /\ m \in written
        /\ Untouched(m)
        /\ \A s \in Sockets : ~AtIo(s, m)

\* A message in a handler has no write outstanding and was not reported.
IoPlaces ==
    \A m \in Messages, s \in Sockets : AtIo(s, m) =>
        /\ m \in written
        /\ net[m] = "none"
        /\ result[m] = "none"
        /\ ioPc[s] = "start" => queue[m] > 0

\* Nor was one on the wire reported; a queue only shrinks.
WirePlaces ==
    /\ \A m \in Messages : net[m] # "none" => result[m] = "none"
    /\ \A m \in Messages : queue[m] \in 0 .. FramesOf[m]

Places == UnwrittenPlaces /\ ListPlaces /\ HubPlaces /\ IoPlaces /\ WirePlaces

\* A message in a handler, or on the wire, has had a frame sent; the handler
\* reports it as sent only when there is nothing left to write.
Progress ==
    /\ \A m \in Messages, s \in Sockets : AtIo(s, m) =>
         /\ queue[m] < FramesOf[m]
         /\ ioPc[s] \in {"release", "callback"} => NothingToWrite(m)
    /\ \A m \in Messages : net[m] # "none" => m \in written /\ queue[m] < FramesOf[m]

-----------------------------------------------------------------------------
(* Exclusion.                                                              *)

\* Message m transmits, or is past its last test of socket_is_open_ and
\* about to.
Busy(m) ==
    \/ Transmitting(m)
    \/ \E s \in Sockets : ioMsg[s] = m /\ ioPc[s] \in {"frame", "start"}
    \/ \E h \in HubThreads : hubMsg[h] = m /\ hubPc[h] = "start"

\* No two messages of a websocket are busy.
Alone ==
    \A m, n \in Messages :
        m # n /\ SocketOf[m] = SocketOf[n] => ~(Busy(m) /\ Busy(n))

\* The flag of an open websocket is set while a message is busy.
FlagCovers ==
    \A m \in Messages : Busy(m) /\ open[SocketOf[m]] => writing[SocketOf[m]]

\* A hub thread that has found the flag clear, and the websocket still open,
\* finds nobody transmitting.
ClaimFree ==
    \A h \in HubThreads : hubPc[h] \in {"claim", "frame"} /\ open[Sock(h)] =>
        /\ hubPc[h] = "frame" => writing[Sock(h)]
        /\ \A m \in Messages : SocketOf[m] = Sock(h) => ~Busy(m)

\* A hub thread gives up inside write_frame only on a closed websocket.
GiveUp ==
    \A h \in HubThreads :
        hubPc[h] \in {"release", "callback", "selfLock"} => ~open[Sock(h)]

\* While the io thread is about to clear the flag of an open websocket, the
\* flag keeps the hub threads out.
ReleaseFree ==
    \A s \in Sockets : ioPc[s] = "release" /\ open[s] =>
        /\ writing[s]
        /\ \A m \in Messages : SocketOf[m] = s => ~Busy(m)
        /\ \A h \in HubThreads :
             hubPc[h] \in {"claim", "frame", "start"} => Sock(h) # s

Exclusion == Alone /\ FlagCovers /\ ClaimFree /\ GiveUp /\ ReleaseFree

IInv == Control /\ Places /\ Progress /\ Exclusion

-----------------------------------------------------------------------------
USE NoMessageAssumption, FreeAssumption, SocketOfAssumption, FramesOfAssumption,
    ReplyOfAssumption
    DEF hubVars, flagVars, chainVars, timerVars, ioVars, userVars

LEMMA TypeInit == Init => TypeOK
<1> SUFFICES ASSUME Init PROVE TypeOK
  OBVIOUS
<1>1. list \in Seq(Messages \cup {NoMessage})
  BY EmptySeq DEF Init
<1>2. queue \in [Messages -> Nat]
  BY DEF Init
<1> QED
  BY <1>1, <1>2 DEF Init, TypeOK, HubPcs, IoPcs, UserPcs, RouterPcs, NetStates, Results

\* The queue is not empty where a thread is about to pop a frame.
StartsNonEmpty ==
    /\ \A h \in HubThreads : hubPc[h] = "start" => queue[hubMsg[h]] > 0
    /\ \A s \in Sockets : ioPc[s] = "start" => queue[ioMsg[s]] > 0

LEMMA TypeStep == Control /\ StartsNonEmpty /\ [Next]_vars => TypeOK'
<1> SUFFICES ASSUME Control, StartsNonEmpty, [Next]_vars PROVE TypeOK'
  OBVIOUS
<1> USE DEF Control, TypeOK, HubPcs, IoPcs, UserPcs, RouterPcs, NetStates, Results
<1>1. ASSUME NEW m \in Messages, Write(m) PROVE TypeOK'
  BY <1>1 DEF Write, Add
<1>2. ASSUME NEW m \in Messages, TransportOk(m) PROVE TypeOK'
  BY <1>2 DEF TransportOk
<1>3. ASSUME NEW m \in Messages, TransportError(m) PROVE TypeOK'
  BY <1>3 DEF TransportError
<1>4. ASSUME NEW h \in HubThreads, HubPop(h) PROVE TypeOK'
  <2>1. Head(list) \in Messages \cup {NoMessage} /\ Tail(list) \in Seq(Messages \cup {NoMessage})
    BY <1>4, HeadTailProperties DEF HubPop
  <2> QED
    BY <1>4, <2>1 DEF HubPop, HubStep
<1>5. ASSUME NEW h \in HubThreads, HubEnd(h) PROVE TypeOK'
  BY <1>5 DEF HubEnd, HubStep
<1>6. ASSUME NEW h \in HubThreads, HubTestOpen(h) PROVE TypeOK'
  BY <1>6 DEF HubTestOpen, HubStep
<1>7. ASSUME NEW h \in HubThreads, HubTestWriting(h) PROVE TypeOK'
  BY <1>7 DEF HubTestWriting, HubStep
<1>8. ASSUME NEW h \in HubThreads, HubClaim(h) PROVE TypeOK'
  BY <1>8 DEF HubClaim, HubStep, Sock
<1>9. ASSUME NEW h \in HubThreads, HubRetestOpen(h) PROVE TypeOK'
  BY ZenonT(60), <1>9 DEF HubRetestOpen, HubStep, HubUnlock
<1>10. ASSUME NEW h \in HubThreads, HubRetestWriting(h) PROVE TypeOK'
  BY <1>10 DEF HubRetestWriting, HubStep, HubUnlock
<1>11. ASSUME NEW h \in HubThreads, HubFrame(h) PROVE TypeOK'
  BY <1>11 DEF HubFrame, HubStep
<1>12. ASSUME NEW h \in HubThreads, HubStart(h) PROVE TypeOK'
  <2>1. hubMsg[h] \in Messages /\ queue[hubMsg[h]] > 0
    BY <1>12 DEF HubStart, HubStep, HubControl, StartsNonEmpty
  <2>2. queue' \in [Messages -> Nat]
    BY <1>12, <2>1 DEF HubStart, StartFrame
  <2> QED
    BY <1>12, <2>1, <2>2 DEF HubStart, HubStep, HubUnlock, StartFrame
<1>13. ASSUME NEW h \in HubThreads, HubRelease(h) PROVE TypeOK'
  BY <1>13 DEF HubRelease, HubStep, WriteOk, Sock
<1>14. ASSUME NEW h \in HubThreads, HubCallback(h) PROVE TypeOK'
  BY ZenonT(60), <1>14 DEF HubCallback, HubStep, HubUnlock, Report
<1>15. ASSUME NEW h \in HubThreads, RouterEnd(h) PROVE TypeOK'
  BY <1>15 DEF RouterEnd
<1>16. ASSUME NEW h \in HubThreads, RouterWake(h) PROVE TypeOK'
  BY <1>16 DEF RouterWake, Add
<1>17. ASSUME NEW s \in Sockets, IoFrame(s) PROVE TypeOK'
  BY <1>17 DEF IoFrame, IoStep
<1>18. ASSUME NEW s \in Sockets, IoStart(s) PROVE TypeOK'
  <2>1. ioMsg[s] \in Messages /\ queue[ioMsg[s]] > 0
    BY <1>18 DEF IoStart, IoStep, IoControl, StartsNonEmpty
  <2>2. queue' \in [Messages -> Nat]
    BY <1>18, <2>1 DEF IoStart, StartFrame
  <2> QED
    BY <1>18, <2>1, <2>2 DEF IoStart, IoStep, IoIdle, StartFrame
<1>19. ASSUME NEW s \in Sockets, IoRelease(s) PROVE TypeOK'
  BY <1>19 DEF IoRelease, IoStep, WriteOk
<1>20. ASSUME NEW s \in Sockets, IoCallback(s) PROVE TypeOK'
  BY ZenonT(60), <1>20 DEF IoCallback, IoStep, Report, AfterCallback, IoIdle
<1>21. ASSUME NEW s \in Sockets, IoFailed(s) PROVE TypeOK'
  BY ZenonT(60), <1>21 DEF IoFailed, IoStep, Report, AfterCallback, IoIdle
<1>22. ASSUME NEW s \in Sockets, IoTestClose(s) PROVE TypeOK'
  BY <1>22 DEF IoTestClose, IoStep, AfterClose
<1>23. ASSUME NEW s \in Sockets, IoClearOpen(s) PROVE TypeOK'
  BY <1>23 DEF IoClearOpen, IoStep, ClearOpen
<1>24. ASSUME NEW s \in Sockets, IoClearWriting(s) PROVE TypeOK'
  BY <1>24 DEF IoClearWriting, IoStep, ClearWriting, AfterClose
<1>25. ASSUME NEW s \in Sockets, IoReply(s) PROVE TypeOK'
  <2>1. ReplyOf[ioMsg[s]] \in Messages
    BY <1>25 DEF IoReply, IoStep, IoControl
  <2>2. list' \in Seq(Messages \cup {NoMessage}) /\ written' \in SUBSET Messages
    <3>1. CASE ReplyOf[ioMsg[s]] \in written
      BY <1>25, <3>1 DEF IoReply
    <3>2. CASE ReplyOf[ioMsg[s]] \notin written
      <4> DEFINE r == ReplyOf[ioMsg[s]]
      <4>1. list' = Append(list, r) /\ written' = written \cup {r}
        BY <1>25, <3>2 DEF IoReply, Add
      <4>2. r \in Messages
        BY <2>1
      <4> HIDE DEF r
      <4> QED
        BY <4>1, <4>2, AppendProperties
    <3> QED
      BY <3>1, <3>2
  <2> QED
    BY <1>25, <2>2 DEF IoReply, IoStep, IoIdle
<1>26. ASSUME NEW s \in Sockets, IoTimeout(s) PROVE TypeOK'
  BY <1>26 DEF IoTimeout, IoStep
<1>27. ASSUME NEW s \in Sockets, IoPeerClose(s) PROVE TypeOK'
  BY <1>27 DEF IoPeerClose, IoStep
<1>28. ASSUME NEW s \in Sockets, Expire(s) PROVE TypeOK'
  BY <1>28 DEF Expire
<1>29. ASSUME NEW s \in Sockets, NEW m \in Messages, IoComplete(s, m) PROVE TypeOK'
  BY <1>29 DEF IoComplete, IoStep
<1>30. ASSUME NEW u \in Users, NEW s \in Sockets, UserClose(u, s) PROVE TypeOK'
  BY <1>30 DEF UserClose, UserStep
<1>31. ASSUME NEW u \in Users, UserClearOpen(u) PROVE TypeOK'
  BY <1>31 DEF UserClearOpen, UserStep, ClearOpen
<1>32. ASSUME NEW u \in Users, UserClearWriting(u) PROVE TypeOK'
  BY <1>32 DEF UserClearWriting, UserStep, ClearWriting
<1>33. CASE UNCHANGED vars
  BY <1>33 DEF vars
<1> QED
  BY <1>1, <1>2, <1>3, <1>4, <1>5, <1>6, <1>7, <1>8, <1>9, <1>10, <1>11, <1>12, <1>13, <1>14, <1>15, <1>16, <1>17, <1>18, <1>19, <1>20, <1>21, <1>22, <1>23, <1>24, <1>25, <1>26, <1>27, <1>28, <1>29, <1>30, <1>31, <1>32, <1>33
     DEF Next, HubNext, IoNext, IoContinue, UserContinue

LEMMA HubControlStep == Control /\ [Next]_vars => HubControl'
<1> SUFFICES ASSUME Control, [Next]_vars PROVE HubControl'
  OBVIOUS
<1> USE DEF Control, TypeOK, HubPcs, HubControl
<1>1. ASSUME NEW m \in Messages, Write(m) PROVE HubControl'
  <2>1. \A i \in 1 .. Len(list') : list'[i] = NoMessage => endThread'
    BY <1>1, AppendProperties DEF Write, Add
  <2> QED
    BY <1>1, <2>1 DEF Write, Add
<1>2. ASSUME NEW m \in Messages, TransportOk(m) PROVE HubControl'
  BY <1>2 DEF TransportOk
<1>3. ASSUME NEW m \in Messages, TransportError(m) PROVE HubControl'
  BY <1>3 DEF TransportError
<1>4. ASSUME NEW h \in HubThreads, HubPop(h) PROVE HubControl'
  <2>1. /\ list[1] = Head(list) /\ Len(list) > 0
        /\ Len(Tail(list)) = Len(list) - 1
        /\ \A i \in 1 .. Len(Tail(list)) : Tail(list)[i] = list[i + 1]
    BY <1>4, HeadTailProperties DEF HubPop
  <2>2. hubMsg'[h] \in Messages
    BY <1>4, <2>1 DEF HubPop
  <2>3. \A i \in 1 .. Len(list') : list'[i] = NoMessage => endThread'
    BY <1>4, <2>1 DEF HubPop
  <2> QED
    BY <1>4, <2>2, <2>3 DEF HubPop, HubStep
<1>5. ASSUME NEW h \in HubThreads, HubEnd(h) PROVE HubControl'
  BY <1>5 DEF HubEnd, HubStep
<1>6. ASSUME NEW h \in HubThreads, HubTestOpen(h) PROVE HubControl'
  BY <1>6 DEF HubTestOpen, HubStep
<1>7. ASSUME NEW h \in HubThreads, HubTestWriting(h) PROVE HubControl'
  BY <1>7 DEF HubTestWriting, HubStep
<1>8. ASSUME NEW h \in HubThreads, HubClaim(h) PROVE HubControl'
  BY <1>8 DEF HubClaim, HubStep, Sock
<1>9. ASSUME NEW h \in HubThreads, HubRetestOpen(h) PROVE HubControl'
  BY <1>9 DEF HubRetestOpen, HubStep, HubUnlock
<1>10. ASSUME NEW h \in HubThreads, HubRetestWriting(h) PROVE HubControl'
  <2>1. hubMsg[h] \in Messages
    BY <1>10 DEF HubRetestWriting, HubStep
  <2>2. \A i \in 1 .. Len(list') : list'[i] = NoMessage => endThread'
    BY <1>10, <2>1, AppendProperties DEF HubRetestWriting
  <2> QED
    BY <1>10, <2>2 DEF HubRetestWriting, HubStep, HubUnlock
<1>11. ASSUME NEW h \in HubThreads, HubFrame(h) PROVE HubControl'
  BY <1>11 DEF HubFrame, HubStep
<1>12. ASSUME NEW h \in HubThreads, HubStart(h) PROVE HubControl'
  BY <1>12 DEF HubStart, HubStep, HubUnlock, StartFrame
<1>13. ASSUME NEW h \in HubThreads, HubRelease(h) PROVE HubControl'
  BY <1>13 DEF HubRelease, HubStep, WriteOk, Sock
<1>14. ASSUME NEW h \in HubThreads, HubCallback(h) PROVE HubControl'
  BY <1>14 DEF HubCallback, HubStep, HubUnlock, Report
<1>15. ASSUME NEW h \in HubThreads, RouterEnd(h) PROVE HubControl'
  BY <1>15 DEF RouterEnd
<1>16. ASSUME NEW h \in HubThreads, RouterWake(h) PROVE HubControl'
  <2>1. endThread
    BY <1>16 DEF RouterWake
  <2>2. \A i \in 1 .. Len(list') : list'[i] = NoMessage => endThread'
    BY <1>16, <2>1 DEF RouterWake, Add
  <2> QED
    BY <1>16, <2>2 DEF RouterWake, Add
<1>17. ASSUME NEW s \in Sockets, IoFrame(s) PROVE HubControl'
  BY <1>17 DEF IoFrame, IoStep
<1>18. ASSUME NEW s \in Sockets, IoStart(s) PROVE HubControl'
  BY <1>18 DEF IoStart, IoStep, StartFrame, IoIdle
<1>19. ASSUME NEW s \in Sockets, IoRelease(s) PROVE HubControl'
  BY <1>19 DEF IoRelease, IoStep, WriteOk
<1>20. ASSUME NEW s \in Sockets, IoCallback(s) PROVE HubControl'
  BY <1>20 DEF IoCallback, IoStep, Report, AfterCallback, IoIdle
<1>21. ASSUME NEW s \in Sockets, IoFailed(s) PROVE HubControl'
  BY <1>21 DEF IoFailed, IoStep, Report, AfterCallback, IoIdle
<1>22. ASSUME NEW s \in Sockets, IoTestClose(s) PROVE HubControl'
  BY <1>22 DEF IoTestClose, IoStep, AfterClose
<1>23. ASSUME NEW s \in Sockets, IoClearOpen(s) PROVE HubControl'
  BY <1>23 DEF IoClearOpen, IoStep, ClearOpen
<1>24. ASSUME NEW s \in Sockets, IoClearWriting(s) PROVE HubControl'
  BY <1>24 DEF IoClearWriting, IoStep, ClearWriting, AfterClose
<1>25. ASSUME NEW s \in Sockets, IoReply(s) PROVE HubControl'
  <2>1. ReplyOf[ioMsg[s]] \in Messages
    BY <1>25 DEF IoReply, IoStep, IoControl
  <2>2. \A i \in 1 .. Len(list') : list'[i] = NoMessage => endThread'
    <3>1. CASE ReplyOf[ioMsg[s]] \in written
      BY <1>25, <3>1 DEF IoReply
    <3>2. CASE ReplyOf[ioMsg[s]] \notin written
      <4> DEFINE r == ReplyOf[ioMsg[s]]
      <4>1. list' = Append(list, r) /\ endThread' = endThread
        BY <1>25, <3>2 DEF IoReply, Add
      <4>2. r \in Messages
        BY <2>1
      <4> HIDE DEF r
      <4> QED
        BY <4>1, <4>2, AppendProperties
    <3> QED
      BY <3>1, <3>2
  <2> QED
    BY <1>25, <2>2 DEF IoReply
<1>26. ASSUME NEW s \in Sockets, IoTimeout(s) PROVE HubControl'
  BY <1>26 DEF IoTimeout, IoStep
<1>27. ASSUME NEW s \in Sockets, IoPeerClose(s) PROVE HubControl'
  BY <1>27 DEF IoPeerClose, IoStep
<1>28. ASSUME NEW s \in Sockets, Expire(s) PROVE HubControl'
  BY <1>28 DEF Expire
<1>29. ASSUME NEW s \in Sockets, NEW m \in Messages, IoComplete(s, m) PROVE HubControl'
  BY <1>29 DEF IoComplete, IoStep
<1>30. ASSUME NEW u \in Users, NEW s \in Sockets, UserClose(u, s) PROVE HubControl'
  BY <1>30 DEF UserClose, UserStep
<1>31. ASSUME NEW u \in Users, UserClearOpen(u) PROVE HubControl'
  BY <1>31 DEF UserClearOpen, UserStep, ClearOpen
<1>32. ASSUME NEW u \in Users, UserClearWriting(u) PROVE HubControl'
  BY <1>32 DEF UserClearWriting, UserStep, ClearWriting
<1>33. CASE UNCHANGED vars
  BY <1>33 DEF vars
<1> QED
  BY <1>1, <1>2, <1>3, <1>4, <1>5, <1>6, <1>7, <1>8, <1>9, <1>10, <1>11, <1>12, <1>13, <1>14, <1>15, <1>16, <1>17, <1>18, <1>19, <1>20, <1>21, <1>22, <1>23, <1>24, <1>25, <1>26, <1>27, <1>28, <1>29, <1>30, <1>31, <1>32, <1>33
     DEF Next, HubNext, IoNext, IoContinue, UserContinue

LEMMA IoControlStep == Control /\ [Next]_vars => IoControl'
<1> SUFFICES ASSUME Control, [Next]_vars PROVE IoControl'
  OBVIOUS
<1> USE DEF Control, TypeOK, IoControl
<1>1. ASSUME NEW m \in Messages, Write(m) PROVE IoControl'
  BY <1>1 DEF Write, Add
<1>2. ASSUME NEW m \in Messages, TransportOk(m) PROVE IoControl'
  BY <1>2 DEF TransportOk
<1>3. ASSUME NEW m \in Messages, TransportError(m) PROVE IoControl'
  BY <1>3 DEF TransportError
<1>4. ASSUME NEW h \in HubThreads, HubPop(h) PROVE IoControl'
  BY <1>4 DEF HubPop, HubStep
<1>5. ASSUME NEW h \in HubThreads, HubEnd(h) PROVE IoControl'
  BY <1>5 DEF HubEnd, HubStep
<1>6. ASSUME NEW h \in HubThreads, HubTestOpen(h) PROVE IoControl'
  BY <1>6 DEF HubTestOpen, HubStep
<1>7. ASSUME NEW h \in HubThreads, HubTestWriting(h) PROVE IoControl'
  BY <1>7 DEF HubTestWriting, HubStep
<1>8. ASSUME NEW h \in HubThreads, HubClaim(h) PROVE IoControl'
  BY <1>8 DEF HubClaim, HubStep, Sock
<1>9. ASSUME NEW h \in HubThreads, HubRetestOpen(h) PROVE IoControl'
  BY <1>9 DEF HubRetestOpen, HubStep, HubUnlock
<1>10. ASSUME NEW h \in HubThreads, HubRetestWriting(h) PROVE IoControl'
  BY <1>10 DEF HubRetestWriting, HubStep, HubUnlock
<1>11. ASSUME NEW h \in HubThreads, HubFrame(h) PROVE IoControl'
  BY <1>11 DEF HubFrame, HubStep
<1>12. ASSUME NEW h \in HubThreads, HubStart(h) PROVE IoControl'
  BY <1>12 DEF HubStart, HubStep, HubUnlock, StartFrame
<1>13. ASSUME NEW h \in HubThreads, HubRelease(h) PROVE IoControl'
  BY <1>13 DEF HubRelease, HubStep, WriteOk, Sock
<1>14. ASSUME NEW h \in HubThreads, HubCallback(h) PROVE IoControl'
  BY <1>14 DEF HubCallback, HubStep, HubUnlock, Report
<1>15. ASSUME NEW h \in HubThreads, RouterEnd(h) PROVE IoControl'
  BY <1>15 DEF RouterEnd
<1>16. ASSUME NEW h \in HubThreads, RouterWake(h) PROVE IoControl'
  BY <1>16 DEF RouterWake, Add
<1>17. ASSUME NEW s \in Sockets, IoFrame(s) PROVE IoControl'
  BY <1>17 DEF IoFrame, IoStep
<1>18. ASSUME NEW s \in Sockets, IoStart(s) PROVE IoControl'
  BY <1>18 DEF IoStart, IoStep, StartFrame, IoIdle
<1>19. ASSUME NEW s \in Sockets, IoRelease(s) PROVE IoControl'
  BY <1>19 DEF IoRelease, IoStep, WriteOk
<1>20. ASSUME NEW s \in Sockets, IoCallback(s) PROVE IoControl'
  BY <1>20 DEF IoCallback, IoStep, Report, AfterCallback, IoIdle
<1>21. ASSUME NEW s \in Sockets, IoFailed(s) PROVE IoControl'
  BY <1>21 DEF IoFailed, IoStep, Report, AfterCallback, IoIdle
<1>22. ASSUME NEW s \in Sockets, IoTestClose(s) PROVE IoControl'
  BY <1>22 DEF IoTestClose, IoStep, AfterClose
<1>23. ASSUME NEW s \in Sockets, IoClearOpen(s) PROVE IoControl'
  BY <1>23 DEF IoClearOpen, IoStep, ClearOpen
<1>24. ASSUME NEW s \in Sockets, IoClearWriting(s) PROVE IoControl'
  BY <1>24 DEF IoClearWriting, IoStep, ClearWriting, AfterClose
<1>25. ASSUME NEW s \in Sockets, IoReply(s) PROVE IoControl'
  BY <1>25 DEF IoReply, Add, IoStep, IoIdle
<1>26. ASSUME NEW s \in Sockets, IoTimeout(s) PROVE IoControl'
  BY <1>26 DEF IoTimeout, IoStep
<1>27. ASSUME NEW s \in Sockets, IoPeerClose(s) PROVE IoControl'
  BY <1>27 DEF IoPeerClose, IoStep
<1>28. ASSUME NEW s \in Sockets, Expire(s) PROVE IoControl'
  BY <1>28 DEF Expire
<1>29. ASSUME NEW s \in Sockets, NEW m \in Messages, IoComplete(s, m) PROVE IoControl'
  BY <1>29 DEF IoComplete, IoStep
<1>30. ASSUME NEW u \in Users, NEW s \in Sockets, UserClose(u, s) PROVE IoControl'
  BY <1>30 DEF UserClose, UserStep
<1>31. ASSUME NEW u \in Users, UserClearOpen(u) PROVE IoControl'
  BY <1>31 DEF UserClearOpen, UserStep, ClearOpen
<1>32. ASSUME NEW u \in Users, UserClearWriting(u) PROVE IoControl'
  BY <1>32 DEF UserClearWriting, UserStep, ClearWriting
<1>33. CASE UNCHANGED vars
  BY <1>33 DEF vars
<1> QED
  BY <1>1, <1>2, <1>3, <1>4, <1>5, <1>6, <1>7, <1>8, <1>9, <1>10, <1>11, <1>12, <1>13, <1>14, <1>15, <1>16, <1>17, <1>18, <1>19, <1>20, <1>21, <1>22, <1>23, <1>24, <1>25, <1>26, <1>27, <1>28, <1>29, <1>30, <1>31, <1>32, <1>33
     DEF Next, HubNext, IoNext, IoContinue, UserContinue

LEMMA CloseControlStep == Control /\ [Next]_vars => CloseControl'
<1> SUFFICES ASSUME Control, [Next]_vars PROVE CloseControl'
  OBVIOUS
<1> USE DEF Control, TypeOK, CloseControl
<1>1. ASSUME NEW m \in Messages, Write(m) PROVE CloseControl'
  BY <1>1 DEF Write, Add
<1>2. ASSUME NEW m \in Messages, TransportOk(m) PROVE CloseControl'
  BY <1>2 DEF TransportOk
<1>3. ASSUME NEW m \in Messages, TransportError(m) PROVE CloseControl'
  BY <1>3 DEF TransportError
<1>4. ASSUME NEW h \in HubThreads, HubPop(h) PROVE CloseControl'
  BY <1>4 DEF HubPop, HubStep
<1>5. ASSUME NEW h \in HubThreads, HubEnd(h) PROVE CloseControl'
  BY <1>5 DEF HubEnd, HubStep
<1>6. ASSUME NEW h \in HubThreads, HubTestOpen(h) PROVE CloseControl'
  BY <1>6 DEF HubTestOpen, HubStep
<1>7. ASSUME NEW h \in HubThreads, HubTestWriting(h) PROVE CloseControl'
  BY <1>7 DEF HubTestWriting, HubStep
<1>8. ASSUME NEW h \in HubThreads, HubClaim(h) PROVE CloseControl'
  BY <1>8 DEF HubClaim, HubStep, Sock
<1>9. ASSUME NEW h \in HubThreads, HubRetestOpen(h) PROVE CloseControl'
  BY <1>9 DEF HubRetestOpen, HubStep, HubUnlock
<1>10. ASSUME NEW h \in HubThreads, HubRetestWriting(h) PROVE CloseControl'
  BY <1>10 DEF HubRetestWriting, HubStep, HubUnlock
<1>11. ASSUME NEW h \in HubThreads, HubFrame(h) PROVE CloseControl'
  BY <1>11 DEF HubFrame, HubStep
<1>12. ASSUME NEW h \in HubThreads, HubStart(h) PROVE CloseControl'
  BY <1>12 DEF HubStart, HubStep, HubUnlock, StartFrame
<1>13. ASSUME NEW h \in HubThreads, HubRelease(h) PROVE CloseControl'
  BY <1>13 DEF HubRelease, HubStep, WriteOk, Sock
<1>14. ASSUME NEW h \in HubThreads, HubCallback(h) PROVE CloseControl'
  BY <1>14 DEF HubCallback, HubStep, HubUnlock, Report
<1>15. ASSUME NEW h \in HubThreads, RouterEnd(h) PROVE CloseControl'
  BY <1>15 DEF RouterEnd
<1>16. ASSUME NEW h \in HubThreads, RouterWake(h) PROVE CloseControl'
  BY <1>16 DEF RouterWake, Add
<1>17. ASSUME NEW s \in Sockets, IoFrame(s) PROVE CloseControl'
  BY <1>17 DEF IoFrame, IoStep
<1>18. ASSUME NEW s \in Sockets, IoStart(s) PROVE CloseControl'
  BY <1>18 DEF IoStart, IoStep, StartFrame, IoIdle
<1>19. ASSUME NEW s \in Sockets, IoRelease(s) PROVE CloseControl'
  BY <1>19 DEF IoRelease, IoStep, WriteOk
<1>20. ASSUME NEW s \in Sockets, IoCallback(s) PROVE CloseControl'
  BY <1>20 DEF IoCallback, IoStep, Report, AfterCallback, IoIdle
<1>21. ASSUME NEW s \in Sockets, IoFailed(s) PROVE CloseControl'
  BY <1>21 DEF IoFailed, IoStep, Report, AfterCallback, IoIdle
<1>22. ASSUME NEW s \in Sockets, IoTestClose(s) PROVE CloseControl'
  BY <1>22 DEF IoTestClose, IoStep, AfterClose
<1>23. ASSUME NEW s \in Sockets, IoClearOpen(s) PROVE CloseControl'
  BY <1>23 DEF IoClearOpen, IoStep, ClearOpen
<1>24. ASSUME NEW s \in Sockets, IoClearWriting(s) PROVE CloseControl'
  BY <1>24 DEF IoClearWriting, IoStep, ClearWriting, AfterClose
<1>25. ASSUME NEW s \in Sockets, IoReply(s) PROVE CloseControl'
  BY <1>25 DEF IoReply, Add, IoStep, IoIdle
<1>26. ASSUME NEW s \in Sockets, IoTimeout(s) PROVE CloseControl'
  BY <1>26 DEF IoTimeout, IoStep
<1>27. ASSUME NEW s \in Sockets, IoPeerClose(s) PROVE CloseControl'
  BY <1>27 DEF IoPeerClose, IoStep
<1>28. ASSUME NEW s \in Sockets, Expire(s) PROVE CloseControl'
  BY <1>28 DEF Expire
<1>29. ASSUME NEW s \in Sockets, NEW m \in Messages, IoComplete(s, m) PROVE CloseControl'
  BY <1>29 DEF IoComplete, IoStep
<1>30. ASSUME NEW u \in Users, NEW s \in Sockets, UserClose(u, s) PROVE CloseControl'
  BY <1>30 DEF UserClose, UserStep
<1>31. ASSUME NEW u \in Users, UserClearOpen(u) PROVE CloseControl'
  BY <1>31 DEF UserClearOpen, UserStep, ClearOpen
<1>32. ASSUME NEW u \in Users, UserClearWriting(u) PROVE CloseControl'
  BY <1>32 DEF UserClearWriting, UserStep, ClearWriting
<1>33. CASE UNCHANGED vars
  BY <1>33 DEF vars
<1> QED
  BY <1>1, <1>2, <1>3, <1>4, <1>5, <1>6, <1>7, <1>8, <1>9, <1>10, <1>11, <1>12, <1>13, <1>14, <1>15, <1>16, <1>17, <1>18, <1>19, <1>20, <1>21, <1>22, <1>23, <1>24, <1>25, <1>26, <1>27, <1>28, <1>29, <1>30, <1>31, <1>32, <1>33
     DEF Next, HubNext, IoNext, IoContinue, UserContinue

LEMMA UnwrittenPlacesStep == Control /\ Places /\ [Next]_vars => UnwrittenPlaces'
<1> SUFFICES ASSUME Control, Places, [Next]_vars PROVE UnwrittenPlaces'
  OBVIOUS
<1> USE DEF Control, TypeOK, HubControl, IoControl, Places, UnwrittenPlaces, ListPlaces, HubPlaces, IoPlaces, WirePlaces, Untouched, AtHub, AtIo
<1>1. ASSUME NEW m \in Messages, Write(m) PROVE UnwrittenPlaces'
  BY <1>1 DEF Write, Add
<1>2. ASSUME NEW m \in Messages, TransportOk(m) PROVE UnwrittenPlaces'
  BY <1>2 DEF TransportOk
<1>3. ASSUME NEW m \in Messages, TransportError(m) PROVE UnwrittenPlaces'
  BY <1>3 DEF TransportError
<1>4. ASSUME NEW h \in HubThreads, HubPop(h) PROVE UnwrittenPlaces'
  BY <1>4 DEF HubPop, HubStep
<1>5. ASSUME NEW h \in HubThreads, HubEnd(h) PROVE UnwrittenPlaces'
  BY <1>5 DEF HubEnd, HubStep
<1>6. ASSUME NEW h \in HubThreads, HubTestOpen(h) PROVE UnwrittenPlaces'
  BY <1>6 DEF HubTestOpen, HubStep
<1>7. ASSUME NEW h \in HubThreads, HubTestWriting(h) PROVE UnwrittenPlaces'
  BY <1>7 DEF HubTestWriting, HubStep
<1>8. ASSUME NEW h \in HubThreads, HubClaim(h) PROVE UnwrittenPlaces'
  BY <1>8 DEF HubClaim, HubStep, Sock
<1>9. ASSUME NEW h \in HubThreads, HubRetestOpen(h) PROVE UnwrittenPlaces'
  BY <1>9 DEF HubRetestOpen, HubStep, HubUnlock
<1>10. ASSUME NEW h \in HubThreads, HubRetestWriting(h) PROVE UnwrittenPlaces'
  BY <1>10 DEF HubRetestWriting, HubStep, HubUnlock
<1>11. ASSUME NEW h \in HubThreads, HubFrame(h) PROVE UnwrittenPlaces'
  BY <1>11 DEF HubFrame, HubStep
<1>12. ASSUME NEW h \in HubThreads, HubStart(h) PROVE UnwrittenPlaces'
  BY <1>12 DEF HubStart, HubStep, HubUnlock, StartFrame
<1>13. ASSUME NEW h \in HubThreads, HubRelease(h) PROVE UnwrittenPlaces'
  BY <1>13 DEF HubRelease, HubStep, WriteOk, Sock
<1>14. ASSUME NEW h \in HubThreads, HubCallback(h) PROVE UnwrittenPlaces'
  BY <1>14 DEF HubCallback, HubStep, HubUnlock, Report
<1>15. ASSUME NEW h \in HubThreads, RouterEnd(h) PROVE UnwrittenPlaces'
  BY <1>15 DEF RouterEnd
<1>16. ASSUME NEW h \in HubThreads, RouterWake(h) PROVE UnwrittenPlaces'
  BY <1>16 DEF RouterWake, Add
<1>17. ASSUME NEW s \in Sockets, IoFrame(s) PROVE UnwrittenPlaces'
  BY <1>17 DEF IoFrame, IoStep
<1>18. ASSUME NEW s \in Sockets, IoStart(s) PROVE UnwrittenPlaces'
  BY <1>18 DEF IoStart, IoStep, StartFrame, IoIdle
<1>19. ASSUME NEW s \in Sockets, IoRelease(s) PROVE UnwrittenPlaces'
  BY <1>19 DEF IoRelease, IoStep, WriteOk
<1>20. ASSUME NEW s \in Sockets, IoCallback(s) PROVE UnwrittenPlaces'
  BY <1>20 DEF IoCallback, IoStep, Report, AfterCallback, IoIdle
<1>21. ASSUME NEW s \in Sockets, IoFailed(s) PROVE UnwrittenPlaces'
  BY <1>21 DEF IoFailed, IoStep, Report, AfterCallback, IoIdle
<1>22. ASSUME NEW s \in Sockets, IoTestClose(s) PROVE UnwrittenPlaces'
  BY <1>22 DEF IoTestClose, IoStep, AfterClose
<1>23. ASSUME NEW s \in Sockets, IoClearOpen(s) PROVE UnwrittenPlaces'
  BY <1>23 DEF IoClearOpen, IoStep, ClearOpen
<1>24. ASSUME NEW s \in Sockets, IoClearWriting(s) PROVE UnwrittenPlaces'
  BY <1>24 DEF IoClearWriting, IoStep, ClearWriting, AfterClose
<1>25. ASSUME NEW s \in Sockets, IoReply(s) PROVE UnwrittenPlaces'
  BY <1>25 DEF IoReply, Add, IoStep, IoIdle
<1>26. ASSUME NEW s \in Sockets, IoTimeout(s) PROVE UnwrittenPlaces'
  BY <1>26 DEF IoTimeout, IoStep
<1>27. ASSUME NEW s \in Sockets, IoPeerClose(s) PROVE UnwrittenPlaces'
  BY <1>27 DEF IoPeerClose, IoStep
<1>28. ASSUME NEW s \in Sockets, Expire(s) PROVE UnwrittenPlaces'
  BY <1>28 DEF Expire
<1>29. ASSUME NEW s \in Sockets, NEW m \in Messages, IoComplete(s, m) PROVE UnwrittenPlaces'
  BY <1>29 DEF IoComplete, IoStep
<1>30. ASSUME NEW u \in Users, NEW s \in Sockets, UserClose(u, s) PROVE UnwrittenPlaces'
  BY <1>30 DEF UserClose, UserStep
<1>31. ASSUME NEW u \in Users, UserClearOpen(u) PROVE UnwrittenPlaces'
  BY <1>31 DEF UserClearOpen, UserStep, ClearOpen
<1>32. ASSUME NEW u \in Users, UserClearWriting(u) PROVE UnwrittenPlaces'
  BY <1>32 DEF UserClearWriting, UserStep, ClearWriting
<1>33. CASE UNCHANGED vars
  BY <1>33 DEF vars
<1> QED
  BY <1>1, <1>2, <1>3, <1>4, <1>5, <1>6, <1>7, <1>8, <1>9, <1>10, <1>11, <1>12, <1>13, <1>14, <1>15, <1>16, <1>17, <1>18, <1>19, <1>20, <1>21, <1>22, <1>23, <1>24, <1>25, <1>26, <1>27, <1>28, <1>29, <1>30, <1>31, <1>32, <1>33
     DEF Next, HubNext, IoNext, IoContinue, UserContinue

LEMMA HubPlacesStep == Control /\ Places /\ [Next]_vars => HubPlaces'
<1> SUFFICES ASSUME Control, Places, [Next]_vars PROVE HubPlaces'
  OBVIOUS
<1> USE DEF Control, TypeOK, HubControl, IoControl, Places, UnwrittenPlaces, ListPlaces, HubPlaces, IoPlaces, WirePlaces, Untouched, AtHub, AtIo
<1>1. ASSUME NEW m \in Messages, Write(m) PROVE HubPlaces'
  BY <1>1 DEF Write, Add
<1>2. ASSUME NEW m \in Messages, TransportOk(m) PROVE HubPlaces'
  BY <1>2 DEF TransportOk
<1>3. ASSUME NEW m \in Messages, TransportError(m) PROVE HubPlaces'
  BY <1>3 DEF TransportError
<1>4. ASSUME NEW h \in HubThreads, HubPop(h) PROVE HubPlaces'
  BY <1>4 DEF HubPop, HubStep
<1>5. ASSUME NEW h \in HubThreads, HubEnd(h) PROVE HubPlaces'
  BY <1>5 DEF HubEnd, HubStep
<1>6. ASSUME NEW h \in HubThreads, HubTestOpen(h) PROVE HubPlaces'
  BY <1>6 DEF HubTestOpen, HubStep
<1>7. ASSUME NEW h \in HubThreads, HubTestWriting(h) PROVE HubPlaces'
  BY <1>7 DEF HubTestWriting, HubStep
<1>8. ASSUME NEW h \in HubThreads, HubClaim(h) PROVE HubPlaces'
  BY <1>8 DEF HubClaim, HubStep, Sock
<1>9. ASSUME NEW h \in HubThreads, HubRetestOpen(h) PROVE HubPlaces'
  BY <1>9 DEF HubRetestOpen, HubStep, HubUnlock
<1>10. ASSUME NEW h \in HubThreads, HubRetestWriting(h) PROVE HubPlaces'
  BY <1>10 DEF HubRetestWriting, HubStep, HubUnlock
<1>11. ASSUME NEW h \in HubThreads, HubFrame(h) PROVE HubPlaces'
  BY <1>11 DEF HubFrame, HubStep
<1>12. ASSUME NEW h \in HubThreads, HubStart(h) PROVE HubPlaces'
  BY <1>12 DEF HubStart, HubStep, HubUnlock, StartFrame
<1>13. ASSUME NEW h \in HubThreads, HubRelease(h) PROVE HubPlaces'
  BY <1>13 DEF HubRelease, HubStep, WriteOk, Sock
<1>14. ASSUME NEW h \in HubThreads, HubCallback(h) PROVE HubPlaces'
  BY <1>14 DEF HubCallback, HubStep, HubUnlock, Report
<1>15. ASSUME NEW h \in HubThreads, RouterEnd(h) PROVE HubPlaces'
  BY <1>15 DEF RouterEnd
<1>16. ASSUME NEW h \in HubThreads, RouterWake(h) PROVE HubPlaces'
  BY <1>16 DEF RouterWake, Add
<1>17. ASSUME NEW s \in Sockets, IoFrame(s) PROVE HubPlaces'
  BY <1>17 DEF IoFrame, IoStep
<1>18. ASSUME NEW s \in Sockets, IoStart(s) PROVE HubPlaces'
  BY <1>18 DEF IoStart, IoStep, StartFrame, IoIdle
<1>19. ASSUME NEW s \in Sockets, IoRelease(s) PROVE HubPlaces'
  BY <1>19 DEF IoRelease, IoStep, WriteOk
<1>20. ASSUME NEW s \in Sockets, IoCallback(s) PROVE HubPlaces'
  <2> DEFINE c == ioMsg[s]
  <2>1. c \in Messages /\ AtIo(s, c)
    BY <1>20 DEF IoCallback
  <2>2. result' = [result EXCEPT ![c] = "true"]
    BY <1>20 DEF IoCallback, Report
  <2>3. UNCHANGED <<list, written, chainVars, hubPc, hubMsg>>
    BY <1>20 DEF IoCallback
  <2>4. \A t \in Sockets, m \in Messages : AtIo(t, m)' => AtIo(t, m) /\ m # c
    BY <1>20 DEF IoCallback, AfterCallback, IoStep, IoIdle
  <2>5. \A g \in HubThreads : ~AtHub(g, c)
    BY <2>1
  <2> HIDE DEF c
  <2>6. ASSUME NEW m \in Messages, NEW g \in HubThreads, AtHub(g, m)'
        PROVE  m \in written' /\ Untouched(m)' /\ \A t \in Sockets : ~AtIo(t, m)'
    <3>1. AtHub(g, m) /\ m # c
      BY <2>3, <2>5, <2>6
    <3>2. m \in written /\ Untouched(m) /\ \A t \in Sockets : ~AtIo(t, m)
      BY <3>1
    <3>3. result'[m] = result[m]
      BY <2>2, <3>1
    <3>4. \A t \in Sockets : ~AtIo(t, m)'
      BY <2>4, <3>2
    <3> QED
      BY <2>3, <3>2, <3>3, <3>4
  <2> QED
    BY <2>6
<1>21. ASSUME NEW s \in Sockets, IoFailed(s) PROVE HubPlaces'
  <2> DEFINE c == ioMsg[s]
  <2>1. c \in Messages /\ AtIo(s, c)
    BY <1>21 DEF IoFailed
  <2>2. result' = [result EXCEPT ![c] = "false"]
    BY <1>21 DEF IoFailed, Report
  <2>3. UNCHANGED <<list, written, chainVars, hubPc, hubMsg>>
    BY <1>21 DEF IoFailed
  <2>4. \A t \in Sockets, m \in Messages : AtIo(t, m)' => AtIo(t, m) /\ m # c
    BY <1>21 DEF IoFailed, AfterCallback, IoStep, IoIdle
  <2>5. \A g \in HubThreads : ~AtHub(g, c)
    BY <2>1
  <2> HIDE DEF c
  <2>6. ASSUME NEW m \in Messages, NEW g \in HubThreads, AtHub(g, m)'
        PROVE  m \in written' /\ Untouched(m)' /\ \A t \in Sockets : ~AtIo(t, m)'
    <3>1. AtHub(g, m) /\ m # c
      BY <2>3, <2>5, <2>6
    <3>2. m \in written /\ Untouched(m) /\ \A t \in Sockets : ~AtIo(t, m)
      BY <3>1
    <3>3. result'[m] = result[m]
      BY <2>2, <3>1
    <3>4. \A t \in Sockets : ~AtIo(t, m)'
      BY <2>4, <3>2
    <3> QED
      BY <2>3, <3>2, <3>3, <3>4
  <2> QED
    BY <2>6
<1>22. ASSUME NEW s \in Sockets, IoTestClose(s) PROVE HubPlaces'
  BY <1>22 DEF IoTestClose, IoStep, AfterClose
<1>23. ASSUME NEW s \in Sockets, IoClearOpen(s) PROVE HubPlaces'
  BY <1>23 DEF IoClearOpen, IoStep, ClearOpen
<1>24. ASSUME NEW s \in Sockets, IoClearWriting(s) PROVE HubPlaces'
  BY <1>24 DEF IoClearWriting, IoStep, ClearWriting, AfterClose
<1>25. ASSUME NEW s \in Sockets, IoReply(s) PROVE HubPlaces'
  BY <1>25 DEF IoReply, Add, IoStep, IoIdle
<1>26. ASSUME NEW s \in Sockets, IoTimeout(s) PROVE HubPlaces'
  BY <1>26 DEF IoTimeout, IoStep
<1>27. ASSUME NEW s \in Sockets, IoPeerClose(s) PROVE HubPlaces'
  BY <1>27 DEF IoPeerClose, IoStep
<1>28. ASSUME NEW s \in Sockets, Expire(s) PROVE HubPlaces'
  BY <1>28 DEF Expire
<1>29. ASSUME NEW s \in Sockets, NEW m \in Messages, IoComplete(s, m) PROVE HubPlaces'
  BY <1>29 DEF IoComplete, IoStep
<1>30. ASSUME NEW u \in Users, NEW s \in Sockets, UserClose(u, s) PROVE HubPlaces'
  BY <1>30 DEF UserClose, UserStep
<1>31. ASSUME NEW u \in Users, UserClearOpen(u) PROVE HubPlaces'
  BY <1>31 DEF UserClearOpen, UserStep, ClearOpen
<1>32. ASSUME NEW u \in Users, UserClearWriting(u) PROVE HubPlaces'
  BY <1>32 DEF UserClearWriting, UserStep, ClearWriting
<1>33. CASE UNCHANGED vars
  BY <1>33 DEF vars
<1> QED
  BY <1>1, <1>2, <1>3, <1>4, <1>5, <1>6, <1>7, <1>8, <1>9, <1>10, <1>11, <1>12, <1>13, <1>14, <1>15, <1>16, <1>17, <1>18, <1>19, <1>20, <1>21, <1>22, <1>23, <1>24, <1>25, <1>26, <1>27, <1>28, <1>29, <1>30, <1>31, <1>32, <1>33
     DEF Next, HubNext, IoNext, IoContinue, UserContinue

LEMMA IoPlacesStep == Control /\ Places /\ [Next]_vars => IoPlaces'
<1> SUFFICES ASSUME Control, Places, [Next]_vars PROVE IoPlaces'
  OBVIOUS
<1> USE DEF Control, TypeOK, HubControl, IoControl, Places, UnwrittenPlaces, ListPlaces, HubPlaces, IoPlaces, WirePlaces, Untouched, AtHub, AtIo
<1>1. ASSUME NEW m \in Messages, Write(m) PROVE IoPlaces'
  BY <1>1 DEF Write, Add
<1>2. ASSUME NEW m \in Messages, TransportOk(m) PROVE IoPlaces'
  BY <1>2 DEF TransportOk
<1>3. ASSUME NEW m \in Messages, TransportError(m) PROVE IoPlaces'
  BY <1>3 DEF TransportError
<1>4. ASSUME NEW h \in HubThreads, HubPop(h) PROVE IoPlaces'
  BY <1>4 DEF HubPop, HubStep
<1>5. ASSUME NEW h \in HubThreads, HubEnd(h) PROVE IoPlaces'
  BY <1>5 DEF HubEnd, HubStep
<1>6. ASSUME NEW h \in HubThreads, HubTestOpen(h) PROVE IoPlaces'
  BY <1>6 DEF HubTestOpen, HubStep
<1>7. ASSUME NEW h \in HubThreads, HubTestWriting(h) PROVE IoPlaces'
  BY <1>7 DEF HubTestWriting, HubStep
<1>8. ASSUME NEW h \in HubThreads, HubClaim(h) PROVE IoPlaces'
  BY <1>8 DEF HubClaim, HubStep, Sock
<1>9. ASSUME NEW h \in HubThreads, HubRetestOpen(h) PROVE IoPlaces'
  BY <1>9 DEF HubRetestOpen, HubStep, HubUnlock
<1>10. ASSUME NEW h \in HubThreads, HubRetestWriting(h) PROVE IoPlaces'
  BY <1>10 DEF HubRetestWriting, HubStep, HubUnlock
<1>11. ASSUME NEW h \in HubThreads, HubFrame(h) PROVE IoPlaces'
  BY <1>11 DEF HubFrame, HubStep
<1>12. ASSUME NEW h \in HubThreads, HubStart(h) PROVE IoPlaces'
  <2> DEFINE c == hubMsg[h]
  <2>1. c \in Messages /\ AtHub(h, c)
    BY <1>12 DEF HubStart, HubStep
  <2>2. /\ queue' = [queue EXCEPT ![c] = @ - 1]
        /\ net' = [net EXCEPT ![c] = "sent"]
    BY <1>12 DEF HubStart, StartFrame
  <2>3. UNCHANGED <<written, ioVars, result>>
    BY <1>12 DEF HubStart
  <2> HIDE DEF c
  <2> QED
    BY <2>1, <2>2, <2>3
<1>13. ASSUME NEW h \in HubThreads, HubRelease(h) PROVE IoPlaces'
  BY <1>13 DEF HubRelease, HubStep, WriteOk, Sock
<1>14. ASSUME NEW h \in HubThreads, HubCallback(h) PROVE IoPlaces'
  <2> DEFINE c == hubMsg[h]
  <2>1. c \in Messages /\ AtHub(h, c)
    BY <1>14 DEF HubCallback
  <2>2. result' = [result EXCEPT ![c] = "true"]
    BY <1>14 DEF HubCallback, Report
  <2>3. UNCHANGED <<list, written, chainVars, ioVars>>
    BY <1>14 DEF HubCallback
  <2>4. \A g \in HubThreads, m \in Messages : AtHub(g, m)' => AtHub(g, m) /\ m # c
    BY <1>14 DEF HubCallback, HubStep, HubUnlock
  <2> HIDE DEF c
  <2> QED
    BY <2>1, <2>2, <2>3, <2>4
<1>15. ASSUME NEW h \in HubThreads, RouterEnd(h) PROVE IoPlaces'
  BY <1>15 DEF RouterEnd
<1>16. ASSUME NEW h \in HubThreads, RouterWake(h) PROVE IoPlaces'
  BY <1>16 DEF RouterWake, Add
<1>17. ASSUME NEW s \in Sockets, IoFrame(s) PROVE IoPlaces'
  BY <1>17 DEF IoFrame, IoStep, NothingToWrite
<1>18. ASSUME NEW s \in Sockets, IoStart(s) PROVE IoPlaces'
  BY <1>18 DEF IoStart, IoStep, StartFrame, IoIdle
<1>19. ASSUME NEW s \in Sockets, IoRelease(s) PROVE IoPlaces'
  BY <1>19 DEF IoRelease, IoStep, WriteOk
<1>20. ASSUME NEW s \in Sockets, IoCallback(s) PROVE IoPlaces'
  BY <1>20 DEF IoCallback, IoStep, Report, AfterCallback, IoIdle
<1>21. ASSUME NEW s \in Sockets, IoFailed(s) PROVE IoPlaces'
  BY <1>21 DEF IoFailed, IoStep, Report, AfterCallback, IoIdle
<1>22. ASSUME NEW s \in Sockets, IoTestClose(s) PROVE IoPlaces'
  BY <1>22 DEF IoTestClose, IoStep, AfterClose
<1>23. ASSUME NEW s \in Sockets, IoClearOpen(s) PROVE IoPlaces'
  BY <1>23 DEF IoClearOpen, IoStep, ClearOpen
<1>24. ASSUME NEW s \in Sockets, IoClearWriting(s) PROVE IoPlaces'
  BY <1>24 DEF IoClearWriting, IoStep, ClearWriting, AfterClose
<1>25. ASSUME NEW s \in Sockets, IoReply(s) PROVE IoPlaces'
  BY <1>25 DEF IoReply, Add, IoStep, IoIdle
<1>26. ASSUME NEW s \in Sockets, IoTimeout(s) PROVE IoPlaces'
  BY <1>26 DEF IoTimeout, IoStep
<1>27. ASSUME NEW s \in Sockets, IoPeerClose(s) PROVE IoPlaces'
  BY <1>27 DEF IoPeerClose, IoStep
<1>28. ASSUME NEW s \in Sockets, Expire(s) PROVE IoPlaces'
  BY <1>28 DEF Expire
<1>29. ASSUME NEW s \in Sockets, NEW m \in Messages, IoComplete(s, m) PROVE IoPlaces'
  BY <1>29 DEF IoComplete, IoStep
<1>30. ASSUME NEW u \in Users, NEW s \in Sockets, UserClose(u, s) PROVE IoPlaces'
  BY <1>30 DEF UserClose, UserStep
<1>31. ASSUME NEW u \in Users, UserClearOpen(u) PROVE IoPlaces'
  BY <1>31 DEF UserClearOpen, UserStep, ClearOpen
<1>32. ASSUME NEW u \in Users, UserClearWriting(u) PROVE IoPlaces'
  BY <1>32 DEF UserClearWriting, UserStep, ClearWriting
<1>33. CASE UNCHANGED vars
  BY <1>33 DEF vars
<1> QED
  BY <1>1, <1>2, <1>3, <1>4, <1>5, <1>6, <1>7, <1>8, <1>9, <1>10, <1>11, <1>12, <1>13, <1>14, <1>15, <1>16, <1>17, <1>18, <1>19, <1>20, <1>21, <1>22, <1>23, <1>24, <1>25, <1>26, <1>27, <1>28, <1>29, <1>30, <1>31, <1>32, <1>33
     DEF Next, HubNext, IoNext, IoContinue, UserContinue

LEMMA WirePlacesStep == Control /\ Places /\ [Next]_vars => WirePlaces'
<1> SUFFICES ASSUME Control, Places, [Next]_vars PROVE WirePlaces'
  OBVIOUS
<1> USE DEF Control, TypeOK, HubControl, IoControl, Places, UnwrittenPlaces, ListPlaces, HubPlaces, IoPlaces, WirePlaces, Untouched, AtHub, AtIo
<1>1. ASSUME NEW m \in Messages, Write(m) PROVE WirePlaces'
  BY <1>1 DEF Write, Add
<1>2. ASSUME NEW m \in Messages, TransportOk(m) PROVE WirePlaces'
  BY <1>2 DEF TransportOk
<1>3. ASSUME NEW m \in Messages, TransportError(m) PROVE WirePlaces'
  BY <1>3 DEF TransportError
<1>4. ASSUME NEW h \in HubThreads, HubPop(h) PROVE WirePlaces'
  BY <1>4 DEF HubPop, HubStep
<1>5. ASSUME NEW h \in HubThreads, HubEnd(h) PROVE WirePlaces'
  BY <1>5 DEF HubEnd, HubStep
<1>6. ASSUME NEW h \in HubThreads, HubTestOpen(h) PROVE WirePlaces'
  BY <1>6 DEF HubTestOpen, HubStep
<1>7. ASSUME NEW h \in HubThreads, HubTestWriting(h) PROVE WirePlaces'
  BY <1>7 DEF HubTestWriting, HubStep
<1>8. ASSUME NEW h \in HubThreads, HubClaim(h) PROVE WirePlaces'
  BY <1>8 DEF HubClaim, HubStep, Sock
<1>9. ASSUME NEW h \in HubThreads, HubRetestOpen(h) PROVE WirePlaces'
  BY <1>9 DEF HubRetestOpen, HubStep, HubUnlock
<1>10. ASSUME NEW h \in HubThreads, HubRetestWriting(h) PROVE WirePlaces'
  BY <1>10 DEF HubRetestWriting, HubStep, HubUnlock
<1>11. ASSUME NEW h \in HubThreads, HubFrame(h) PROVE WirePlaces'
  BY <1>11 DEF HubFrame, HubStep
<1>12. ASSUME NEW h \in HubThreads, HubStart(h) PROVE WirePlaces'
  BY <1>12 DEF HubStart, HubStep, HubUnlock, StartFrame
<1>13. ASSUME NEW h \in HubThreads, HubRelease(h) PROVE WirePlaces'
  BY <1>13 DEF HubRelease, HubStep, WriteOk, Sock
<1>14. ASSUME NEW h \in HubThreads, HubCallback(h) PROVE WirePlaces'
  BY <1>14 DEF HubCallback, HubStep, HubUnlock, Report
<1>15. ASSUME NEW h \in HubThreads, RouterEnd(h) PROVE WirePlaces'
  BY <1>15 DEF RouterEnd
<1>16. ASSUME NEW h \in HubThreads, RouterWake(h) PROVE WirePlaces'
  BY <1>16 DEF RouterWake, Add
<1>17. ASSUME NEW s \in Sockets, IoFrame(s) PROVE WirePlaces'
  BY <1>17 DEF IoFrame, IoStep
<1>18. ASSUME NEW s \in Sockets, IoStart(s) PROVE WirePlaces'
  BY <1>18 DEF IoStart, IoStep, StartFrame, IoIdle
<1>19. ASSUME NEW s \in Sockets, IoRelease(s) PROVE WirePlaces'
  BY <1>19 DEF IoRelease, IoStep, WriteOk
<1>20. ASSUME NEW s \in Sockets, IoCallback(s) PROVE WirePlaces'
  BY <1>20 DEF IoCallback, IoStep, Report, AfterCallback, IoIdle
<1>21. ASSUME NEW s \in Sockets, IoFailed(s) PROVE WirePlaces'
  BY <1>21 DEF IoFailed, IoStep, Report, AfterCallback, IoIdle
<1>22. ASSUME NEW s \in Sockets, IoTestClose(s) PROVE WirePlaces'
  BY <1>22 DEF IoTestClose, IoStep, AfterClose
<1>23. ASSUME NEW s \in Sockets, IoClearOpen(s) PROVE WirePlaces'
  BY <1>23 DEF IoClearOpen, IoStep, ClearOpen
<1>24. ASSUME NEW s \in Sockets, IoClearWriting(s) PROVE WirePlaces'
  BY <1>24 DEF IoClearWriting, IoStep, ClearWriting, AfterClose
<1>25. ASSUME NEW s \in Sockets, IoReply(s) PROVE WirePlaces'
  BY <1>25 DEF IoReply, Add, IoStep, IoIdle
<1>26. ASSUME NEW s \in Sockets, IoTimeout(s) PROVE WirePlaces'
  BY <1>26 DEF IoTimeout, IoStep
<1>27. ASSUME NEW s \in Sockets, IoPeerClose(s) PROVE WirePlaces'
  BY <1>27 DEF IoPeerClose, IoStep
<1>28. ASSUME NEW s \in Sockets, Expire(s) PROVE WirePlaces'
  BY <1>28 DEF Expire
<1>29. ASSUME NEW s \in Sockets, NEW m \in Messages, IoComplete(s, m) PROVE WirePlaces'
  BY <1>29 DEF IoComplete, IoStep
<1>30. ASSUME NEW u \in Users, NEW s \in Sockets, UserClose(u, s) PROVE WirePlaces'
  BY <1>30 DEF UserClose, UserStep
<1>31. ASSUME NEW u \in Users, UserClearOpen(u) PROVE WirePlaces'
  BY <1>31 DEF UserClearOpen, UserStep, ClearOpen
<1>32. ASSUME NEW u \in Users, UserClearWriting(u) PROVE WirePlaces'
  BY <1>32 DEF UserClearWriting, UserStep, ClearWriting
<1>33. CASE UNCHANGED vars
  BY <1>33 DEF vars
<1> QED
  BY <1>1, <1>2, <1>3, <1>4, <1>5, <1>6, <1>7, <1>8, <1>9, <1>10, <1>11, <1>12, <1>13, <1>14, <1>15, <1>16, <1>17, <1>18, <1>19, <1>20, <1>21, <1>22, <1>23, <1>24, <1>25, <1>26, <1>27, <1>28, <1>29, <1>30, <1>31, <1>32, <1>33
     DEF Next, HubNext, IoNext, IoContinue, UserContinue

LEMMA ListPlacesStep == Control /\ Places /\ [Next]_vars => ListPlaces'
<1> SUFFICES ASSUME Control, Places, [Next]_vars PROVE ListPlaces'
  OBVIOUS
<1> USE DEF Control, TypeOK, HubControl, IoControl, Places, UnwrittenPlaces, ListPlaces, HubPlaces, IoPlaces, WirePlaces, Untouched, AtHub, AtIo
<1>1. ASSUME NEW m \in Messages, Write(m) PROVE ListPlaces'
  BY <1>1 DEF Write, Add
<1>2. ASSUME NEW m \in Messages, TransportOk(m) PROVE ListPlaces'
  BY <1>2 DEF TransportOk
<1>3. ASSUME NEW m \in Messages, TransportError(m) PROVE ListPlaces'
  BY <1>3 DEF TransportError
<1>4. ASSUME NEW h \in HubThreads, HubPop(h) PROVE ListPlaces'
  BY <1>4 DEF HubPop, HubStep
<1>5. ASSUME NEW h \in HubThreads, HubEnd(h) PROVE ListPlaces'
  BY <1>5 DEF HubEnd, HubStep
<1>6. ASSUME NEW h \in HubThreads, HubTestOpen(h) PROVE ListPlaces'
  BY <1>6 DEF HubTestOpen, HubStep
<1>7. ASSUME NEW h \in HubThreads, HubTestWriting(h) PROVE ListPlaces'
  BY <1>7 DEF HubTestWriting, HubStep
<1>8. ASSUME NEW h \in HubThreads, HubClaim(h) PROVE ListPlaces'
  BY <1>8 DEF HubClaim, HubStep, Sock
<1>9. ASSUME NEW h \in HubThreads, HubRetestOpen(h) PROVE ListPlaces'
  BY <1>9 DEF HubRetestOpen, HubStep, HubUnlock
<1>10. ASSUME NEW h \in HubThreads, HubRetestWriting(h) PROVE ListPlaces'
  BY <1>10 DEF HubRetestWriting, HubStep, HubUnlock
<1>11. ASSUME NEW h \in HubThreads, HubFrame(h) PROVE ListPlaces'
  BY <1>11 DEF HubFrame, HubStep
<1>12. ASSUME NEW h \in HubThreads, HubStart(h) PROVE ListPlaces'
  BY <1>12 DEF HubStart, HubStep, HubUnlock, StartFrame
<1>13. ASSUME NEW h \in HubThreads, HubRelease(h) PROVE ListPlaces'
  BY <1>13 DEF HubRelease, HubStep, WriteOk, Sock
<1>14. ASSUME NEW h \in HubThreads, HubCallback(h) PROVE ListPlaces'
  <2> DEFINE c == hubMsg[h]
  <2>1. c \in Messages /\ AtHub(h, c)
    BY <1>14 DEF HubCallback
  <2>2. result' = [result EXCEPT ![c] = "true"]
    BY <1>14 DEF HubCallback, Report
  <2>3. UNCHANGED <<list, written, chainVars, ioVars>>
    BY <1>14 DEF HubCallback
  <2>4. \A g \in HubThreads, m \in Messages : AtHub(g, m)' => AtHub(g, m) /\ m # c
    BY <1>14 DEF HubCallback, HubStep, HubUnlock
  <2> HIDE DEF c
  <2> QED
    BY <2>1, <2>2, <2>3, <2>4
<1>15. ASSUME NEW h \in HubThreads, RouterEnd(h) PROVE ListPlaces'
  BY <1>15 DEF RouterEnd
<1>16. ASSUME NEW h \in HubThreads, RouterWake(h) PROVE ListPlaces'
  BY <1>16 DEF RouterWake, Add
<1>17. ASSUME NEW s \in Sockets, IoFrame(s) PROVE ListPlaces'
  BY <1>17 DEF IoFrame, IoStep
<1>18. ASSUME NEW s \in Sockets, IoStart(s) PROVE ListPlaces'
  BY <1>18 DEF IoStart, IoStep, StartFrame, IoIdle
<1>19. ASSUME NEW s \in Sockets, IoRelease(s) PROVE ListPlaces'
  BY <1>19 DEF IoRelease, IoStep, WriteOk
<1>20. ASSUME NEW s \in Sockets, IoCallback(s) PROVE ListPlaces'
  <2> DEFINE c == ioMsg[s]
  <2>1. c \in Messages /\ AtIo(s, c)
    BY <1>20 DEF IoCallback
  <2>2. result' = [result EXCEPT ![c] = "true"]
    BY <1>20 DEF IoCallback, Report
  <2>3. UNCHANGED <<list, written, chainVars, hubPc, hubMsg>>
    BY <1>20 DEF IoCallback
  <2>4. \A t \in Sockets, m \in Messages : AtIo(t, m)' => AtIo(t, m) /\ m # c
    BY <1>20 DEF IoCallback, AfterCallback, IoStep, IoIdle
  <2>5. \A g \in HubThreads : ~AtHub(g, c)
    BY <2>1
  <2> HIDE DEF c
  <2> QED
    BY <2>1, <2>2, <2>3, <2>4, <2>5
<1>21. ASSUME NEW s \in Sockets, IoFailed(s) PROVE ListPlaces'
  <2> DEFINE c == ioMsg[s]
  <2>1. c \in Messages /\ AtIo(s, c)
    BY <1>21 DEF IoFailed
  <2>2. result' = [result EXCEPT ![c] = "false"]
    BY <1>21 DEF IoFailed, Report
  <2>3. UNCHANGED <<list, written, chainVars, hubPc, hubMsg>>
    BY <1>21 DEF IoFailed
  <2>4. \A t \in Sockets, m \in Messages : AtIo(t, m)' => AtIo(t, m) /\ m # c
    BY <1>21 DEF IoFailed, AfterCallback, IoStep, IoIdle
  <2>5. \A g \in HubThreads : ~AtHub(g, c)
    BY <2>1
  <2> HIDE DEF c
  <2> QED
    BY <2>1, <2>2, <2>3, <2>4, <2>5
<1>22. ASSUME NEW s \in Sockets, IoTestClose(s) PROVE ListPlaces'
  BY <1>22 DEF IoTestClose, IoStep, AfterClose
<1>23. ASSUME NEW s \in Sockets, IoClearOpen(s) PROVE ListPlaces'
  BY <1>23 DEF IoClearOpen, IoStep, ClearOpen
<1>24. ASSUME NEW s \in Sockets, IoClearWriting(s) PROVE ListPlaces'
  BY <1>24 DEF IoClearWriting, IoStep, ClearWriting, AfterClose
<1>25. ASSUME NEW s \in Sockets, IoReply(s) PROVE ListPlaces'
  <2> DEFINE r == ReplyOf[ioMsg[s]]
  <2>1. r \in Messages
    BY <1>25 DEF IoReply, IoStep
  <2>2. UNCHANGED <<hubPc, hubMsg, chainVars, result>>
    BY <1>25 DEF IoReply
  <2>3. \A t \in Sockets, m \in Messages : AtIo(t, m)' => AtIo(t, m)
    BY <1>25 DEF IoReply, IoStep, IoIdle
  <2>4. CASE r \in written
    BY <1>25, <2>2, <2>3, <2>4 DEF IoReply
  <2>5. CASE r \notin written
    <3>1. list' = Append(list, r) /\ written' = written \cup {r}
      BY <1>25, <2>5 DEF IoReply, Add
    <3>2. /\ Untouched(r)
          /\ \A g \in HubThreads : ~AtHub(g, r)
          /\ \A t \in Sockets : ~AtIo(t, r)
          /\ \A i \in 1 .. Len(list) : list[i] # r
      BY <2>1, <2>5
    <3> HIDE DEF r
    <3> QED
      BY <2>1, <2>2, <2>3, <3>1, <3>2, AppendProperties
  <2> QED
    BY <2>4, <2>5
<1>26. ASSUME NEW s \in Sockets, IoTimeout(s) PROVE ListPlaces'
  BY <1>26 DEF IoTimeout, IoStep
<1>27. ASSUME NEW s \in Sockets, IoPeerClose(s) PROVE ListPlaces'
  BY <1>27 DEF IoPeerClose, IoStep
<1>28. ASSUME NEW s \in Sockets, Expire(s) PROVE ListPlaces'
  BY <1>28 DEF Expire
<1>29. ASSUME NEW s \in Sockets, NEW m \in Messages, IoComplete(s, m) PROVE ListPlaces'
  BY <1>29 DEF IoComplete, IoStep
<1>30. ASSUME NEW u \in Users, NEW s \in Sockets, UserClose(u, s) PROVE ListPlaces'
  BY <1>30 DEF UserClose, UserStep
<1>31. ASSUME NEW u \in Users, UserClearOpen(u) PROVE ListPlaces'
  BY <1>31 DEF UserClearOpen, UserStep, ClearOpen
<1>32. ASSUME NEW u \in Users, UserClearWriting(u) PROVE ListPlaces'
  BY <1>32 DEF UserClearWriting, UserStep, ClearWriting
<1>33. CASE UNCHANGED vars
  BY <1>33 DEF vars
<1> QED
  BY <1>1, <1>2, <1>3, <1>4, <1>5, <1>6, <1>7, <1>8, <1>9, <1>10, <1>11, <1>12, <1>13, <1>14, <1>15, <1>16, <1>17, <1>18, <1>19, <1>20, <1>21, <1>22, <1>23, <1>24, <1>25, <1>26, <1>27, <1>28, <1>29, <1>30, <1>31, <1>32, <1>33
     DEF Next, HubNext, IoNext, IoContinue, UserContinue

\* A message becomes busy only when a hub thread finds its websocket open.
Becomes(m) ==
    \E h \in HubThreads : HubFrame(h) /\ hubMsg[h] = m /\ open[SocketOf[m]]

LEMMA BusyStep ==
    ASSUME Control, Places, [Next]_vars, NEW x \in Messages, Busy(x)'
    PROVE  Busy(x) \/ Becomes(x)
<1> USE DEF Control, TypeOK, HubControl, IoControl, Places, HubPlaces, IoPlaces, WirePlaces, Untouched, AtHub, AtIo, Busy, Transmitting
<1>1. ASSUME NEW m \in Messages, Write(m) PROVE Busy(x) \/ Becomes(x)
  BY <1>1 DEF Write, Add
<1>2. ASSUME NEW m \in Messages, TransportOk(m) PROVE Busy(x) \/ Becomes(x)
  BY <1>2 DEF TransportOk
<1>3. ASSUME NEW m \in Messages, TransportError(m) PROVE Busy(x) \/ Becomes(x)
  BY <1>3 DEF TransportError
<1>4. ASSUME NEW h \in HubThreads, HubPop(h) PROVE Busy(x) \/ Becomes(x)
  BY <1>4 DEF HubPop, HubStep
<1>5. ASSUME NEW h \in HubThreads, HubEnd(h) PROVE Busy(x) \/ Becomes(x)
  BY <1>5 DEF HubEnd, HubStep
<1>6. ASSUME NEW h \in HubThreads, HubTestOpen(h) PROVE Busy(x) \/ Becomes(x)
  BY <1>6 DEF HubTestOpen, HubStep
<1>7. ASSUME NEW h \in HubThreads, HubTestWriting(h) PROVE Busy(x) \/ Becomes(x)
  BY <1>7 DEF HubTestWriting, HubStep
<1>8. ASSUME NEW h \in HubThreads, HubClaim(h) PROVE Busy(x) \/ Becomes(x)
  BY <1>8 DEF HubClaim, HubStep, Sock
<1>9. ASSUME NEW h \in HubThreads, HubRetestOpen(h) PROVE Busy(x) \/ Becomes(x)
  BY <1>9 DEF HubRetestOpen, HubStep, HubUnlock
<1>10. ASSUME NEW h \in HubThreads, HubRetestWriting(h) PROVE Busy(x) \/ Becomes(x)
  BY <1>10 DEF HubRetestWriting, HubStep, HubUnlock
<1>11. ASSUME NEW h \in HubThreads, HubFrame(h) PROVE Busy(x) \/ Becomes(x)
  BY ZenonT(60), <1>11 DEF HubFrame, HubStep, NothingToWrite, Becomes
<1>12. ASSUME NEW h \in HubThreads, HubStart(h) PROVE Busy(x) \/ Becomes(x)
  BY <1>12 DEF HubStart, HubStep, HubUnlock, StartFrame
<1>13. ASSUME NEW h \in HubThreads, HubRelease(h) PROVE Busy(x) \/ Becomes(x)
  BY <1>13 DEF HubRelease, HubStep, WriteOk, Sock
<1>14. ASSUME NEW h \in HubThreads, HubCallback(h) PROVE Busy(x) \/ Becomes(x)
  BY <1>14 DEF HubCallback, HubStep, HubUnlock, Report
<1>15. ASSUME NEW h \in HubThreads, RouterEnd(h) PROVE Busy(x) \/ Becomes(x)
  BY <1>15 DEF RouterEnd
<1>16. ASSUME NEW h \in HubThreads, RouterWake(h) PROVE Busy(x) \/ Becomes(x)
  BY <1>16 DEF RouterWake, Add
<1>17. ASSUME NEW s \in Sockets, IoFrame(s) PROVE Busy(x) \/ Becomes(x)
  BY <1>17 DEF IoFrame, IoStep, NothingToWrite
<1>18. ASSUME NEW s \in Sockets, IoStart(s) PROVE Busy(x) \/ Becomes(x)
  BY <1>18 DEF IoStart, IoStep, StartFrame, IoIdle
<1>19. ASSUME NEW s \in Sockets, IoRelease(s) PROVE Busy(x) \/ Becomes(x)
  BY <1>19 DEF IoRelease, IoStep, WriteOk
<1>20. ASSUME NEW s \in Sockets, IoCallback(s) PROVE Busy(x) \/ Becomes(x)
  BY <1>20 DEF IoCallback, IoStep, Report, AfterCallback, IoIdle
<1>21. ASSUME NEW s \in Sockets, IoFailed(s) PROVE Busy(x) \/ Becomes(x)
  BY <1>21 DEF IoFailed, IoStep, Report, AfterCallback, IoIdle
<1>22. ASSUME NEW s \in Sockets, IoTestClose(s) PROVE Busy(x) \/ Becomes(x)
  BY <1>22 DEF IoTestClose, IoStep, AfterClose
<1>23. ASSUME NEW s \in Sockets, IoClearOpen(s) PROVE Busy(x) \/ Becomes(x)
  BY <1>23 DEF IoClearOpen, IoStep, ClearOpen
<1>24. ASSUME NEW s \in Sockets, IoClearWriting(s) PROVE Busy(x) \/ Becomes(x)
  BY <1>24 DEF IoClearWriting, IoStep, ClearWriting, AfterClose
<1>25. ASSUME NEW s \in Sockets, IoReply(s) PROVE Busy(x) \/ Becomes(x)
  BY <1>25 DEF IoReply, Add, IoStep, IoIdle
<1>26. ASSUME NEW s \in Sockets, IoTimeout(s) PROVE Busy(x) \/ Becomes(x)
  BY <1>26 DEF IoTimeout, IoStep
<1>27. ASSUME NEW s \in Sockets, IoPeerClose(s) PROVE Busy(x) \/ Becomes(x)
  BY <1>27 DEF IoPeerClose, IoStep
<1>28. ASSUME NEW s \in Sockets, Expire(s) PROVE Busy(x) \/ Becomes(x)
  BY <1>28 DEF Expire
<1>29. ASSUME NEW s \in Sockets, NEW m \in Messages, IoComplete(s, m) PROVE Busy(x) \/ Becomes(x)
  BY <1>29 DEF IoComplete, IoStep
<1>30. ASSUME NEW u \in Users, NEW s \in Sockets, UserClose(u, s) PROVE Busy(x) \/ Becomes(x)
  BY <1>30 DEF UserClose, UserStep
<1>31. ASSUME NEW u \in Users, UserClearOpen(u) PROVE Busy(x) \/ Becomes(x)
  BY <1>31 DEF UserClearOpen, UserStep, ClearOpen
<1>32. ASSUME NEW u \in Users, UserClearWriting(u) PROVE Busy(x) \/ Becomes(x)
  BY <1>32 DEF UserClearWriting, UserStep, ClearWriting
<1>33. CASE UNCHANGED vars
  BY <1>33 DEF vars
<1> QED
  BY <1>1, <1>2, <1>3, <1>4, <1>5, <1>6, <1>7, <1>8, <1>9, <1>10, <1>11, <1>12, <1>13, <1>14, <1>15, <1>16, <1>17, <1>18, <1>19, <1>20, <1>21, <1>22, <1>23, <1>24, <1>25, <1>26, <1>27, <1>28, <1>29, <1>30, <1>31, <1>32, <1>33
     DEF Next, HubNext, IoNext, IoContinue, UserContinue


LEMMA AloneStep == IInv /\ [Next]_vars => Alone'
<1> SUFFICES ASSUME IInv, [Next]_vars,
                    NEW m \in Messages, NEW n \in Messages, m # n,
                    SocketOf[m] = SocketOf[n], Busy(m)', Busy(n)'
             PROVE  FALSE
  BY DEF Alone
<1>1. /\ Busy(m) \/ Becomes(m)
      /\ Busy(n) \/ Becomes(n)
  BY BusyStep DEF IInv
<1>2. ASSUME NEW p \in Messages, NEW q \in Messages, SocketOf[p] = SocketOf[q],
             Becomes(p)
      PROVE  ~Busy(q)
  BY <1>2 DEF Becomes, HubFrame, HubStep, Sock, IInv, Exclusion, ClaimFree
<1>3. ~(Becomes(m) /\ Becomes(n))
  BY DEF Becomes, HubFrame, HubStep, IInv, Control, HubControl
<1> QED
  BY <1>1, <1>2, <1>3 DEF IInv, Exclusion, Alone

\* What the other parts need of a step: a websocket does not open again, and
\* a message of an open websocket that becomes busy was free to be claimed.
LEMMA OpenStep == IInv /\ [Next]_vars => \A s \in Sockets : open'[s] => open[s]
<1> SUFFICES ASSUME IInv, [Next]_vars PROVE \A s \in Sockets : open'[s] => open[s]
  OBVIOUS
<1> USE DEF IInv, Control, TypeOK
<1>1. ASSUME NEW m \in Messages, Write(m) PROVE \A z \in Sockets : open'[z] => open[z]
  BY <1>1 DEF Write
<1>2. ASSUME NEW m \in Messages, TransportOk(m) PROVE \A z \in Sockets : open'[z] => open[z]
  BY <1>2 DEF TransportOk
<1>3. ASSUME NEW m \in Messages, TransportError(m) PROVE \A z \in Sockets : open'[z] => open[z]
  BY <1>3 DEF TransportError
<1>4. ASSUME NEW h \in HubThreads, HubPop(h) PROVE \A z \in Sockets : open'[z] => open[z]
  BY <1>4 DEF HubPop
<1>5. ASSUME NEW h \in HubThreads, HubEnd(h) PROVE \A z \in Sockets : open'[z] => open[z]
  BY <1>5 DEF HubEnd
<1>6. ASSUME NEW h \in HubThreads, HubTestOpen(h) PROVE \A z \in Sockets : open'[z] => open[z]
  BY <1>6 DEF HubTestOpen
<1>7. ASSUME NEW h \in HubThreads, HubTestWriting(h) PROVE \A z \in Sockets : open'[z] => open[z]
  BY <1>7 DEF HubTestWriting
<1>8. ASSUME NEW h \in HubThreads, HubClaim(h) PROVE \A z \in Sockets : open'[z] => open[z]
  BY <1>8 DEF HubClaim
<1>9. ASSUME NEW h \in HubThreads, HubRetestOpen(h) PROVE \A z \in Sockets : open'[z] => open[z]
  BY <1>9 DEF HubRetestOpen
<1>10. ASSUME NEW h \in HubThreads, HubRetestWriting(h) PROVE \A z \in Sockets : open'[z] => open[z]
  BY <1>10 DEF HubRetestWriting
<1>11. ASSUME NEW h \in HubThreads, HubFrame(h) PROVE \A z \in Sockets : open'[z] => open[z]
  BY <1>11 DEF HubFrame
<1>12. ASSUME NEW h \in HubThreads, HubStart(h) PROVE \A z \in Sockets : open'[z] => open[z]
  BY <1>12 DEF HubStart
<1>13. ASSUME NEW h \in HubThreads, HubRelease(h) PROVE \A z \in Sockets : open'[z] => open[z]
  BY <1>13 DEF HubRelease
<1>14. ASSUME NEW h \in HubThreads, HubCallback(h) PROVE \A z \in Sockets : open'[z] => open[z]
  BY <1>14 DEF HubCallback
<1>15. ASSUME NEW h \in HubThreads, RouterEnd(h) PROVE \A z \in Sockets : open'[z] => open[z]
  BY <1>15 DEF RouterEnd
<1>16. ASSUME NEW h \in HubThreads, RouterWake(h) PROVE \A z \in Sockets : open'[z] => open[z]
  BY <1>16 DEF RouterWake
<1>17. ASSUME NEW s \in Sockets, IoFrame(s) PROVE \A z \in Sockets : open'[z] => open[z]
  BY <1>17 DEF IoFrame
<1>18. ASSUME NEW s \in Sockets, IoStart(s) PROVE \A z \in Sockets : open'[z] => open[z]
  BY <1>18 DEF IoStart
<1>19. ASSUME NEW s \in Sockets, IoRelease(s) PROVE \A z \in Sockets : open'[z] => open[z]
  BY <1>19 DEF IoRelease
<1>20. ASSUME NEW s \in Sockets, IoCallback(s) PROVE \A z \in Sockets : open'[z] => open[z]
  BY <1>20 DEF IoCallback
<1>21. ASSUME NEW s \in Sockets, IoFailed(s) PROVE \A z \in Sockets : open'[z] => open[z]
  BY <1>21 DEF IoFailed
<1>22. ASSUME NEW s \in Sockets, IoTestClose(s) PROVE \A z \in Sockets : open'[z] => open[z]
  BY <1>22 DEF IoTestClose
<1>23. ASSUME NEW s \in Sockets, IoClearOpen(s) PROVE \A z \in Sockets : open'[z] => open[z]
  BY <1>23 DEF IoClearOpen, ClearOpen
<1>24. ASSUME NEW s \in Sockets, IoClearWriting(s) PROVE \A z \in Sockets : open'[z] => open[z]
  BY <1>24 DEF IoClearWriting
<1>25. ASSUME NEW s \in Sockets, IoReply(s) PROVE \A z \in Sockets : open'[z] => open[z]
  BY <1>25 DEF IoReply
<1>26. ASSUME NEW s \in Sockets, IoTimeout(s) PROVE \A z \in Sockets : open'[z] => open[z]
  BY <1>26 DEF IoTimeout
<1>27. ASSUME NEW s \in Sockets, IoPeerClose(s) PROVE \A z \in Sockets : open'[z] => open[z]
  BY <1>27 DEF IoPeerClose
<1>28. ASSUME NEW s \in Sockets, Expire(s) PROVE \A z \in Sockets : open'[z] => open[z]
  BY <1>28 DEF Expire
<1>29. ASSUME NEW s \in Sockets, NEW m \in Messages, IoComplete(s, m) PROVE \A z \in Sockets : open'[z] => open[z]
  BY <1>29 DEF IoComplete
<1>30. ASSUME NEW u \in Users, NEW s \in Sockets, UserClose(u, s) PROVE \A z \in Sockets : open'[z] => open[z]
  BY <1>30 DEF UserClose
<1>31. ASSUME NEW u \in Users, UserClearOpen(u) PROVE \A z \in Sockets : open'[z] => open[z]
  BY <1>31 DEF UserClearOpen, ClearOpen
<1>32. ASSUME NEW u \in Users, UserClearWriting(u) PROVE \A z \in Sockets : open'[z] => open[z]
  BY <1>32 DEF UserClearWriting
<1>33. CASE UNCHANGED vars
  BY <1>33 DEF vars
<1> QED
  BY <1>1, <1>2, <1>3, <1>4, <1>5, <1>6, <1>7, <1>8, <1>9, <1>10, <1>11, <1>12, <1>13, <1>14, <1>15, <1>16, <1>17, <1>18, <1>19, <1>20, <1>21, <1>22, <1>23, <1>24, <1>25, <1>26, <1>27, <1>28, <1>29, <1>30, <1>31, <1>32, <1>33
     DEF Next, HubNext, IoNext, IoContinue, UserContinue

LEMMA GiveUpStep == IInv /\ [Next]_vars => GiveUp'
<1> SUFFICES ASSUME IInv, [Next]_vars PROVE GiveUp'
  OBVIOUS
<1> USE DEF IInv, Control, TypeOK, HubControl, IoControl, CloseControl, Places, HubPlaces, IoPlaces, WirePlaces, Untouched, AtHub, AtIo, Exclusion, GiveUp, Sock
<1>1. ASSUME NEW m \in Messages, Write(m) PROVE GiveUp'
  BY <1>1 DEF Write, Add
<1>2. ASSUME NEW m \in Messages, TransportOk(m) PROVE GiveUp'
  BY <1>2 DEF TransportOk
<1>3. ASSUME NEW m \in Messages, TransportError(m) PROVE GiveUp'
  BY <1>3 DEF TransportError
<1>4. ASSUME NEW h \in HubThreads, HubPop(h) PROVE GiveUp'
  BY <1>4 DEF HubPop, HubStep
<1>5. ASSUME NEW h \in HubThreads, HubEnd(h) PROVE GiveUp'
  BY <1>5 DEF HubEnd, HubStep
<1>6. ASSUME NEW h \in HubThreads, HubTestOpen(h) PROVE GiveUp'
  BY <1>6 DEF HubTestOpen, HubStep
<1>7. ASSUME NEW h \in HubThreads, HubTestWriting(h) PROVE GiveUp'
  BY <1>7 DEF HubTestWriting, HubStep
<1>8. ASSUME NEW h \in HubThreads, HubClaim(h) PROVE GiveUp'
  BY <1>8 DEF HubClaim, HubStep, Sock
<1>9. ASSUME NEW h \in HubThreads, HubRetestOpen(h) PROVE GiveUp'
  BY <1>9 DEF HubRetestOpen, HubStep, HubUnlock
<1>10. ASSUME NEW h \in HubThreads, HubRetestWriting(h) PROVE GiveUp'
  BY <1>10 DEF HubRetestWriting, HubStep, HubUnlock
<1>11. ASSUME NEW h \in HubThreads, HubFrame(h) PROVE GiveUp'
  <2>1. queue[hubMsg[h]] # 0
    <3>1. hubMsg[h] \in Messages /\ AtHub(h, hubMsg[h])
      BY <1>11 DEF HubFrame, HubStep
    <3>2. queue[hubMsg[h]] = FramesOf[hubMsg[h]]
      BY <3>1
    <3> QED
      BY <3>1, <3>2
  <2> QED
    BY <1>11, <2>1 DEF HubFrame, HubStep, NothingToWrite
<1>12. ASSUME NEW h \in HubThreads, HubStart(h) PROVE GiveUp'
  BY <1>12 DEF HubStart, HubStep, HubUnlock, StartFrame
<1>13. ASSUME NEW h \in HubThreads, HubRelease(h) PROVE GiveUp'
  BY <1>13 DEF HubRelease, HubStep, WriteOk, Sock
<1>14. ASSUME NEW h \in HubThreads, HubCallback(h) PROVE GiveUp'
  BY <1>14 DEF HubCallback, HubStep, HubUnlock, Report
<1>15. ASSUME NEW h \in HubThreads, RouterEnd(h) PROVE GiveUp'
  BY <1>15 DEF RouterEnd
<1>16. ASSUME NEW h \in HubThreads, RouterWake(h) PROVE GiveUp'
  BY <1>16 DEF RouterWake, Add
<1>17. ASSUME NEW s \in Sockets, IoFrame(s) PROVE GiveUp'
  BY <1>17 DEF IoFrame, IoStep
<1>18. ASSUME NEW s \in Sockets, IoStart(s) PROVE GiveUp'
  BY <1>18 DEF IoStart, IoStep, StartFrame, IoIdle
<1>19. ASSUME NEW s \in Sockets, IoRelease(s) PROVE GiveUp'
  BY <1>19 DEF IoRelease, IoStep, WriteOk
<1>20. ASSUME NEW s \in Sockets, IoCallback(s) PROVE GiveUp'
  BY <1>20 DEF IoCallback, IoStep, Report, AfterCallback, IoIdle
<1>21. ASSUME NEW s \in Sockets, IoFailed(s) PROVE GiveUp'
  BY <1>21 DEF IoFailed, IoStep, Report, AfterCallback, IoIdle
<1>22. ASSUME NEW s \in Sockets, IoTestClose(s) PROVE GiveUp'
  BY <1>22 DEF IoTestClose, IoStep, AfterClose
<1>23. ASSUME NEW s \in Sockets, IoClearOpen(s) PROVE GiveUp'
  BY <1>23 DEF IoClearOpen, IoStep, ClearOpen
<1>24. ASSUME NEW s \in Sockets, IoClearWriting(s) PROVE GiveUp'
  BY <1>24 DEF IoClearWriting, IoStep, ClearWriting, AfterClose
<1>25. ASSUME NEW s \in Sockets, IoReply(s) PROVE GiveUp'
  BY <1>25 DEF IoReply, Add, IoStep, IoIdle
<1>26. ASSUME NEW s \in Sockets, IoTimeout(s) PROVE GiveUp'
  BY <1>26 DEF IoTimeout, IoStep
<1>27. ASSUME NEW s \in Sockets, IoPeerClose(s) PROVE GiveUp'
  BY <1>27 DEF IoPeerClose, IoStep
<1>28. ASSUME NEW s \in Sockets, Expire(s) PROVE GiveUp'
  BY <1>28 DEF Expire
<1>29. ASSUME NEW s \in Sockets, NEW m \in Messages, IoComplete(s, m) PROVE GiveUp'
  BY <1>29 DEF IoComplete, IoStep
<1>30. ASSUME NEW u \in Users, NEW s \in Sockets, UserClose(u, s) PROVE GiveUp'
  BY <1>30 DEF UserClose, UserStep
<1>31. ASSUME NEW u \in Users, UserClearOpen(u) PROVE GiveUp'
  BY <1>31 DEF UserClearOpen, UserStep, ClearOpen
<1>32. ASSUME NEW u \in Users, UserClearWriting(u) PROVE GiveUp'
  BY <1>32 DEF UserClearWriting, UserStep, ClearWriting
<1>33. CASE UNCHANGED vars
  BY <1>33 DEF vars
<1> QED
  BY <1>1, <1>2, <1>3, <1>4, <1>5, <1>6, <1>7, <1>8, <1>9, <1>10, <1>11, <1>12, <1>13, <1>14, <1>15, <1>16, <1>17, <1>18, <1>19, <1>20, <1>21, <1>22, <1>23, <1>24, <1>25, <1>26, <1>27, <1>28, <1>29, <1>30, <1>31, <1>32, <1>33
     DEF Next, HubNext, IoNext, IoContinue, UserContinue


\* Of the steps, only the io thread's own release clears the flag of a
\* websocket that stays open.
LEMMA FlagKept ==
    ASSUME IInv, [Next]_vars, NEW z \in Sockets, open'[z], writing[z], ~IoRelease(z)
    PROVE  writing'[z]
<1>0. open[z]
  BY OpenStep
<1> USE <1>0 DEF IInv, Control, TypeOK, HubControl, IoControl, CloseControl, Exclusion, GiveUp
<1>1. ASSUME NEW m \in Messages, Write(m) PROVE writing'[z]
  BY <1>1 DEF Write, Add
<1>2. ASSUME NEW m \in Messages, TransportOk(m) PROVE writing'[z]
  BY <1>2 DEF TransportOk
<1>3. ASSUME NEW m \in Messages, TransportError(m) PROVE writing'[z]
  BY <1>3 DEF TransportError
<1>4. ASSUME NEW h \in HubThreads, HubPop(h) PROVE writing'[z]
  BY <1>4 DEF HubPop, HubStep
<1>5. ASSUME NEW h \in HubThreads, HubEnd(h) PROVE writing'[z]
  BY <1>5 DEF HubEnd, HubStep
<1>6. ASSUME NEW h \in HubThreads, HubTestOpen(h) PROVE writing'[z]
  BY <1>6 DEF HubTestOpen, HubStep
<1>7. ASSUME NEW h \in HubThreads, HubTestWriting(h) PROVE writing'[z]
  BY <1>7 DEF HubTestWriting, HubStep
<1>8. ASSUME NEW h \in HubThreads, HubClaim(h) PROVE writing'[z]
  BY <1>8 DEF HubClaim, HubStep, Sock
<1>9. ASSUME NEW h \in HubThreads, HubRetestOpen(h) PROVE writing'[z]
  BY <1>9 DEF HubRetestOpen, HubStep, HubUnlock
<1>10. ASSUME NEW h \in HubThreads, HubRetestWriting(h) PROVE writing'[z]
  BY <1>10 DEF HubRetestWriting, HubStep, HubUnlock
<1>11. ASSUME NEW h \in HubThreads, HubFrame(h) PROVE writing'[z]
  BY <1>11 DEF HubFrame, HubStep
<1>12. ASSUME NEW h \in HubThreads, HubStart(h) PROVE writing'[z]
  BY <1>12 DEF HubStart, HubStep, HubUnlock, StartFrame
<1>13. ASSUME NEW h \in HubThreads, HubRelease(h) PROVE writing'[z]
  BY <1>13 DEF HubRelease, HubStep, WriteOk, Sock
<1>14. ASSUME NEW h \in HubThreads, HubCallback(h) PROVE writing'[z]
  BY <1>14 DEF HubCallback, HubStep, HubUnlock, Report
<1>15. ASSUME NEW h \in HubThreads, RouterEnd(h) PROVE writing'[z]
  BY <1>15 DEF RouterEnd
<1>16. ASSUME NEW h \in HubThreads, RouterWake(h) PROVE writing'[z]
  BY <1>16 DEF RouterWake, Add
<1>17. ASSUME NEW s \in Sockets, IoFrame(s) PROVE writing'[z]
  BY <1>17 DEF IoFrame, IoStep
<1>18. ASSUME NEW s \in Sockets, IoStart(s) PROVE writing'[z]
  BY <1>18 DEF IoStart, IoStep, StartFrame, IoIdle
<1>19. ASSUME NEW s \in Sockets, IoRelease(s) PROVE writing'[z]
  BY <1>19 DEF IoRelease, IoStep, WriteOk
<1>20. ASSUME NEW s \in Sockets, IoCallback(s) PROVE writing'[z]
  BY <1>20 DEF IoCallback, IoStep, Report, AfterCallback, IoIdle
<1>21. ASSUME NEW s \in Sockets, IoFailed(s) PROVE writing'[z]
  BY <1>21 DEF IoFailed, IoStep, Report, AfterCallback, IoIdle
<1>22. ASSUME NEW s \in Sockets, IoTestClose(s) PROVE writing'[z]
  BY <1>22 DEF IoTestClose, IoStep, AfterClose
<1>23. ASSUME NEW s \in Sockets, IoClearOpen(s) PROVE writing'[z]
  BY <1>23 DEF IoClearOpen, IoStep, ClearOpen
<1>24. ASSUME NEW s \in Sockets, IoClearWriting(s) PROVE writing'[z]
  BY <1>24 DEF IoClearWriting, IoStep, ClearWriting, AfterClose
<1>25. ASSUME NEW s \in Sockets, IoReply(s) PROVE writing'[z]
  BY <1>25 DEF IoReply, Add, IoStep, IoIdle
<1>26. ASSUME NEW s \in Sockets, IoTimeout(s) PROVE writing'[z]
  BY <1>26 DEF IoTimeout, IoStep
<1>27. ASSUME NEW s \in Sockets, IoPeerClose(s) PROVE writing'[z]
  BY <1>27 DEF IoPeerClose, IoStep
<1>28. ASSUME NEW s \in Sockets, Expire(s) PROVE writing'[z]
  BY <1>28 DEF Expire
<1>29. ASSUME NEW s \in Sockets, NEW m \in Messages, IoComplete(s, m) PROVE writing'[z]
  BY <1>29 DEF IoComplete, IoStep
<1>30. ASSUME NEW u \in Users, NEW s \in Sockets, UserClose(u, s) PROVE writing'[z]
  BY <1>30 DEF UserClose, UserStep
<1>31. ASSUME NEW u \in Users, UserClearOpen(u) PROVE writing'[z]
  BY <1>31 DEF UserClearOpen, UserStep, ClearOpen
<1>32. ASSUME NEW u \in Users, UserClearWriting(u) PROVE writing'[z]
  BY <1>32 DEF UserClearWriting, UserStep, ClearWriting
<1>33. CASE UNCHANGED vars
  BY <1>33 DEF vars
<1> QED
  BY <1>1, <1>2, <1>3, <1>4, <1>5, <1>6, <1>7, <1>8, <1>9, <1>10, <1>11, <1>12, <1>13, <1>14, <1>15, <1>16, <1>17, <1>18, <1>19, <1>20, <1>21, <1>22, <1>23, <1>24, <1>25, <1>26, <1>27, <1>28, <1>29, <1>30, <1>31, <1>32, <1>33
     DEF Next, HubNext, IoNext, IoContinue, UserContinue

LEMMA FlagCoversStep == IInv /\ [Next]_vars => FlagCovers'
<1> SUFFICES ASSUME IInv, [Next]_vars, NEW m \in Messages, Busy(m)', open'[SocketOf[m]]
             PROVE  writing'[SocketOf[m]]
  BY DEF FlagCovers
<1> DEFINE z == SocketOf[m]
<1>1. z \in Sockets /\ open[z]
  BY OpenStep
<1>2. Busy(m) \/ Becomes(m)
  BY BusyStep DEF IInv
<1>3. writing[z]
  BY <1>1, <1>2 DEF IInv, Exclusion, FlagCovers, ClaimFree, Becomes, HubFrame, HubStep, Sock
<1>4. ~IoRelease(z)
  <2>1. ASSUME IoRelease(z) PROVE ~Busy(m)
    BY <1>1, <2>1 DEF IoRelease, IoStep, IInv, Exclusion, ReleaseFree
  <2>2. ASSUME IoRelease(z) PROVE ~Becomes(m)
    BY <1>1, <2>2 DEF IoRelease, IoStep, IInv, Exclusion, ReleaseFree, Becomes, HubFrame,
                      HubStep, Sock
  <2> QED
    BY <1>2, <2>1, <2>2
<1> QED
  BY <1>1, <1>3, <1>4, FlagKept


\* A hub thread comes to claim only from its test of the flag, and to frame
\* only from claim.
LEMMA ClaimOrigin ==
    ASSUME IInv, [Next]_vars, NEW g \in HubThreads, hubPc'[g] \in {"claim", "frame", "start"}
    PROVE  /\ hubMsg'[g] = hubMsg[g] /\ hubMsg[g] \in Messages
           /\ hubPc'[g] = "claim" => hubPc[g] = "claim" \/ HubTestWriting(g)
           /\ hubPc'[g] = "frame" => hubPc[g] = "frame" \/ HubClaim(g)
           /\ hubPc'[g] = "start" => hubPc[g] = "start" \/ HubFrame(g)
<1> DEFINE Goal ==
      /\ hubMsg'[g] = hubMsg[g] /\ hubMsg[g] \in Messages
      /\ hubPc'[g] = "claim" => hubPc[g] = "claim" \/ HubTestWriting(g)
      /\ hubPc'[g] = "frame" => hubPc[g] = "frame" \/ HubClaim(g)
      /\ hubPc'[g] = "start" => hubPc[g] = "start" \/ HubFrame(g)
<1> USE DEF IInv, Control, TypeOK, HubControl, Exclusion, HubPcs
<1>1. ASSUME NEW m \in Messages, Write(m) PROVE Goal
  BY <1>1 DEF Write, Add
<1>2. ASSUME NEW m \in Messages, TransportOk(m) PROVE Goal
  BY <1>2 DEF TransportOk
<1>3. ASSUME NEW m \in Messages, TransportError(m) PROVE Goal
  BY <1>3 DEF TransportError
<1>4. ASSUME NEW h \in HubThreads, HubPop(h) PROVE Goal
  BY <1>4 DEF HubPop, HubStep
<1>5. ASSUME NEW h \in HubThreads, HubEnd(h) PROVE Goal
  BY <1>5 DEF HubEnd, HubStep
<1>6. ASSUME NEW h \in HubThreads, HubTestOpen(h) PROVE Goal
  BY <1>6 DEF HubTestOpen, HubStep
<1>7. ASSUME NEW h \in HubThreads, HubTestWriting(h) PROVE Goal
  BY <1>7 DEF HubTestWriting, HubStep
<1>8. ASSUME NEW h \in HubThreads, HubClaim(h) PROVE Goal
  <2>1. CASE g = h
    BY <1>8, <2>1 DEF HubClaim, HubStep, Sock
  <2>2. CASE g # h
    BY <1>8, <2>2 DEF HubClaim, HubStep
  <2> QED
    BY <2>1, <2>2
<1>9. ASSUME NEW h \in HubThreads, HubRetestOpen(h) PROVE Goal
  BY ZenonT(60), <1>9 DEF HubRetestOpen, HubStep, HubUnlock
<1>10. ASSUME NEW h \in HubThreads, HubRetestWriting(h) PROVE Goal
  BY <1>10 DEF HubRetestWriting, HubStep, HubUnlock
<1>11. ASSUME NEW h \in HubThreads, HubFrame(h) PROVE Goal
  BY <1>11 DEF HubFrame, HubStep
<1>12. ASSUME NEW h \in HubThreads, HubStart(h) PROVE Goal
  BY <1>12 DEF HubStart, HubStep, HubUnlock, StartFrame
<1>13. ASSUME NEW h \in HubThreads, HubRelease(h) PROVE Goal
  BY <1>13 DEF HubRelease, HubStep, WriteOk, Sock
<1>14. ASSUME NEW h \in HubThreads, HubCallback(h) PROVE Goal
  BY ZenonT(60), <1>14 DEF HubCallback, HubStep, HubUnlock, Report
<1>15. ASSUME NEW h \in HubThreads, RouterEnd(h) PROVE Goal
  BY <1>15 DEF RouterEnd
<1>16. ASSUME NEW h \in HubThreads, RouterWake(h) PROVE Goal
  BY <1>16 DEF RouterWake, Add
<1>17. ASSUME NEW s \in Sockets, IoFrame(s) PROVE Goal
  BY <1>17 DEF IoFrame, IoStep
<1>18. ASSUME NEW s \in Sockets, IoStart(s) PROVE Goal
  BY <1>18 DEF IoStart, IoStep, StartFrame, IoIdle
<1>19. ASSUME NEW s \in Sockets, IoRelease(s) PROVE Goal
  BY <1>19 DEF IoRelease, IoStep, WriteOk
<1>20. ASSUME NEW s \in Sockets, IoCallback(s) PROVE Goal
  BY <1>20 DEF IoCallback, IoStep, Report, AfterCallback, IoIdle
<1>21. ASSUME NEW s \in Sockets, IoFailed(s) PROVE Goal
  BY <1>21 DEF IoFailed, IoStep, Report, AfterCallback, IoIdle
<1>22. ASSUME NEW s \in Sockets, IoTestClose(s) PROVE Goal
  BY <1>22 DEF IoTestClose, IoStep, AfterClose
<1>23. ASSUME NEW s \in Sockets, IoClearOpen(s) PROVE Goal
  BY <1>23 DEF IoClearOpen, IoStep, ClearOpen
<1>24. ASSUME NEW s \in Sockets, IoClearWriting(s) PROVE Goal
  BY <1>24 DEF IoClearWriting, IoStep, ClearWriting, AfterClose
<1>25. ASSUME NEW s \in Sockets, IoReply(s) PROVE Goal
  BY <1>25 DEF IoReply, Add, IoStep, IoIdle
<1>26. ASSUME NEW s \in Sockets, IoTimeout(s) PROVE Goal
  BY <1>26 DEF IoTimeout, IoStep
<1>27. ASSUME NEW s \in Sockets, IoPeerClose(s) PROVE Goal
  BY <1>27 DEF IoPeerClose, IoStep
<1>28. ASSUME NEW s \in Sockets, Expire(s) PROVE Goal
  BY <1>28 DEF Expire
<1>29. ASSUME NEW s \in Sockets, NEW m \in Messages, IoComplete(s, m) PROVE Goal
  BY <1>29 DEF IoComplete, IoStep
<1>30. ASSUME NEW u \in Users, NEW s \in Sockets, UserClose(u, s) PROVE Goal
  BY <1>30 DEF UserClose, UserStep
<1>31. ASSUME NEW u \in Users, UserClearOpen(u) PROVE Goal
  BY <1>31 DEF UserClearOpen, UserStep, ClearOpen
<1>32. ASSUME NEW u \in Users, UserClearWriting(u) PROVE Goal
  BY <1>32 DEF UserClearWriting, UserStep, ClearWriting
<1>33. CASE UNCHANGED vars
  BY <1>33 DEF vars
<1> QED
  BY <1>1, <1>2, <1>3, <1>4, <1>5, <1>6, <1>7, <1>8, <1>9, <1>10, <1>11, <1>12, <1>13, <1>14, <1>15, <1>16, <1>17, <1>18, <1>19, <1>20, <1>21, <1>22, <1>23, <1>24, <1>25, <1>26, <1>27, <1>28, <1>29, <1>30, <1>31, <1>32, <1>33
     DEF Next, HubNext, IoNext, IoContinue, UserContinue

LEMMA ClaimFreeStep == IInv /\ [Next]_vars => ClaimFree'
<1> SUFFICES ASSUME IInv, [Next]_vars, NEW h \in HubThreads,
                    hubPc'[h] \in {"claim", "frame"}, open'[Sock(h)']
             PROVE  /\ hubPc'[h] = "frame" => writing'[Sock(h)']
                    /\ \A m \in Messages : SocketOf[m] = Sock(h)' => ~Busy(m)'
  BY DEF ClaimFree
<1> DEFINE z == Sock(h)
<1>1. /\ z' = z /\ hubMsg[h] \in Messages
      /\ hubPc'[h] = "claim" => hubPc[h] = "claim" \/ HubTestWriting(h)
      /\ hubPc'[h] = "frame" => hubPc[h] = "frame" \/ HubClaim(h)
  BY ClaimOrigin DEF Sock
<1>2. z \in Sockets /\ open[z]
  BY <1>1, OpenStep DEF Sock
<1>3. ASSUME NEW m \in Messages, SocketOf[m] = z PROVE ~Busy(m)
  <2>1. CASE hubPc[h] \in {"claim", "frame"}
    BY <1>2, <1>3, <2>1 DEF IInv, Exclusion, ClaimFree
  <2>2. CASE HubTestWriting(h)
    <3>1. ~writing[z]
      BY <1>1, <2>2 DEF HubTestWriting, HubStep, IInv, Control, TypeOK
    <3> QED
      BY <1>2, <1>3, <3>1 DEF IInv, Exclusion, FlagCovers
  <2>3. CASE HubClaim(h)
    BY <1>2, <1>3, <2>3 DEF HubClaim, HubStep, IInv, Exclusion, ClaimFree
  <2> QED
    BY <1>1, <2>1, <2>2, <2>3
<1>4. ASSUME NEW m \in Messages, SocketOf[m] = z PROVE ~Becomes(m)
  <2> SUFFICES ASSUME NEW g \in HubThreads, HubFrame(g), hubMsg[g] = m, open[SocketOf[m]]
               PROVE  FALSE
    BY DEF Becomes
  <2>1. hubPc[g] = "frame" /\ hubPc'[g] \in {"release", "start"}
    BY DEF HubFrame, HubStep, IInv, Control, TypeOK
  <2>2. g # h
    BY <2>1
  <2>3. hubPc[h] \in {"wait", "ended"}
    BY <2>1, <2>2 DEF IInv, Control, HubControl
  <2> QED
    BY <2>3, <1>1 DEF HubTestWriting, HubClaim, HubStep
<1>5. \A m \in Messages : SocketOf[m] = z => ~Busy(m)'
  BY <1>3, <1>4, BusyStep DEF IInv
<1>6. ASSUME hubPc'[h] = "frame" PROVE writing'[z]
  <2>1. CASE HubClaim(h)
    BY <2>1, <1>2 DEF HubClaim, IInv, Control, TypeOK
  <2>2. CASE hubPc[h] = "frame"
    <3>1. writing[z]
      BY <1>2, <2>2 DEF IInv, Exclusion, ClaimFree
    <3>2. ~IoRelease(z)
      BY <1>2, <2>2 DEF IoRelease, IoStep, IInv, Exclusion, ReleaseFree
    <3> QED
      BY <1>1, <1>2, <3>1, <3>2, FlagKept
  <2> QED
    BY <1>1, <1>6, <2>1, <2>2
<1> QED
  BY <1>1, <1>5, <1>6


\* The io thread comes to release only from its frame.
LEMMA ReleaseOrigin ==
    ASSUME IInv, [Next]_vars, NEW z \in Sockets, ioPc'[z] = "release"
    PROVE  \/ ioPc[z] = "release" /\ ~IoRelease(z)
           \/ IoFrame(z)
<1> DEFINE Goal == (ioPc[z] = "release" /\ ~IoRelease(z)) \/ IoFrame(z)
<1> USE DEF IInv, Control, TypeOK, IoPcs
<1>1. ASSUME NEW m \in Messages, Write(m) PROVE Goal
  BY <1>1 DEF Write, Add, IoRelease, IoStep
<1>2. ASSUME NEW m \in Messages, TransportOk(m) PROVE Goal
  BY <1>2 DEF TransportOk, IoRelease, IoStep
<1>3. ASSUME NEW m \in Messages, TransportError(m) PROVE Goal
  BY <1>3 DEF TransportError, IoRelease, IoStep
<1>4. ASSUME NEW h \in HubThreads, HubPop(h) PROVE Goal
  BY <1>4 DEF HubPop, HubStep, IoRelease, IoStep
<1>5. ASSUME NEW h \in HubThreads, HubEnd(h) PROVE Goal
  BY <1>5 DEF HubEnd, HubStep, IoRelease, IoStep
<1>6. ASSUME NEW h \in HubThreads, HubTestOpen(h) PROVE Goal
  BY <1>6 DEF HubTestOpen, HubStep, IoRelease, IoStep
<1>7. ASSUME NEW h \in HubThreads, HubTestWriting(h) PROVE Goal
  BY <1>7 DEF HubTestWriting, HubStep, IoRelease, IoStep
<1>8. ASSUME NEW h \in HubThreads, HubClaim(h) PROVE Goal
  BY <1>8 DEF HubClaim, HubStep, Sock, IoRelease, IoStep
<1>9. ASSUME NEW h \in HubThreads, HubRetestOpen(h) PROVE Goal
  BY <1>9 DEF HubRetestOpen, HubStep, HubUnlock, IoRelease, IoStep
<1>10. ASSUME NEW h \in HubThreads, HubRetestWriting(h) PROVE Goal
  BY <1>10 DEF HubRetestWriting, HubStep, HubUnlock, IoRelease, IoStep
<1>11. ASSUME NEW h \in HubThreads, HubFrame(h) PROVE Goal
  BY <1>11 DEF HubFrame, HubStep, IoRelease, IoStep
<1>12. ASSUME NEW h \in HubThreads, HubStart(h) PROVE Goal
  BY <1>12 DEF HubStart, HubStep, HubUnlock, StartFrame, IoRelease, IoStep
<1>13. ASSUME NEW h \in HubThreads, HubRelease(h) PROVE Goal
  BY <1>13 DEF HubRelease, HubStep, WriteOk, Sock, IoRelease, IoStep
<1>14. ASSUME NEW h \in HubThreads, HubCallback(h) PROVE Goal
  BY <1>14 DEF HubCallback, HubStep, HubUnlock, Report, IoRelease, IoStep
<1>15. ASSUME NEW h \in HubThreads, RouterEnd(h) PROVE Goal
  BY <1>15 DEF RouterEnd, IoRelease, IoStep
<1>16. ASSUME NEW h \in HubThreads, RouterWake(h) PROVE Goal
  BY <1>16 DEF RouterWake, Add, IoRelease, IoStep
<1>17. ASSUME NEW s \in Sockets, IoFrame(s) PROVE Goal
  BY <1>17 DEF IoFrame, IoStep, IoRelease
<1>18. ASSUME NEW s \in Sockets, IoStart(s) PROVE Goal
  BY <1>18 DEF IoStart, IoStep, StartFrame, IoIdle, IoRelease
<1>19. ASSUME NEW s \in Sockets, IoRelease(s) PROVE Goal
  BY <1>19 DEF IoRelease, IoStep, WriteOk
<1>20. ASSUME NEW s \in Sockets, IoCallback(s) PROVE Goal
  BY <1>20 DEF IoCallback, IoStep, Report, AfterCallback, IoIdle, IoRelease
<1>21. ASSUME NEW s \in Sockets, IoFailed(s) PROVE Goal
  BY <1>21 DEF IoFailed, IoStep, Report, AfterCallback, IoIdle, IoRelease
<1>22. ASSUME NEW s \in Sockets, IoTestClose(s) PROVE Goal
  BY <1>22 DEF IoTestClose, IoStep, AfterClose, IoRelease
<1>23. ASSUME NEW s \in Sockets, IoClearOpen(s) PROVE Goal
  BY <1>23 DEF IoClearOpen, IoStep, ClearOpen, IoRelease
<1>24. ASSUME NEW s \in Sockets, IoClearWriting(s) PROVE Goal
  BY <1>24 DEF IoClearWriting, IoStep, ClearWriting, AfterClose, IoRelease
<1>25. ASSUME NEW s \in Sockets, IoReply(s) PROVE Goal
  BY <1>25 DEF IoReply, Add, IoStep, IoIdle, IoRelease
<1>26. ASSUME NEW s \in Sockets, IoTimeout(s) PROVE Goal
  BY <1>26 DEF IoTimeout, IoStep, IoRelease
<1>27. ASSUME NEW s \in Sockets, IoPeerClose(s) PROVE Goal
  BY <1>27 DEF IoPeerClose, IoStep, IoRelease
<1>28. ASSUME NEW s \in Sockets, Expire(s) PROVE Goal
  BY <1>28 DEF Expire, IoRelease, IoStep
<1>29. ASSUME NEW s \in Sockets, NEW m \in Messages, IoComplete(s, m) PROVE Goal
  BY <1>29 DEF IoComplete, IoStep, IoRelease
<1>30. ASSUME NEW u \in Users, NEW s \in Sockets, UserClose(u, s) PROVE Goal
  BY <1>30 DEF UserClose, UserStep, IoRelease, IoStep
<1>31. ASSUME NEW u \in Users, UserClearOpen(u) PROVE Goal
  BY <1>31 DEF UserClearOpen, UserStep, ClearOpen, IoRelease, IoStep
<1>32. ASSUME NEW u \in Users, UserClearWriting(u) PROVE Goal
  BY <1>32 DEF UserClearWriting, UserStep, ClearWriting, IoRelease, IoStep
<1>33. CASE UNCHANGED vars
  BY <1>33 DEF vars, IoRelease, IoStep
<1> QED
  BY <1>1, <1>2, <1>3, <1>4, <1>5, <1>6, <1>7, <1>8, <1>9, <1>10, <1>11, <1>12, <1>13, <1>14, <1>15, <1>16, <1>17, <1>18, <1>19, <1>20, <1>21, <1>22, <1>23, <1>24, <1>25, <1>26, <1>27, <1>28, <1>29, <1>30, <1>31, <1>32, <1>33
     DEF Next, HubNext, IoNext, IoContinue, UserContinue

LEMMA ReleaseFreeStep == IInv /\ [Next]_vars => ReleaseFree'
<1> SUFFICES ASSUME IInv, [Next]_vars, NEW z \in Sockets, ioPc'[z] = "release", open'[z]
             PROVE  /\ writing'[z]
                    /\ \A m \in Messages : SocketOf[m] = z => ~Busy(m)'
                    /\ \A h \in HubThreads :
                         hubPc'[h] \in {"claim", "frame", "start"} => Sock(h)' # z
  BY DEF ReleaseFree
<1>1. open[z]
  BY OpenStep
\* Before the step the flag is set, nobody is busy but the message of the
\* handler, and no hub thread is on the way to this websocket.
<1>2. /\ writing[z] /\ ~IoRelease(z)
      /\ \A m \in Messages : SocketOf[m] = z /\ Busy(m)' => Becomes(m)
      /\ \A h \in HubThreads : hubPc[h] \in {"claim", "frame", "start"} => Sock(h) # z
  <2>1. CASE ioPc[z] = "release" /\ ~IoRelease(z)
    BY <1>1, <2>1, BusyStep DEF IInv, Exclusion, ReleaseFree
  <2>2. CASE IoFrame(z)
    <3> DEFINE c == ioMsg[z]
    <3>1. /\ c \in Messages /\ SocketOf[c] = z /\ ioPc[z] = "frame" /\ AtIo(z, c)
      BY <2>2 DEF IoFrame, IoStep, IInv, Control, TypeOK, IoControl, AtIo
    <3>2. queue[c] = 0 /\ net[c] = "none"
      BY <1>1, <2>2, <3>1 DEF IoFrame, IoStep, NothingToWrite, IInv, Control, TypeOK,
                              Places, IoPlaces
    <3>3. Busy(c)
      BY <3>1 DEF Busy
    <3>4. ASSUME NEW h \in HubThreads, hubPc[h] \in {"claim", "frame", "start"}
          PROVE  Sock(h) # z
      <4>1. hubMsg[h] \in Messages /\ AtHub(h, hubMsg[h])
        BY <3>4 DEF AtHub, IInv, Control, HubControl
      <4>2. hubMsg[h] # c
        BY <3>1, <4>1 DEF IInv, Places, HubPlaces
      <4>3. CASE hubPc[h] = "start"
        <5>1. Busy(hubMsg[h])
          BY <4>3 DEF Busy
        <5> QED
          BY <3>1, <3>3, <4>1, <4>2, <5>1 DEF Sock, IInv, Exclusion, Alone
      <4>4. CASE hubPc[h] \in {"claim", "frame"}
        BY <1>1, <3>1, <3>3, <4>1, <4>4 DEF Sock, IInv, Exclusion, ClaimFree
      <4> QED
        BY <3>4, <4>3, <4>4
    <3>5. ASSUME NEW m \in Messages, SocketOf[m] = z, Busy(m)' PROVE Becomes(m)
      <4>1. CASE m = c
        <5>1. UNCHANGED <<chainVars, hubPc, hubMsg, ioMsg>> /\ ioPc'[z] = "release"
          BY <2>2 DEF IoFrame
        <5>2. \A s \in Sockets : ioMsg[s] = c => s = z
          BY <3>1 DEF IInv, Control, IoControl
        <5>3. \A h \in HubThreads : ~(hubMsg[h] = c /\ hubPc[h] = "start")
          BY <3>1, <3>4 DEF Sock
        <5> QED
          BY <3>2, <3>5, <4>1, <5>1, <5>2, <5>3 DEF Busy, Transmitting
      <4>2. CASE m # c
        <5>1. ~Busy(m)
          BY <3>1, <3>3, <3>5, <4>2 DEF IInv, Exclusion, Alone
        <5> QED
          BY <3>5, <5>1, BusyStep DEF IInv
      <4> QED
        BY <4>1, <4>2
    <3>6. writing[z]
      BY <1>1, <3>1, <3>3 DEF IInv, Exclusion, FlagCovers
    <3>7. ~IoRelease(z)
      BY <3>1 DEF IoRelease, IoStep
    <3> QED
      BY <3>4, <3>5, <3>6, <3>7
  <2> QED
    BY <2>1, <2>2, ReleaseOrigin
<1>3. writing'[z]
  BY <1>2, FlagKept
<1>4. ASSUME NEW m \in Messages, SocketOf[m] = z PROVE ~Busy(m)'
  BY <1>2, <1>4 DEF Becomes, HubFrame, HubStep, Sock
<1>5. ASSUME NEW h \in HubThreads, hubPc'[h] \in {"claim", "frame", "start"}
      PROVE  Sock(h)' # z
  <2>1. /\ hubMsg'[h] = hubMsg[h]
        /\ hubPc[h] \in {"claim", "frame", "start"} \/ HubTestWriting(h) \/ HubClaim(h)
             \/ HubFrame(h)
    BY <1>5, ClaimOrigin
  <2>2. CASE HubTestWriting(h)
    BY <1>2, <1>5, <2>1, <2>2 DEF HubTestWriting, HubStep, Sock, IInv, Control, TypeOK
  <2>3. CASE hubPc[h] \in {"claim", "frame", "start"}
    BY <1>2, <2>1, <2>3 DEF Sock
  <2> QED
    BY <2>1, <2>2, <2>3 DEF HubClaim, HubFrame, HubStep
<1> QED
  BY <1>3, <1>4, <1>5


-----------------------------------------------------------------------------
(* Progress.                                                               *)

LEMMA ProgressStep == IInv /\ [Next]_vars => Progress'
<1> SUFFICES ASSUME IInv, [Next]_vars PROVE Progress'
  OBVIOUS
<1> USE DEF IInv, Control, TypeOK, HubControl, IoControl, CloseControl, Places, UnwrittenPlaces, HubPlaces, IoPlaces, WirePlaces, Progress, Untouched, AtHub, AtIo, NothingToWrite
<1>1. ASSUME NEW m \in Messages, Write(m) PROVE Progress'
  BY <1>1 DEF Write, Add
<1>2. ASSUME NEW m \in Messages, TransportOk(m) PROVE Progress'
  BY <1>2 DEF TransportOk
<1>3. ASSUME NEW m \in Messages, TransportError(m) PROVE Progress'
  BY <1>3 DEF TransportError
<1>4. ASSUME NEW h \in HubThreads, HubPop(h) PROVE Progress'
  BY <1>4 DEF HubPop, HubStep
<1>5. ASSUME NEW h \in HubThreads, HubEnd(h) PROVE Progress'
  BY <1>5 DEF HubEnd, HubStep
<1>6. ASSUME NEW h \in HubThreads, HubTestOpen(h) PROVE Progress'
  BY <1>6 DEF HubTestOpen, HubStep
<1>7. ASSUME NEW h \in HubThreads, HubTestWriting(h) PROVE Progress'
  BY <1>7 DEF HubTestWriting, HubStep
<1>8. ASSUME NEW h \in HubThreads, HubClaim(h) PROVE Progress'
  BY <1>8 DEF HubClaim, HubStep, Sock
<1>9. ASSUME NEW h \in HubThreads, HubRetestOpen(h) PROVE Progress'
  BY <1>9 DEF HubRetestOpen, HubStep, HubUnlock
<1>10. ASSUME NEW h \in HubThreads, HubRetestWriting(h) PROVE Progress'
  BY <1>10 DEF HubRetestWriting, HubStep, HubUnlock
<1>11. ASSUME NEW h \in HubThreads, HubFrame(h) PROVE Progress'
  BY <1>11 DEF HubFrame, HubStep
<1>12. ASSUME NEW h \in HubThreads, HubStart(h) PROVE Progress'
  BY <1>12 DEF HubStart, HubStep, HubUnlock, StartFrame
<1>13. ASSUME NEW h \in HubThreads, HubRelease(h) PROVE Progress'
  BY <1>13 DEF HubRelease, HubStep, WriteOk, Sock
<1>14. ASSUME NEW h \in HubThreads, HubCallback(h) PROVE Progress'
  BY <1>14 DEF HubCallback, HubStep, HubUnlock, Report
<1>15. ASSUME NEW h \in HubThreads, RouterEnd(h) PROVE Progress'
  BY <1>15 DEF RouterEnd
<1>16. ASSUME NEW h \in HubThreads, RouterWake(h) PROVE Progress'
  BY <1>16 DEF RouterWake, Add
<1>17. ASSUME NEW s \in Sockets, IoFrame(s) PROVE Progress'
  BY <1>17 DEF IoFrame, IoStep
<1>18. ASSUME NEW s \in Sockets, IoStart(s) PROVE Progress'
  BY <1>18 DEF IoStart, IoStep, StartFrame, IoIdle
<1>19. ASSUME NEW s \in Sockets, IoRelease(s) PROVE Progress'
  BY <1>19 DEF IoRelease, IoStep, WriteOk
<1>20. ASSUME NEW s \in Sockets, IoCallback(s) PROVE Progress'
  BY <1>20 DEF IoCallback, IoStep, Report, AfterCallback, IoIdle
<1>21. ASSUME NEW s \in Sockets, IoFailed(s) PROVE Progress'
  BY <1>21 DEF IoFailed, IoStep, Report, AfterCallback, IoIdle
<1>22. ASSUME NEW s \in Sockets, IoTestClose(s) PROVE Progress'
  BY <1>22 DEF IoTestClose, IoStep, AfterClose
<1>23. ASSUME NEW s \in Sockets, IoClearOpen(s) PROVE Progress'
  BY <1>23 DEF IoClearOpen, IoStep, ClearOpen
<1>24. ASSUME NEW s \in Sockets, IoClearWriting(s) PROVE Progress'
  BY <1>24 DEF IoClearWriting, IoStep, ClearWriting, AfterClose
<1>25. ASSUME NEW s \in Sockets, IoReply(s) PROVE Progress'
  BY <1>25 DEF IoReply, Add, IoStep, IoIdle
<1>26. ASSUME NEW s \in Sockets, IoTimeout(s) PROVE Progress'
  BY <1>26 DEF IoTimeout, IoStep
<1>27. ASSUME NEW s \in Sockets, IoPeerClose(s) PROVE Progress'
  BY <1>27 DEF IoPeerClose, IoStep
<1>28. ASSUME NEW s \in Sockets, Expire(s) PROVE Progress'
  BY <1>28 DEF Expire
<1>29. ASSUME NEW s \in Sockets, NEW m \in Messages, IoComplete(s, m) PROVE Progress'
  BY <1>29 DEF IoComplete, IoStep
<1>30. ASSUME NEW u \in Users, NEW s \in Sockets, UserClose(u, s) PROVE Progress'
  BY <1>30 DEF UserClose, UserStep
<1>31. ASSUME NEW u \in Users, UserClearOpen(u) PROVE Progress'
  BY <1>31 DEF UserClearOpen, UserStep, ClearOpen
<1>32. ASSUME NEW u \in Users, UserClearWriting(u) PROVE Progress'
  BY <1>32 DEF UserClearWriting, UserStep, ClearWriting
<1>33. CASE UNCHANGED vars
  BY <1>33 DEF vars
<1> QED
  BY <1>1, <1>2, <1>3, <1>4, <1>5, <1>6, <1>7, <1>8, <1>9, <1>10, <1>11, <1>12, <1>13, <1>14, <1>15, <1>16, <1>17, <1>18, <1>19, <1>20, <1>21, <1>22, <1>23, <1>24, <1>25, <1>26, <1>27, <1>28, <1>29, <1>30, <1>31, <1>32, <1>33
     DEF Next, HubNext, IoNext, IoContinue, UserContinue


-----------------------------------------------------------------------------
(* The inductive invariant, and what follows from it.                      *)

LEMMA InitInv == Init => IInv
<1> SUFFICES ASSUME Init PROVE IInv
  OBVIOUS
<1>1. list = <<>> /\ Len(list) = 0
  BY EmptySeq DEF Init
<1>2. Control
  BY <1>1, TypeInit DEF Init, Control, HubControl, IoControl, CloseControl
<1>3. Places
  <2>1. \A m \in Messages : queue[m] \in 0 .. FramesOf[m]
    BY DEF Init
  <2> QED
    BY <1>1, <2>1 DEF Init, Places, UnwrittenPlaces, ListPlaces, HubPlaces, IoPlaces,
                      WirePlaces, Untouched, AtHub, AtIo
<1>4. Progress
  BY DEF Init, Progress, AtIo
<1>5. \A m \in Messages : ~Busy(m)
  BY DEF Init, Busy, Transmitting
<1>6. Exclusion
  BY <1>5 DEF Init, Exclusion, Alone, FlagCovers, ClaimFree, GiveUp, ReleaseFree
<1> QED
  BY <1>2, <1>3, <1>4, <1>6 DEF IInv

LEMMA NextInv == IInv /\ [Next]_vars => IInv'
<1> SUFFICES ASSUME IInv, [Next]_vars PROVE IInv'
  OBVIOUS
<1>1. Control /\ Places
  BY DEF IInv
<1>2. StartsNonEmpty
  <2>1. ASSUME NEW h \in HubThreads, hubPc[h] = "start" PROVE queue[hubMsg[h]] > 0
    <3>1. hubMsg[h] \in Messages /\ AtHub(h, hubMsg[h])
      BY <1>1, <2>1 DEF Control, HubControl, AtHub
    <3>2. queue[hubMsg[h]] = FramesOf[hubMsg[h]]
      BY <1>1, <3>1 DEF Places, HubPlaces, Untouched
    <3> QED
      BY <3>1, <3>2
  <2>2. ASSUME NEW s \in Sockets, ioPc[s] = "start" PROVE queue[ioMsg[s]] > 0
    <3>1. ioMsg[s] \in Messages /\ AtIo(s, ioMsg[s])
      BY <1>1, <2>2 DEF Control, TypeOK, IoControl, AtIo
    <3> QED
      BY <1>1, <2>2, <3>1 DEF Places, IoPlaces
  <2> QED
    BY <2>1, <2>2 DEF StartsNonEmpty
<1>3. Control'
  BY <1>1, <1>2, TypeStep, HubControlStep, IoControlStep, CloseControlStep DEF Control
<1>4. Places'
  BY <1>1, UnwrittenPlacesStep, ListPlacesStep, HubPlacesStep, IoPlacesStep, WirePlacesStep
     DEF Places
<1>5. Exclusion'
  BY AloneStep, FlagCoversStep, ClaimFreeStep, GiveUpStep, ReleaseFreeStep DEF Exclusion
<1> QED
  BY <1>3, <1>4, <1>5, ProgressStep DEF IInv

\* Every reachable state of the write path satisfies the inductive invariant.
THEOREM InductiveInvariant == Spec => []IInv
BY InitInv, NextInv, PTL DEF Spec

\* The variables keep their types; that no frame queue underflows rests on
\* the whole invariant.
THEOREM TypeCorrect == Spec => []TypeOK
<1>1. IInv => TypeOK
  BY DEF IInv, Control
<1> QED
  BY <1>1, InductiveInvariant, PTL

\* is_writing_ does its work: whatever the threads do, the frames of two
\* messages of a websocket are not interleaved (websocket_hub::send,
\* write_frame and websocket::close).
THEOREM OneTransmissionHolds == Spec => []OneTransmission
<1>1. IInv => OneTransmission
  BY DEF IInv, Exclusion, Alone, OneTransmission, Busy
<1> QED
  BY <1>1, InductiveInvariant, PTL

\* No write callback is called twice (websocket_hub::write_frame).
THEOREM CallbackOnceHolds == Spec => []CallbackOnce
<1>1. IInv => CallbackOnce
  <2> SUFFICES ASSUME IInv PROVE CallbackOnce
    OBVIOUS
  <2>1. ASSUME NEW h \in HubThreads, hubPc[h] = "callback" PROVE result[hubMsg[h]] = "none"
    <3>1. hubMsg[h] \in Messages /\ AtHub(h, hubMsg[h])
      BY <2>1 DEF IInv, Control, HubControl, AtHub
    <3> QED
      BY <3>1 DEF IInv, Places, HubPlaces, Untouched
  <2>2. ASSUME NEW s \in Sockets, ioPc[s] \in {"callback", "failed"}
        PROVE  result[ioMsg[s]] = "none"
    <3>1. ioMsg[s] \in Messages /\ AtIo(s, ioMsg[s])
      BY <2>2 DEF IInv, Control, TypeOK, IoControl, AtIo
    <3> QED
      BY <3>1 DEF IInv, Places, IoPlaces
  <2> QED
    BY <2>1, <2>2 DEF CallbackOnce
<1> QED
  BY <1>1, InductiveInvariant, PTL

\* The hub thread runs a callback under its mutex only after a close raced
\* with its tests (websocket_hub::send and write_frame).
THEOREM SelfLockNeedsCloseHolds == Spec => []SelfLockNeedsClose
<1>1. IInv => SelfLockNeedsClose
  BY DEF IInv, Exclusion, GiveUp, SelfLockNeedsClose
<1> QED
  BY <1>1, InductiveInvariant, PTL

LEMMA FailureClosesStep == IInv /\ FailureCloses /\ [Next]_vars => FailureCloses'
<1> SUFFICES ASSUME IInv, FailureCloses, [Next]_vars PROVE FailureCloses'
  OBVIOUS
<1> USE DEF IInv, Control, TypeOK, IoControl, CloseControl, FailureCloses
<1>1. ASSUME NEW m \in Messages, Write(m) PROVE FailureCloses'
  BY <1>1 DEF Write, Add
<1>2. ASSUME NEW m \in Messages, TransportOk(m) PROVE FailureCloses'
  BY <1>2 DEF TransportOk
<1>3. ASSUME NEW m \in Messages, TransportError(m) PROVE FailureCloses'
  BY <1>3 DEF TransportError
<1>4. ASSUME NEW h \in HubThreads, HubPop(h) PROVE FailureCloses'
  BY <1>4 DEF HubPop, HubStep
<1>5. ASSUME NEW h \in HubThreads, HubEnd(h) PROVE FailureCloses'
  BY <1>5 DEF HubEnd, HubStep
<1>6. ASSUME NEW h \in HubThreads, HubTestOpen(h) PROVE FailureCloses'
  BY <1>6 DEF HubTestOpen, HubStep
<1>7. ASSUME NEW h \in HubThreads, HubTestWriting(h) PROVE FailureCloses'
  BY <1>7 DEF HubTestWriting, HubStep
<1>8. ASSUME NEW h \in HubThreads, HubClaim(h) PROVE FailureCloses'
  BY <1>8 DEF HubClaim, HubStep, Sock
<1>9. ASSUME NEW h \in HubThreads, HubRetestOpen(h) PROVE FailureCloses'
  BY <1>9 DEF HubRetestOpen, HubStep, HubUnlock
<1>10. ASSUME NEW h \in HubThreads, HubRetestWriting(h) PROVE FailureCloses'
  BY <1>10 DEF HubRetestWriting, HubStep, HubUnlock
<1>11. ASSUME NEW h \in HubThreads, HubFrame(h) PROVE FailureCloses'
  BY <1>11 DEF HubFrame, HubStep
<1>12. ASSUME NEW h \in HubThreads, HubStart(h) PROVE FailureCloses'
  BY <1>12 DEF HubStart, HubStep, HubUnlock, StartFrame
<1>13. ASSUME NEW h \in HubThreads, HubRelease(h) PROVE FailureCloses'
  BY <1>13 DEF HubRelease, HubStep, WriteOk, Sock
<1>14. ASSUME NEW h \in HubThreads, HubCallback(h) PROVE FailureCloses'
  BY <1>14 DEF HubCallback, HubStep, HubUnlock, Report
<1>15. ASSUME NEW h \in HubThreads, RouterEnd(h) PROVE FailureCloses'
  BY <1>15 DEF RouterEnd
<1>16. ASSUME NEW h \in HubThreads, RouterWake(h) PROVE FailureCloses'
  BY <1>16 DEF RouterWake, Add
<1>17. ASSUME NEW s \in Sockets, IoFrame(s) PROVE FailureCloses'
  BY <1>17 DEF IoFrame, IoStep
<1>18. ASSUME NEW s \in Sockets, IoStart(s) PROVE FailureCloses'
  BY <1>18 DEF IoStart, IoStep, StartFrame, IoIdle
<1>19. ASSUME NEW s \in Sockets, IoRelease(s) PROVE FailureCloses'
  BY <1>19 DEF IoRelease, IoStep, WriteOk
<1>20. ASSUME NEW s \in Sockets, IoCallback(s) PROVE FailureCloses'
  BY <1>20 DEF IoCallback, IoStep, Report, AfterCallback, IoIdle
<1>21. ASSUME NEW s \in Sockets, IoFailed(s) PROVE FailureCloses'
  BY <1>21 DEF IoFailed, IoStep, Report, AfterCallback, IoIdle
<1>22. ASSUME NEW s \in Sockets, IoTestClose(s) PROVE FailureCloses'
  BY <1>22 DEF IoTestClose, IoStep, AfterClose
<1>23. ASSUME NEW s \in Sockets, IoClearOpen(s) PROVE FailureCloses'
  BY <1>23 DEF IoClearOpen, IoStep, ClearOpen
<1>24. ASSUME NEW s \in Sockets, IoClearWriting(s) PROVE FailureCloses'
  BY <1>24 DEF IoClearWriting, IoStep, ClearWriting, AfterClose
<1>25. ASSUME NEW s \in Sockets, IoReply(s) PROVE FailureCloses'
  BY <1>25 DEF IoReply, Add, IoStep, IoIdle
<1>26. ASSUME NEW s \in Sockets, IoTimeout(s) PROVE FailureCloses'
  BY <1>26 DEF IoTimeout, IoStep
<1>27. ASSUME NEW s \in Sockets, IoPeerClose(s) PROVE FailureCloses'
  BY <1>27 DEF IoPeerClose, IoStep
<1>28. ASSUME NEW s \in Sockets, Expire(s) PROVE FailureCloses'
  BY <1>28 DEF Expire
<1>29. ASSUME NEW s \in Sockets, NEW m \in Messages, IoComplete(s, m) PROVE FailureCloses'
  BY <1>29 DEF IoComplete, IoStep
<1>30. ASSUME NEW u \in Users, NEW s \in Sockets, UserClose(u, s) PROVE FailureCloses'
  BY <1>30 DEF UserClose, UserStep
<1>31. ASSUME NEW u \in Users, UserClearOpen(u) PROVE FailureCloses'
  BY <1>31 DEF UserClearOpen, UserStep, ClearOpen
<1>32. ASSUME NEW u \in Users, UserClearWriting(u) PROVE FailureCloses'
  BY <1>32 DEF UserClearWriting, UserStep, ClearWriting
<1>33. CASE UNCHANGED vars
  BY <1>33 DEF vars
<1> QED
  BY <1>1, <1>2, <1>3, <1>4, <1>5, <1>6, <1>7, <1>8, <1>9, <1>10, <1>11, <1>12, <1>13, <1>14, <1>15, <1>16, <1>17, <1>18, <1>19, <1>20, <1>21, <1>22, <1>23, <1>24, <1>25, <1>26, <1>27, <1>28, <1>29, <1>30, <1>31, <1>32, <1>33
     DEF Next, HubNext, IoNext, IoContinue, UserContinue

\* A write reported as failed has closed its websocket (websocket_hub::close_socket).
THEOREM FailureClosesHolds == Spec => []FailureCloses
<1>1. Init => FailureCloses
  BY DEF Init, FailureCloses
<1> QED
  BY <1>1, FailureClosesStep, InductiveInvariant, PTL DEF Spec

-----------------------------------------------------------------------------
(* The write path implements the abstract stream of frames.                *)

\* When a frame of c is about to be started the other messages of the
\* websocket are whole, and the queue of c is not empty.
LEMMA SendStep ==
    ASSUME IInv, NEW c \in Messages, Busy(c), queue[c] > 0, result[c] = "none",
           queue' = [queue EXCEPT ![c] = @ - 1], UNCHANGED <<open, result>>
    PROVE  Stream!Send(c)
<1>1. \A m \in Messages : queue[m] \in 0 .. FramesOf[m] /\ FramesOf[m] \in Nat \ {0}
  BY DEF IInv, Places, WirePlaces
<1>2. queue \in [Messages -> Nat]
  BY DEF IInv, Control, TypeOK
<1>3. ASSUME NEW n \in Messages \ {c}, SocketOf[n] = SocketOf[c] PROVE Stream!Whole(n)
  <2>1. ~Busy(n)
    BY <1>3 DEF IInv, Exclusion, Alone
  <2>2. queue[n] = 0 \/ queue[n] = FramesOf[n]
    BY <1>1, <2>1 DEF Busy, Transmitting
  <2> QED
    BY <1>1, <2>2 DEF Stream!Whole
<1>4. FramesOf[c] - queue[c] < FramesOf[c]
  BY <1>1
<1>5. [m \in Messages |-> FramesOf[m] - queue'[m]]
        = [[m \in Messages |-> FramesOf[m] - queue[m]] EXCEPT ![c] = @ + 1]
  <2>1. FramesOf[c] - (queue[c] - 1) = FramesOf[c] - queue[c] + 1
    BY <1>1
  <2>2. queue'[c] = queue[c] - 1 /\ \A m \in Messages \ {c} : queue'[m] = queue[m]
    BY <1>2
  <2>3. \A m \in Messages : FramesOf[m] - queue'[m]
          = IF m = c THEN FramesOf[c] - queue[c] + 1 ELSE FramesOf[m] - queue[m]
    BY <2>1, <2>2
  <2> DEFINE f == [m \in Messages |-> FramesOf[m] - queue[m]]
             g == [m \in Messages |-> FramesOf[m] - queue'[m]]
  <2>4. f[c] + 1 = FramesOf[c] - queue[c] + 1
    OBVIOUS
  <2>5. g = [f EXCEPT ![c] = f[c] + 1]
    BY <2>3, <2>4, Zenon
  <2> QED
    BY <2>5
<1> QED
  BY <1>3, <1>4, <1>5 DEF Stream!Send

\* Every step of the write path is a step of the stream, or a stutter.
LEMMA StreamStep == IInv /\ [Next]_vars => [Stream!Next]_(Stream!vars)
<1> SUFFICES ASSUME IInv, [Next]_vars PROVE [Stream!Next]_(Stream!vars)
  OBVIOUS
<1>1. ASSUME NEW m \in Messages, Write(m) PROVE [Stream!Next]_(Stream!vars)
  <2>1. UNCHANGED <<open, queue, result>>
    BY <1>1 DEF Write
  <2> QED
    BY <2>1 DEF Stream!vars
<1>2. ASSUME NEW m \in Messages, TransportOk(m) PROVE [Stream!Next]_(Stream!vars)
  <2>1. UNCHANGED <<open, queue, result>>
    BY <1>2 DEF TransportOk
  <2> QED
    BY <2>1 DEF Stream!vars
<1>3. ASSUME NEW m \in Messages, TransportError(m) PROVE [Stream!Next]_(Stream!vars)
  <2>1. UNCHANGED <<open, queue, result>>
    BY <1>3 DEF TransportError
  <2> QED
    BY <2>1 DEF Stream!vars
<1>4. ASSUME NEW h \in HubThreads, HubPop(h) PROVE [Stream!Next]_(Stream!vars)
  <2>1. UNCHANGED <<open, queue, result>>
    BY <1>4 DEF HubPop
  <2> QED
    BY <2>1 DEF Stream!vars
<1>5. ASSUME NEW h \in HubThreads, HubEnd(h) PROVE [Stream!Next]_(Stream!vars)
  <2>1. UNCHANGED <<open, queue, result>>
    BY <1>5 DEF HubEnd
  <2> QED
    BY <2>1 DEF Stream!vars
<1>6. ASSUME NEW h \in HubThreads, HubTestOpen(h) PROVE [Stream!Next]_(Stream!vars)
  <2>1. UNCHANGED <<open, queue, result>>
    BY <1>6 DEF HubTestOpen
  <2> QED
    BY <2>1 DEF Stream!vars
<1>7. ASSUME NEW h \in HubThreads, HubTestWriting(h) PROVE [Stream!Next]_(Stream!vars)
  <2>1. UNCHANGED <<open, queue, result>>
    BY <1>7 DEF HubTestWriting
  <2> QED
    BY <2>1 DEF Stream!vars
<1>8. ASSUME NEW h \in HubThreads, HubClaim(h) PROVE [Stream!Next]_(Stream!vars)
  <2>1. UNCHANGED <<open, queue, result>>
    BY <1>8 DEF HubClaim
  <2> QED
    BY <2>1 DEF Stream!vars
<1>9. ASSUME NEW h \in HubThreads, HubRetestOpen(h) PROVE [Stream!Next]_(Stream!vars)
  <2>1. UNCHANGED <<open, queue, result>>
    BY <1>9 DEF HubRetestOpen
  <2> QED
    BY <2>1 DEF Stream!vars
<1>10. ASSUME NEW h \in HubThreads, HubRetestWriting(h) PROVE [Stream!Next]_(Stream!vars)
  <2>1. UNCHANGED <<open, queue, result>>
    BY <1>10 DEF HubRetestWriting
  <2> QED
    BY <2>1 DEF Stream!vars
<1>11. ASSUME NEW h \in HubThreads, HubFrame(h) PROVE [Stream!Next]_(Stream!vars)
  <2>1. UNCHANGED <<open, queue, result>>
    BY <1>11 DEF HubFrame
  <2> QED
    BY <2>1 DEF Stream!vars
<1>12. ASSUME NEW h \in HubThreads, HubStart(h) PROVE [Stream!Next]_(Stream!vars)
  <2>1. PICK c \in Messages : c = hubMsg[h] /\ AtHub(h, c)
    BY <1>12 DEF HubStart, HubStep, IInv, Control, HubControl, AtHub
  <2>2. queue[c] > 0 /\ result[c] = "none"
    BY <2>1 DEF IInv, Places, HubPlaces, Untouched
  <2>3. Busy(c)
    BY <1>12, <2>1 DEF HubStart, HubStep, Busy
  <2>4. queue' = [queue EXCEPT ![c] = @ - 1] /\ UNCHANGED <<open, result>>
    BY <1>12, <2>1 DEF HubStart, StartFrame
  <2>5. Stream!Send(c)
    BY <2>1, <2>2, <2>3, <2>4, SendStep
  <2> QED
    BY <2>1, <2>5 DEF Stream!Next
<1>13. ASSUME NEW h \in HubThreads, HubRelease(h) PROVE [Stream!Next]_(Stream!vars)
  <2>1. UNCHANGED <<open, queue, result>>
    BY <1>13 DEF HubRelease
  <2> QED
    BY <2>1 DEF Stream!vars
<1>14. ASSUME NEW h \in HubThreads, HubCallback(h) PROVE [Stream!Next]_(Stream!vars)
  <2>1. hubMsg[h] \in Messages /\ AtHub(h, hubMsg[h])
    BY <1>14 DEF HubCallback, IInv, Control, HubControl, AtHub
  <2>2. result[hubMsg[h]] = "none"
    BY <2>1 DEF IInv, Places, HubPlaces, Untouched
  <2>3. ~open[SocketOf[hubMsg[h]]]
    BY <1>14 DEF HubCallback, IInv, Exclusion, GiveUp, Sock
  <2>4. result' = [result EXCEPT ![hubMsg[h]] = "true"] /\ UNCHANGED <<open, queue>>
    BY <1>14 DEF HubCallback, Report
  <2>5. Stream!Succeed(hubMsg[h])
    BY <2>2, <2>3, <2>4 DEF Stream!Succeed
  <2> QED
    BY <2>1, <2>5 DEF Stream!Next
<1>15. ASSUME NEW h \in HubThreads, RouterEnd(h) PROVE [Stream!Next]_(Stream!vars)
  <2>1. UNCHANGED <<open, queue, result>>
    BY <1>15 DEF RouterEnd
  <2> QED
    BY <2>1 DEF Stream!vars
<1>16. ASSUME NEW h \in HubThreads, RouterWake(h) PROVE [Stream!Next]_(Stream!vars)
  <2>1. UNCHANGED <<open, queue, result>>
    BY <1>16 DEF RouterWake
  <2> QED
    BY <2>1 DEF Stream!vars
<1>17. ASSUME NEW s \in Sockets, IoFrame(s) PROVE [Stream!Next]_(Stream!vars)
  <2>1. UNCHANGED <<open, queue, result>>
    BY <1>17 DEF IoFrame
  <2> QED
    BY <2>1 DEF Stream!vars
<1>18. ASSUME NEW s \in Sockets, IoStart(s) PROVE [Stream!Next]_(Stream!vars)
  <2>1. PICK c \in Messages : c = ioMsg[s] /\ AtIo(s, c)
    BY <1>18 DEF IoStart, IoStep, IInv, Control, TypeOK, IoControl, AtIo
  <2>2. queue[c] > 0 /\ result[c] = "none"
    BY <1>18, <2>1 DEF IInv, Places, IoPlaces, IoStart, IoStep
  <2>3. Busy(c)
    BY <1>18, <2>1 DEF IoStart, IoStep, Busy
  <2>4. queue' = [queue EXCEPT ![c] = @ - 1] /\ UNCHANGED <<open, result>>
    BY <1>18, <2>1 DEF IoStart, StartFrame
  <2>5. Stream!Send(c)
    BY <2>1, <2>2, <2>3, <2>4, SendStep
  <2> QED
    BY <2>1, <2>5 DEF Stream!Next
<1>19. ASSUME NEW s \in Sockets, IoRelease(s) PROVE [Stream!Next]_(Stream!vars)
  <2>1. UNCHANGED <<open, queue, result>>
    BY <1>19 DEF IoRelease
  <2> QED
    BY <2>1 DEF Stream!vars
<1>20. ASSUME NEW s \in Sockets, IoCallback(s) PROVE [Stream!Next]_(Stream!vars)
  <2>1. ioMsg[s] \in Messages /\ AtIo(s, ioMsg[s])
    BY <1>20 DEF IoCallback, IInv, Control, TypeOK, IoControl, AtIo
  <2>2. result[ioMsg[s]] = "none"
    BY <2>1 DEF IInv, Places, IoPlaces
  <2>3. queue[ioMsg[s]] = 0 \/ ~open[SocketOf[ioMsg[s]]]
    BY <1>20, <2>1 DEF IoCallback, IInv, Progress, NothingToWrite
  <2>4. result' = [result EXCEPT ![ioMsg[s]] = "true"] /\ UNCHANGED <<open, queue>>
    BY <1>20 DEF IoCallback, Report
  <2>5. FramesOf[ioMsg[s]] - queue[ioMsg[s]] = FramesOf[ioMsg[s]] \/ ~open[SocketOf[ioMsg[s]]]
    BY <2>1, <2>3
  <2>6. Stream!Succeed(ioMsg[s])
    BY <2>1, <2>2, <2>4, <2>5 DEF Stream!Succeed
  <2> QED
    BY <2>1, <2>6 DEF Stream!Next
<1>21. ASSUME NEW s \in Sockets, IoFailed(s) PROVE [Stream!Next]_(Stream!vars)
  <2>1. ioMsg[s] \in Messages /\ AtIo(s, ioMsg[s]) /\ SocketOf[ioMsg[s]] = s
    BY <1>21 DEF IoFailed, IInv, Control, TypeOK, IoControl, AtIo
  <2>2. result[ioMsg[s]] = "none"
    BY <2>1 DEF IInv, Places, IoPlaces
  <2>3. queue[ioMsg[s]] \in 0 .. FramesOf[ioMsg[s]] /\ queue[ioMsg[s]] < FramesOf[ioMsg[s]]
    BY <2>1 DEF IInv, Places, WirePlaces, Progress
  <2>4. ~open[SocketOf[ioMsg[s]]]
    BY <1>21, <2>1 DEF IoFailed, IInv, Control, CloseControl
  <2>5. result' = [result EXCEPT ![ioMsg[s]] = "false"] /\ UNCHANGED <<open, queue>>
    BY <1>21 DEF IoFailed, Report
  <2>6. FramesOf[ioMsg[s]] - queue[ioMsg[s]] > 0
    BY <2>1, <2>3
  <2>7. Stream!Fail(ioMsg[s])
    BY <2>1, <2>2, <2>4, <2>5, <2>6 DEF Stream!Fail
  <2> QED
    BY <2>1, <2>7 DEF Stream!Next
<1>22. ASSUME NEW s \in Sockets, IoTestClose(s) PROVE [Stream!Next]_(Stream!vars)
  <2>1. UNCHANGED <<open, queue, result>>
    BY <1>22 DEF IoTestClose
  <2> QED
    BY <2>1 DEF Stream!vars
<1>23. ASSUME NEW s \in Sockets, IoClearOpen(s) PROVE [Stream!Next]_(Stream!vars)
  <2>1. open' = [open EXCEPT ![s] = FALSE] /\ UNCHANGED <<queue, result>>
    BY <1>23 DEF IoClearOpen, ClearOpen
  <2>2. Stream!Close(s)
    BY <2>1 DEF Stream!Close
  <2> QED
    BY <2>2 DEF Stream!Next
<1>24. ASSUME NEW s \in Sockets, IoClearWriting(s) PROVE [Stream!Next]_(Stream!vars)
  <2>1. UNCHANGED <<open, queue, result>>
    BY <1>24 DEF IoClearWriting
  <2> QED
    BY <2>1 DEF Stream!vars
<1>25. ASSUME NEW s \in Sockets, IoReply(s) PROVE [Stream!Next]_(Stream!vars)
  <2>1. UNCHANGED <<open, queue, result>>
    BY <1>25 DEF IoReply
  <2> QED
    BY <2>1 DEF Stream!vars
<1>26. ASSUME NEW s \in Sockets, IoTimeout(s) PROVE [Stream!Next]_(Stream!vars)
  <2>1. UNCHANGED <<open, queue, result>>
    BY <1>26 DEF IoTimeout
  <2> QED
    BY <2>1 DEF Stream!vars
<1>27. ASSUME NEW s \in Sockets, IoPeerClose(s) PROVE [Stream!Next]_(Stream!vars)
  <2>1. UNCHANGED <<open, queue, result>>
    BY <1>27 DEF IoPeerClose
  <2> QED
    BY <2>1 DEF Stream!vars
<1>28. ASSUME NEW s \in Sockets, Expire(s) PROVE [Stream!Next]_(Stream!vars)
  <2>1. UNCHANGED <<open, queue, result>>
    BY <1>28 DEF Expire
  <2> QED
    BY <2>1 DEF Stream!vars
<1>29. ASSUME NEW s \in Sockets, NEW m \in Messages, IoComplete(s, m) PROVE [Stream!Next]_(Stream!vars)
  <2>1. UNCHANGED <<open, queue, result>>
    BY <1>29 DEF IoComplete
  <2> QED
    BY <2>1 DEF Stream!vars
<1>30. ASSUME NEW u \in Users, NEW s \in Sockets, UserClose(u, s) PROVE [Stream!Next]_(Stream!vars)
  <2>1. UNCHANGED <<open, queue, result>>
    BY <1>30 DEF UserClose
  <2> QED
    BY <2>1 DEF Stream!vars
<1>31. ASSUME NEW u \in Users, UserClearOpen(u) PROVE [Stream!Next]_(Stream!vars)
  <2>1. userSock[u] \in Sockets
    BY DEF IInv, Control, TypeOK
  <2>2. open' = [open EXCEPT ![userSock[u]] = FALSE] /\ UNCHANGED <<queue, result>>
    BY <1>31 DEF UserClearOpen, ClearOpen
  <2>3. Stream!Close(userSock[u])
    BY <2>2 DEF Stream!Close
  <2> QED
    BY <2>1, <2>3 DEF Stream!Next
<1>32. ASSUME NEW u \in Users, UserClearWriting(u) PROVE [Stream!Next]_(Stream!vars)
  <2>1. UNCHANGED <<open, queue, result>>
    BY <1>32 DEF UserClearWriting
  <2> QED
    BY <2>1 DEF Stream!vars
<1>33. CASE UNCHANGED vars
  BY <1>33 DEF vars, Stream!vars
<1> QED
  BY <1>1, <1>2, <1>3, <1>4, <1>5, <1>6, <1>7, <1>8, <1>9, <1>10, <1>11, <1>12, <1>13, <1>14, <1>15, <1>16, <1>17, <1>18, <1>19, <1>20, <1>21, <1>22, <1>23, <1>24, <1>25, <1>26, <1>27, <1>28, <1>29, <1>30, <1>31, <1>32, <1>33
     DEF Next, HubNext, IoNext, IoContinue, UserContinue

\* Seen from its sockets the write path is the abstract stream of FrameStream:
\* frames of a message in one piece, callbacks once and only when an outcome
\* is known (websocket_hub::send and write_frame, websocket::close).
THEOREM ImplementsStream == Spec => StreamSpec
<1>1. Init => Stream!Init
  BY DEF Init, Stream!Init
<1> QED
  BY <1>1, StreamStep, InductiveInvariant, PTL DEF Spec, StreamSpec, Stream!Spec
=============================================================================
