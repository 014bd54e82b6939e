------------------------ MODULE HttpConnectionProofs ------------------------
(***************************************************************************)
(* Proofs about HttpConnection, for any number of requests.                *)
(*                                                                         *)
(* The invariant is inductive with two additions: socket_close_ tells      *)
(* whether the connection still owns an open socket, and whoever is busy,  *)
(* other than in reading a body or in holding the guard, has begun the     *)
(* response to the last request.                                           *)
(***************************************************************************)
EXTENDS HttpConnection, TLAPS

\* socket_close_ is set as soon as the socket is not open for both ways, and
\* before the draining starts.
SockFlag ==
    /\ socketClose <=> sock # "open"
    /\ Busy("drain") => socketClose

\* The response to the last request is due only while its body is read or a
\* route defers it.
Due ==
    /\ received \in Nat /\ begun \in Nat
    /\ begun = received \/ begun = received - 1
    /\ received <= MaxRequests
    /\ \A o \in Ops \ {"readBody"} : Busy(o) => begun = received
    /\ Busy("readBody") \/ guard # "none" => begun = received - 1

\* A refused request leaves nothing to read and nothing to wait for.
Refused == terminate => guard = "none" /\ \A o \in Reads : ~Busy(o)

Types ==
    /\ sock \in {"open", "half", "closed", "moved"}
    /\ socketClose \in BOOLEAN
    /\ terminate \in BOOLEAN
    /\ ops \in [Ops -> OpStates]
    /\ armed \subseteq Timers
    /\ expired \subseteq Timers
    /\ guard \in Guards
    /\ keepAlive \in BOOLEAN
    /\ websocket \in BOOLEAN
    /\ chunked \in BOOLEAN
    /\ peer \in {"open", "closed"}

IInv == Types /\ Due /\ SockFlag /\ Refused /\ OneActivity /\ Timed /\ HandedOver

USE MaxRequestsAssumption
    DEF flags, requestVars, Reads, Writes, Ops, OpStates, Timers, Guards

-----------------------------------------------------------------------------
LEMMA TypesStep == IInv /\ [Next]_vars => Types'
<1> SUFFICES ASSUME IInv, [Next]_vars PROVE Types'
  OBVIOUS
<1> USE DEF IInv, Types
<1>1. ASSUME NEW o \in Ops, TransportOk(o) PROVE Types'
  BY <1>1 DEF TransportOk
<1>2. ASSUME NEW o \in Ops, TransportError(o) PROVE Types'
  BY <1>2 DEF TransportError
<1>3. ASSUME NEW o \in Ops, Failed(o) PROVE Types'
  BY <1>3 DEF Failed, Finish, Disconnect
<1>4. ASSUME NEW o \in Ops, ResponseDone(o) PROVE Types'
  BY ZenonT(60), <1>4 DEF ResponseDone, TerminateRequest, Close, AfterRead, Finish, Continue, Disconnect
<1>5. ASSUME NEW t \in Timers, Expire(t) PROVE Types'
  BY <1>5 DEF Expire
<1>6. ASSUME NEW t \in Timers, IoExpiry(t) PROVE Types'
  BY <1>6 DEF IoExpiry, Disconnect
<1>7. ASSUME PeerClose PROVE Types'
  BY <1>7 DEF PeerClose
<1>8. ASSUME Drained PROVE Types'
  BY <1>8 DEF Drained, Finish
<1>9. ASSUME HeaderMore PROVE Types'
  BY <1>9 DEF HeaderMore, Continue, AfterHeader
<1>10. ASSUME HeaderRefused PROVE Types'
  BY ZenonT(60), <1>10 DEF HeaderRefused, HeaderParsed, Refuse, Respond, FirstOp, Finish, Continue, AfterHeader
<1>11. ASSUME HeaderRoute PROVE Types'
  BY ZenonT(60), <1>11 DEF HeaderRoute, HeaderParsed, PostRouter, Respond, FirstOp, Finish, Continue, AfterHeader
<1>12. ASSUME HeaderBody PROVE Types'
  BY <1>12 DEF HeaderBody, HeaderParsed, Continue, AfterHeader
<1>13. ASSUME BodyMore PROVE Types'
  BY <1>13 DEF BodyMore, Continue, AfterRead
<1>14. ASSUME BodyRefused PROVE Types'
  BY ZenonT(60), <1>14 DEF BodyRefused, Refuse, Respond, FirstOp, Finish, Continue, AfterRead
<1>15. ASSUME BodyRoute PROVE Types'
  BY ZenonT(60), <1>15 DEF BodyRoute, PostRouter, Respond, FirstOp, Finish, Continue, AfterRead
<1>16. ASSUME BodyDropped PROVE Types'
  BY <1>16 DEF BodyDropped, Finish, AfterRead
<1>24. ASSUME HeaderDropped PROVE Types'
  BY <1>24 DEF HeaderDropped, HeaderParsed, Finish, AfterHeader
<1>17. ASSUME ChunkFirst PROVE Types'
  BY ZenonT(60), <1>17 DEF ChunkFirst, ChunkStep, Finish, Continue, AfterRead
<1>18. ASSUME ChunkNext PROVE Types'
  BY ZenonT(60), <1>18 DEF ChunkNext, ChunkStep, Finish, Continue, AfterRead
<1>19. ASSUME ChunkLast PROVE Types'
  BY ZenonT(60), <1>19 DEF ChunkLast, ChunkStep, Finish, Continue, AfterRead
<1>20. ASSUME Upgraded PROVE Types'
  BY ZenonT(60), <1>20 DEF Upgraded, TerminateRequest, Finish, Continue
<1>21. ASSUME UserRelease PROVE Types'
  BY <1>21 DEF UserRelease
<1>22. ASSUME UserTest PROVE Types'
  BY <1>22 DEF UserTest
<1>23. ASSUME UserStart PROVE Types'
  BY <1>23 DEF UserStart, FirstOp
<1>25. CASE UNCHANGED vars
  BY <1>25 DEF vars
<1> QED
  BY <1>1, <1>2, <1>3, <1>4, <1>5, <1>6, <1>7, <1>8, <1>9, <1>10,
     <1>11, <1>12, <1>13, <1>14, <1>15, <1>16, <1>17, <1>18, <1>19, <1>20,
     <1>21, <1>22, <1>23, <1>24, <1>25
     DEF Next, HeaderHandler, BodyHandler, ChunkHandler

LEMMA DueStep == IInv /\ [Next]_vars => Due'
<1> SUFFICES ASSUME IInv, [Next]_vars PROVE Due'
  OBVIOUS
<1> USE DEF IInv, Types, Due, OneActivity, Busy
<1>1. ASSUME NEW o \in Ops, TransportOk(o) PROVE Due'
  BY <1>1 DEF TransportOk
<1>2. ASSUME NEW o \in Ops, TransportError(o) PROVE Due'
  BY <1>2 DEF TransportError
<1>3. ASSUME NEW o \in Ops, Failed(o) PROVE Due'
  BY <1>3 DEF Failed, Finish, Disconnect
<1>4. ASSUME NEW o \in Ops, ResponseDone(o) PROVE Due'
  BY <1>4 DEF ResponseDone, TerminateRequest, Close, AfterRead, Finish, Continue, Disconnect
<1>5. ASSUME NEW t \in Timers, Expire(t) PROVE Due'
  BY <1>5 DEF Expire
<1>6. ASSUME NEW t \in Timers, IoExpiry(t) PROVE Due'
  BY <1>6 DEF IoExpiry, Disconnect
<1>7. ASSUME PeerClose PROVE Due'
  BY <1>7 DEF PeerClose
<1>8. ASSUME Drained PROVE Due'
  BY <1>8 DEF Drained, Finish
<1>9. ASSUME HeaderMore PROVE Due'
  BY <1>9 DEF HeaderMore, Continue, AfterHeader
<1>10. ASSUME HeaderRefused PROVE Due'
  BY <1>10 DEF HeaderRefused, HeaderParsed, Refuse, Respond, FirstOp, Finish, Continue, AfterHeader
<1>11. ASSUME HeaderRoute PROVE Due'
  BY <1>11 DEF HeaderRoute, HeaderParsed, PostRouter, Respond, FirstOp, Finish, Continue, AfterHeader
<1>12. ASSUME HeaderBody PROVE Due'
  BY <1>12 DEF HeaderBody, HeaderParsed, Continue, AfterHeader
<1>13. ASSUME BodyMore PROVE Due'
  BY <1>13 DEF BodyMore, Continue, AfterRead
<1>14. ASSUME BodyRefused PROVE Due'
  BY <1>14 DEF BodyRefused, Refuse, Respond, FirstOp, Finish, Continue, AfterRead
<1>15. ASSUME BodyRoute PROVE Due'
  BY <1>15 DEF BodyRoute, PostRouter, Respond, FirstOp, Finish, Continue, AfterRead
<1>16. ASSUME BodyDropped PROVE Due'
  BY <1>16 DEF BodyDropped, Finish, AfterRead
<1>24. ASSUME HeaderDropped PROVE Due'
  BY <1>24 DEF HeaderDropped, HeaderParsed, Finish, AfterHeader
<1>17. ASSUME ChunkFirst PROVE Due'
  BY <1>17 DEF ChunkFirst, ChunkStep, Finish, Continue, AfterRead
<1>18. ASSUME ChunkNext PROVE Due'
  BY <1>18 DEF ChunkNext, ChunkStep, Finish, Continue, AfterRead
<1>19. ASSUME ChunkLast PROVE Due'
  BY <1>19 DEF ChunkLast, ChunkStep, Finish, Continue, AfterRead
<1>20. ASSUME Upgraded PROVE Due'
  BY <1>20 DEF Upgraded, TerminateRequest, Finish, Continue
<1>21. ASSUME UserRelease PROVE Due'
  BY <1>21 DEF UserRelease
<1>22. ASSUME UserTest PROVE Due'
  BY <1>22 DEF UserTest
<1>23. ASSUME UserStart PROVE Due'
  BY <1>23 DEF UserStart, FirstOp
<1>25. CASE UNCHANGED vars
  BY <1>25 DEF vars
<1> QED
  BY <1>1, <1>2, <1>3, <1>4, <1>5, <1>6, <1>7, <1>8, <1>9, <1>10,
     <1>11, <1>12, <1>13, <1>14, <1>15, <1>16, <1>17, <1>18, <1>19, <1>20,
     <1>21, <1>22, <1>23, <1>24, <1>25
     DEF Next, HeaderHandler, BodyHandler, ChunkHandler

LEMMA SockFlagStep == IInv /\ [Next]_vars => SockFlag'
<1> SUFFICES ASSUME IInv, [Next]_vars PROVE SockFlag'
  OBVIOUS
<1> USE DEF IInv, Types, SockFlag, HandedOver, OneActivity, Busy
<1>1. ASSUME NEW o \in Ops, TransportOk(o) PROVE SockFlag'
  BY <1>1 DEF TransportOk
<1>2. ASSUME NEW o \in Ops, TransportError(o) PROVE SockFlag'
  BY <1>2 DEF TransportError
<1>3. ASSUME NEW o \in Ops, Failed(o) PROVE SockFlag'
  BY <1>3 DEF Failed, Finish, Disconnect
<1>4. ASSUME NEW o \in Ops, ResponseDone(o) PROVE SockFlag'
  BY <1>4 DEF ResponseDone, TerminateRequest, Close, AfterRead, Finish, Continue, Disconnect
<1>5. ASSUME NEW t \in Timers, Expire(t) PROVE SockFlag'
  BY <1>5 DEF Expire
<1>6. ASSUME NEW t \in Timers, IoExpiry(t) PROVE SockFlag'
  BY <1>6 DEF IoExpiry, Disconnect
<1>7. ASSUME PeerClose PROVE SockFlag'
  BY <1>7 DEF PeerClose
<1>8. ASSUME Drained PROVE SockFlag'
  BY <1>8 DEF Drained, Finish
<1>9. ASSUME HeaderMore PROVE SockFlag'
  BY <1>9 DEF HeaderMore, Continue, AfterHeader
<1>10. ASSUME HeaderRefused PROVE SockFlag'
  BY <1>10 DEF HeaderRefused, HeaderParsed, Refuse, Respond, FirstOp, Finish, Continue, AfterHeader
<1>11. ASSUME HeaderRoute PROVE SockFlag'
  BY <1>11 DEF HeaderRoute, HeaderParsed, PostRouter, Respond, FirstOp, Finish, Continue, AfterHeader
<1>12. ASSUME HeaderBody PROVE SockFlag'
  BY <1>12 DEF HeaderBody, HeaderParsed, Continue, AfterHeader
<1>13. ASSUME BodyMore PROVE SockFlag'
  BY <1>13 DEF BodyMore, Continue, AfterRead
<1>14. ASSUME BodyRefused PROVE SockFlag'
  BY <1>14 DEF BodyRefused, Refuse, Respond, FirstOp, Finish, Continue, AfterRead
<1>15. ASSUME BodyRoute PROVE SockFlag'
  BY <1>15 DEF BodyRoute, PostRouter, Respond, FirstOp, Finish, Continue, AfterRead
<1>16. ASSUME BodyDropped PROVE SockFlag'
  BY <1>16 DEF BodyDropped, Finish, AfterRead
<1>24. ASSUME HeaderDropped PROVE SockFlag'
  BY <1>24 DEF HeaderDropped, HeaderParsed, Finish, AfterHeader
<1>17. ASSUME ChunkFirst PROVE SockFlag'
  BY <1>17 DEF ChunkFirst, ChunkStep, Finish, Continue, AfterRead
<1>18. ASSUME ChunkNext PROVE SockFlag'
  BY <1>18 DEF ChunkNext, ChunkStep, Finish, Continue, AfterRead
<1>19. ASSUME ChunkLast PROVE SockFlag'
  BY <1>19 DEF ChunkLast, ChunkStep, Finish, Continue, AfterRead
<1>20. ASSUME Upgraded PROVE SockFlag'
  BY <1>20 DEF Upgraded, TerminateRequest, Finish, Continue
<1>21. ASSUME UserRelease PROVE SockFlag'
  BY <1>21 DEF UserRelease
<1>22. ASSUME UserTest PROVE SockFlag'
  BY <1>22 DEF UserTest
<1>23. ASSUME UserStart PROVE SockFlag'
  BY <1>23 DEF UserStart, FirstOp
<1>25. CASE UNCHANGED vars
  BY <1>25 DEF vars
<1> QED
  BY <1>1, <1>2, <1>3, <1>4, <1>5, <1>6, <1>7, <1>8, <1>9, <1>10,
     <1>11, <1>12, <1>13, <1>14, <1>15, <1>16, <1>17, <1>18, <1>19, <1>20,
     <1>21, <1>22, <1>23, <1>24, <1>25
     DEF Next, HeaderHandler, BodyHandler, ChunkHandler

LEMMA OneActivityStep == IInv /\ [Next]_vars => OneActivity'
<1> SUFFICES ASSUME IInv, [Next]_vars PROVE OneActivity'
  OBVIOUS
<1> USE DEF IInv, Types, OneActivity, Busy
<1>1. ASSUME NEW o \in Ops, TransportOk(o) PROVE OneActivity'
  BY <1>1 DEF TransportOk
<1>2. ASSUME NEW o \in Ops, TransportError(o) PROVE OneActivity'
  BY <1>2 DEF TransportError
<1>3. ASSUME NEW o \in Ops, Failed(o) PROVE OneActivity'
  BY <1>3 DEF Failed, Finish, Disconnect
<1>4. ASSUME NEW o \in Ops, ResponseDone(o) PROVE OneActivity'
  BY <1>4 DEF ResponseDone, TerminateRequest, Close, AfterRead, Finish, Continue, Disconnect
<1>5. ASSUME NEW t \in Timers, Expire(t) PROVE OneActivity'
  BY <1>5 DEF Expire
<1>6. ASSUME NEW t \in Timers, IoExpiry(t) PROVE OneActivity'
  BY <1>6 DEF IoExpiry, Disconnect
<1>7. ASSUME PeerClose PROVE OneActivity'
  BY <1>7 DEF PeerClose
<1>8. ASSUME Drained PROVE OneActivity'
  BY <1>8 DEF Drained, Finish
<1>9. ASSUME HeaderMore PROVE OneActivity'
  BY <1>9 DEF HeaderMore, Continue, AfterHeader
<1>10. ASSUME HeaderRefused PROVE OneActivity'
  BY <1>10 DEF HeaderRefused, HeaderParsed, Refuse, Respond, FirstOp, Finish, Continue, AfterHeader
<1>11. ASSUME HeaderRoute PROVE OneActivity'
  BY <1>11 DEF HeaderRoute, HeaderParsed, PostRouter, Respond, FirstOp, Finish, Continue, AfterHeader
<1>12. ASSUME HeaderBody PROVE OneActivity'
  BY <1>12 DEF HeaderBody, HeaderParsed, Continue, AfterHeader
<1>13. ASSUME BodyMore PROVE OneActivity'
  BY <1>13 DEF BodyMore, Continue, AfterRead
<1>14. ASSUME BodyRefused PROVE OneActivity'
  BY <1>14 DEF BodyRefused, Refuse, Respond, FirstOp, Finish, Continue, AfterRead
<1>15. ASSUME BodyRoute PROVE OneActivity'
  BY <1>15 DEF BodyRoute, PostRouter, Respond, FirstOp, Finish, Continue, AfterRead
<1>16. ASSUME BodyDropped PROVE OneActivity'
  BY <1>16 DEF BodyDropped, Finish, AfterRead
<1>24. ASSUME HeaderDropped PROVE OneActivity'
  BY <1>24 DEF HeaderDropped, HeaderParsed, Finish, AfterHeader
<1>17. ASSUME ChunkFirst PROVE OneActivity'
  BY <1>17 DEF ChunkFirst, ChunkStep, Finish, Continue, AfterRead
<1>18. ASSUME ChunkNext PROVE OneActivity'
  BY <1>18 DEF ChunkNext, ChunkStep, Finish, Continue, AfterRead
<1>19. ASSUME ChunkLast PROVE OneActivity'
  BY <1>19 DEF ChunkLast, ChunkStep, Finish, Continue, AfterRead
<1>20. ASSUME Upgraded PROVE OneActivity'
  BY <1>20 DEF Upgraded, TerminateRequest, Finish, Continue
<1>21. ASSUME UserRelease PROVE OneActivity'
  BY <1>21 DEF UserRelease
<1>22. ASSUME UserTest PROVE OneActivity'
  BY <1>22 DEF UserTest
<1>23. ASSUME UserStart PROVE OneActivity'
  BY <1>23 DEF UserStart, FirstOp
<1>25. CASE UNCHANGED vars
  BY <1>25 DEF vars
<1> QED
  BY <1>1, <1>2, <1>3, <1>4, <1>5, <1>6, <1>7, <1>8, <1>9, <1>10,
     <1>11, <1>12, <1>13, <1>14, <1>15, <1>16, <1>17, <1>18, <1>19, <1>20,
     <1>21, <1>22, <1>23, <1>24, <1>25
     DEF Next, HeaderHandler, BodyHandler, ChunkHandler

LEMMA TimedStep == IInv /\ [Next]_vars => Timed'
<1> SUFFICES ASSUME IInv, [Next]_vars PROVE Timed'
  OBVIOUS
<1> USE DEF IInv, Types, Timed, OneActivity, SockFlag, Busy
<1>1. ASSUME NEW o \in Ops, TransportOk(o) PROVE Timed'
  BY <1>1 DEF TransportOk
<1>2. ASSUME NEW o \in Ops, TransportError(o) PROVE Timed'
  BY <1>2 DEF TransportError
<1>3. ASSUME NEW o \in Ops, Failed(o) PROVE Timed'
  BY <1>3 DEF Failed, Finish, Disconnect
<1>4. ASSUME NEW o \in Ops, ResponseDone(o) PROVE Timed'
  BY <1>4 DEF ResponseDone, TerminateRequest, Close, AfterRead, Finish, Continue, Disconnect
<1>5. ASSUME NEW t \in Timers, Expire(t) PROVE Timed'
  BY <1>5 DEF Expire
<1>6. ASSUME NEW t \in Timers, IoExpiry(t) PROVE Timed'
  BY <1>6 DEF IoExpiry, Disconnect
<1>7. ASSUME PeerClose PROVE Timed'
  BY <1>7 DEF PeerClose
<1>8. ASSUME Drained PROVE Timed'
  BY <1>8 DEF Drained, Finish
<1>9. ASSUME HeaderMore PROVE Timed'
  BY <1>9 DEF HeaderMore, Continue, AfterHeader
<1>10. ASSUME HeaderRefused PROVE Timed'
  BY <1>10 DEF HeaderRefused, HeaderParsed, Refuse, Respond, FirstOp, Finish, Continue, AfterHeader
<1>11. ASSUME HeaderRoute PROVE Timed'
  BY <1>11 DEF HeaderRoute, HeaderParsed, PostRouter, Respond, FirstOp, Finish, Continue, AfterHeader
<1>12. ASSUME HeaderBody PROVE Timed'
  BY <1>12 DEF HeaderBody, HeaderParsed, Continue, AfterHeader
<1>13. ASSUME BodyMore PROVE Timed'
  BY <1>13 DEF BodyMore, Continue, AfterRead
<1>14. ASSUME BodyRefused PROVE Timed'
  BY <1>14 DEF BodyRefused, Refuse, Respond, FirstOp, Finish, Continue, AfterRead
<1>15. ASSUME BodyRoute PROVE Timed'
  BY <1>15 DEF BodyRoute, PostRouter, Respond, FirstOp, Finish, Continue, AfterRead
<1>16. ASSUME BodyDropped PROVE Timed'
  BY <1>16 DEF BodyDropped, Finish, AfterRead
<1>24. ASSUME HeaderDropped PROVE Timed'
  BY <1>24 DEF HeaderDropped, HeaderParsed, Finish, AfterHeader
<1>17. ASSUME ChunkFirst PROVE Timed'
  BY <1>17 DEF ChunkFirst, ChunkStep, Finish, Continue, AfterRead
<1>18. ASSUME ChunkNext PROVE Timed'
  BY <1>18 DEF ChunkNext, ChunkStep, Finish, Continue, AfterRead
<1>19. ASSUME ChunkLast PROVE Timed'
  BY <1>19 DEF ChunkLast, ChunkStep, Finish, Continue, AfterRead
<1>20. ASSUME Upgraded PROVE Timed'
  BY <1>20 DEF Upgraded, TerminateRequest, Finish, Continue
<1>21. ASSUME UserRelease PROVE Timed'
  BY <1>21 DEF UserRelease
<1>22. ASSUME UserTest PROVE Timed'
  BY <1>22 DEF UserTest
<1>23. ASSUME UserStart PROVE Timed'
  BY <1>23 DEF UserStart, FirstOp
<1>25. CASE UNCHANGED vars
  BY <1>25 DEF vars
<1> QED
  BY <1>1, <1>2, <1>3, <1>4, <1>5, <1>6, <1>7, <1>8, <1>9, <1>10,
     <1>11, <1>12, <1>13, <1>14, <1>15, <1>16, <1>17, <1>18, <1>19, <1>20,
     <1>21, <1>22, <1>23, <1>24, <1>25
     DEF Next, HeaderHandler, BodyHandler, ChunkHandler

LEMMA HandedOverStep == IInv /\ [Next]_vars => HandedOver'
<1> SUFFICES ASSUME IInv, [Next]_vars PROVE HandedOver'
  OBVIOUS
<1> USE DEF IInv, Types, HandedOver, SockFlag, OneActivity, Busy
<1>1. ASSUME NEW o \in Ops, TransportOk(o) PROVE HandedOver'
  BY <1>1 DEF TransportOk
<1>2. ASSUME NEW o \in Ops, TransportError(o) PROVE HandedOver'
  BY <1>2 DEF TransportError
<1>3. ASSUME NEW o \in Ops, Failed(o) PROVE HandedOver'
  BY <1>3 DEF Failed, Finish, Disconnect
<1>4. ASSUME NEW o \in Ops, ResponseDone(o) PROVE HandedOver'
  BY <1>4 DEF ResponseDone, TerminateRequest, Close, AfterRead, Finish, Continue, Disconnect
<1>5. ASSUME NEW t \in Timers, Expire(t) PROVE HandedOver'
  BY <1>5 DEF Expire
<1>6. ASSUME NEW t \in Timers, IoExpiry(t) PROVE HandedOver'
  BY <1>6 DEF IoExpiry, Disconnect
<1>7. ASSUME PeerClose PROVE HandedOver'
  BY <1>7 DEF PeerClose
<1>8. ASSUME Drained PROVE HandedOver'
  BY <1>8 DEF Drained, Finish
<1>9. ASSUME HeaderMore PROVE HandedOver'
  BY <1>9 DEF HeaderMore, Continue, AfterHeader
<1>10. ASSUME HeaderRefused PROVE HandedOver'
  BY <1>10 DEF HeaderRefused, HeaderParsed, Refuse, Respond, FirstOp, Finish, Continue, AfterHeader
<1>11. ASSUME HeaderRoute PROVE HandedOver'
  BY <1>11 DEF HeaderRoute, HeaderParsed, PostRouter, Respond, FirstOp, Finish, Continue, AfterHeader
<1>12. ASSUME HeaderBody PROVE HandedOver'
  BY <1>12 DEF HeaderBody, HeaderParsed, Continue, AfterHeader
<1>13. ASSUME BodyMore PROVE HandedOver'
  BY <1>13 DEF BodyMore, Continue, AfterRead
<1>14. ASSUME BodyRefused PROVE HandedOver'
  BY <1>14 DEF BodyRefused, Refuse, Respond, FirstOp, Finish, Continue, AfterRead
<1>15. ASSUME BodyRoute PROVE HandedOver'
  BY <1>15 DEF BodyRoute, PostRouter, Respond, FirstOp, Finish, Continue, AfterRead
<1>16. ASSUME BodyDropped PROVE HandedOver'
  BY <1>16 DEF BodyDropped, Finish, AfterRead
<1>24. ASSUME HeaderDropped PROVE HandedOver'
  BY <1>24 DEF HeaderDropped, HeaderParsed, Finish, AfterHeader
<1>17. ASSUME ChunkFirst PROVE HandedOver'
  BY <1>17 DEF ChunkFirst, ChunkStep, Finish, Continue, AfterRead
<1>18. ASSUME ChunkNext PROVE HandedOver'
  BY <1>18 DEF ChunkNext, ChunkStep, Finish, Continue, AfterRead
<1>19. ASSUME ChunkLast PROVE HandedOver'
  BY <1>19 DEF ChunkLast, ChunkStep, Finish, Continue, AfterRead
<1>20. ASSUME Upgraded PROVE HandedOver'
  BY <1>20 DEF Upgraded, TerminateRequest, Finish, Continue
<1>21. ASSUME UserRelease PROVE HandedOver'
  BY <1>21 DEF UserRelease
<1>22. ASSUME UserTest PROVE HandedOver'
  BY <1>22 DEF UserTest
<1>23. ASSUME UserStart PROVE HandedOver'
  BY <1>23 DEF UserStart, FirstOp
<1>25. CASE UNCHANGED vars
  BY <1>25 DEF vars
<1> QED
  BY <1>1, <1>2, <1>3, <1>4, <1>5, <1>6, <1>7, <1>8, <1>9, <1>10,
     <1>11, <1>12, <1>13, <1>14, <1>15, <1>16, <1>17, <1>18, <1>19, <1>20,
     <1>21, <1>22, <1>23, <1>24, <1>25
     DEF Next, HeaderHandler, BodyHandler, ChunkHandler

LEMMA RefusedStep == IInv /\ [Next]_vars => Refused'
<1> SUFFICES ASSUME IInv, [Next]_vars PROVE Refused'
  OBVIOUS
<1> USE DEF IInv, Types, Refused, OneActivity, Busy
<1>1. ASSUME NEW o \in Ops, TransportOk(o) PROVE Refused'
  BY <1>1 DEF TransportOk
<1>2. ASSUME NEW o \in Ops, TransportError(o) PROVE Refused'
  BY <1>2 DEF TransportError
<1>3. ASSUME NEW o \in Ops, Failed(o) PROVE Refused'
  BY <1>3 DEF Failed, Finish, Disconnect
<1>4. ASSUME NEW o \in Ops, ResponseDone(o) PROVE Refused'
  BY ZenonT(60), <1>4 DEF ResponseDone, TerminateRequest, Close, AfterRead, Finish, Continue, Disconnect
<1>5. ASSUME NEW t \in Timers, Expire(t) PROVE Refused'
  BY <1>5 DEF Expire
<1>6. ASSUME NEW t \in Timers, IoExpiry(t) PROVE Refused'
  BY <1>6 DEF IoExpiry, Disconnect
<1>7. ASSUME PeerClose PROVE Refused'
  BY <1>7 DEF PeerClose
<1>8. ASSUME Drained PROVE Refused'
  BY <1>8 DEF Drained, Finish
<1>9. ASSUME HeaderMore PROVE Refused'
  BY <1>9 DEF HeaderMore, Continue, AfterHeader
<1>10. ASSUME HeaderRefused PROVE Refused'
  BY <1>10 DEF HeaderRefused, HeaderParsed, Refuse, Respond, FirstOp, Finish, Continue, AfterHeader
<1>11. ASSUME HeaderRoute PROVE Refused'
  BY <1>11 DEF HeaderRoute, HeaderParsed, PostRouter, Respond, FirstOp, Finish, Continue, AfterHeader
<1>12. ASSUME HeaderBody PROVE Refused'
  BY <1>12 DEF HeaderBody, HeaderParsed, Continue, AfterHeader
<1>13. ASSUME BodyMore PROVE Refused'
  BY <1>13 DEF BodyMore, Continue, AfterRead
<1>14. ASSUME BodyRefused PROVE Refused'
  BY <1>14 DEF BodyRefused, Refuse, Respond, FirstOp, Finish, Continue, AfterRead
<1>15. ASSUME BodyRoute PROVE Refused'
  BY <1>15 DEF BodyRoute, PostRouter, Respond, FirstOp, Finish, Continue, AfterRead
<1>16. ASSUME BodyDropped PROVE Refused'
  BY <1>16 DEF BodyDropped, Finish, AfterRead
<1>24. ASSUME HeaderDropped PROVE Refused'
  BY <1>24 DEF HeaderDropped, HeaderParsed, Finish, AfterHeader
<1>17. ASSUME ChunkFirst PROVE Refused'
  BY <1>17 DEF ChunkFirst, ChunkStep, Finish, Continue, AfterRead
<1>18. ASSUME ChunkNext PROVE Refused'
  BY <1>18 DEF ChunkNext, ChunkStep, Finish, Continue, AfterRead
<1>19. ASSUME ChunkLast PROVE Refused'
  BY <1>19 DEF ChunkLast, ChunkStep, Finish, Continue, AfterRead
<1>20. ASSUME Upgraded PROVE Refused'
  BY ZenonT(60), <1>20 DEF Upgraded, TerminateRequest, Finish, Continue
<1>21. ASSUME UserRelease PROVE Refused'
  BY <1>21 DEF UserRelease
<1>22. ASSUME UserTest PROVE Refused'
  BY <1>22 DEF UserTest
<1>23. ASSUME UserStart PROVE Refused'
  BY <1>23 DEF UserStart, FirstOp
<1>25. CASE UNCHANGED vars
  BY <1>25 DEF vars
<1> QED
  BY <1>1, <1>2, <1>3, <1>4, <1>5, <1>6, <1>7, <1>8, <1>9, <1>10,
     <1>11, <1>12, <1>13, <1>14, <1>15, <1>16, <1>17, <1>18, <1>19, <1>20,
     <1>21, <1>22, <1>23, <1>24, <1>25
     DEF Next, HeaderHandler, BodyHandler, ChunkHandler

-----------------------------------------------------------------------------
LEMMA InitInv == Init => IInv
<1> SUFFICES ASSUME Init PROVE IInv
  OBVIOUS
<1>1. \A o \in Ops : Busy(o) <=> o = "readHeader"
  BY DEF Init, Busy
<1>2. Types
  BY DEF Init, Types
<1>3. Due
  BY <1>1 DEF Init, Due
<1>4. SockFlag /\ OneActivity /\ HandedOver /\ Refused
  BY <1>1 DEF Init, SockFlag, OneActivity, HandedOver, Refused
<1>5. Timed
  BY DEF Init, Timed
<1> QED
  BY <1>2, <1>3, <1>4, <1>5 DEF IInv

LEMMA NextInv == IInv /\ [Next]_vars => IInv'
BY TypesStep, DueStep, SockFlagStep, RefusedStep, OneActivityStep, TimedStep, HandedOverStep DEF IInv

\* Every reachable state of the connection satisfies the inductive invariant.
THEOREM InductiveInvariant == Spec => []IInv
BY InitInv, NextInv, PTL DEF Spec

\* The variables keep their types, and no more responses begin than requests
\* were received.
THEOREM TypeCorrect == Spec => []TypeOK
<1>1. IInv => TypeOK
  BY DEF IInv, Types, Due, TypeOK
<1> QED
  BY <1>1, InductiveInvariant, PTL

\* The io thread's operations and the thread that releases a deferred
\* response never use the socket and the response at the same time
\* (connection::post_router and ~defer_guarder).
THEOREM OneActivityHolds == Spec => []OneActivity
<1>1. IInv => OneActivity
  BY DEF IInv
<1> QED
  BY <1>1, InductiveInvariant, PTL

\* Requests and responses alternate, however they end (connection::close,
\* request_error, terminate_write).
THEOREM AlternationHolds == Spec => []Alternation
<1>1. IInv => Alternation
  BY DEF IInv, Due, Types, Alternation, Busy
<1> QED
  BY <1>1, InductiveInvariant, PTL

\* Whatever is outstanding on an open socket is timed (start_read_waiter and
\* start_defer_waiter).
THEOREM TimedHolds == Spec => []Timed
<1>1. IInv => Timed
  BY DEF IInv
<1> QED
  BY <1>1, InductiveInvariant, PTL

\* The connection leaves the socket alone once a websocket has it
\* (connection::forward_write).
THEOREM HandedOverHolds == Spec => []HandedOver
<1>1. IInv => HandedOver
  BY DEF IInv
<1> QED
  BY <1>1, InductiveInvariant, PTL

LEMMA RefusalStep == IInv /\ [Next]_vars => (terminate => terminate')
<1> SUFFICES ASSUME IInv, [Next]_vars PROVE (terminate => terminate')
  OBVIOUS
<1> USE DEF IInv, Types, Refused, Busy
<1>1. ASSUME NEW o \in Ops, TransportOk(o) PROVE (terminate => terminate')
  BY <1>1 DEF TransportOk
<1>2. ASSUME NEW o \in Ops, TransportError(o) PROVE (terminate => terminate')
  BY <1>2 DEF TransportError
<1>3. ASSUME NEW o \in Ops, Failed(o) PROVE (terminate => terminate')
  BY <1>3 DEF Failed, Finish, Disconnect
<1>4. ASSUME NEW o \in Ops, ResponseDone(o) PROVE (terminate => terminate')
  BY <1>4 DEF ResponseDone, TerminateRequest, Close, AfterRead, Finish, Continue, Disconnect
<1>5. ASSUME NEW t \in Timers, Expire(t) PROVE (terminate => terminate')
  BY <1>5 DEF Expire
<1>6. ASSUME NEW t \in Timers, IoExpiry(t) PROVE (terminate => terminate')
  BY <1>6 DEF IoExpiry, Disconnect
<1>7. ASSUME PeerClose PROVE (terminate => terminate')
  BY <1>7 DEF PeerClose
<1>8. ASSUME Drained PROVE (terminate => terminate')
  BY <1>8 DEF Drained, Finish
<1>9. ASSUME HeaderMore PROVE (terminate => terminate')
  BY <1>9 DEF HeaderMore, Continue, AfterHeader
<1>10. ASSUME HeaderRefused PROVE (terminate => terminate')
  BY <1>10 DEF HeaderRefused, HeaderParsed, Refuse, Respond, FirstOp, Finish, Continue, AfterHeader
<1>11. ASSUME HeaderRoute PROVE (terminate => terminate')
  BY <1>11 DEF HeaderRoute, HeaderParsed, PostRouter, Respond, FirstOp, Finish, Continue, AfterHeader
<1>12. ASSUME HeaderBody PROVE (terminate => terminate')
  BY <1>12 DEF HeaderBody, HeaderParsed, Continue, AfterHeader
<1>13. ASSUME BodyMore PROVE (terminate => terminate')
  BY <1>13 DEF BodyMore, Continue, AfterRead
<1>14. ASSUME BodyRefused PROVE (terminate => terminate')
  BY <1>14 DEF BodyRefused, Refuse, Respond, FirstOp, Finish, Continue, AfterRead
<1>15. ASSUME BodyRoute PROVE (terminate => terminate')
  BY <1>15 DEF BodyRoute, PostRouter, Respond, FirstOp, Finish, Continue, AfterRead
<1>16. ASSUME BodyDropped PROVE (terminate => terminate')
  BY <1>16 DEF BodyDropped, Finish, AfterRead
<1>24. ASSUME HeaderDropped PROVE (terminate => terminate')
  BY <1>24 DEF HeaderDropped, HeaderParsed, Finish, AfterHeader
<1>17. ASSUME ChunkFirst PROVE (terminate => terminate')
  BY <1>17 DEF ChunkFirst, ChunkStep, Finish, Continue, AfterRead
<1>18. ASSUME ChunkNext PROVE (terminate => terminate')
  BY <1>18 DEF ChunkNext, ChunkStep, Finish, Continue, AfterRead
<1>19. ASSUME ChunkLast PROVE (terminate => terminate')
  BY <1>19 DEF ChunkLast, ChunkStep, Finish, Continue, AfterRead
<1>20. ASSUME Upgraded PROVE (terminate => terminate')
  BY <1>20 DEF Upgraded, TerminateRequest, Finish, Continue
<1>21. ASSUME UserRelease PROVE (terminate => terminate')
  BY <1>21 DEF UserRelease
<1>22. ASSUME UserTest PROVE (terminate => terminate')
  BY <1>22 DEF UserTest
<1>23. ASSUME UserStart PROVE (terminate => terminate')
  BY <1>23 DEF UserStart, FirstOp
<1>25. CASE UNCHANGED vars
  BY <1>25 DEF vars
<1> QED
  BY <1>1, <1>2, <1>3, <1>4, <1>5, <1>6, <1>7, <1>8, <1>9, <1>10,
     <1>11, <1>12, <1>13, <1>14, <1>15, <1>16, <1>17, <1>18, <1>19, <1>20,
     <1>21, <1>22, <1>23, <1>24, <1>25
     DEF Next, HeaderHandler, BodyHandler, ChunkHandler

\* A connection on which a request was refused carries no other one
\* (connection::terminate_request).
THEOREM RefusalEndsHolds == Spec => RefusalEnds
BY RefusalStep, InductiveInvariant, PTL DEF Spec, RefusalEnds
=============================================================================
