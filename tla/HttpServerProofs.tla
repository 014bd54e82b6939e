-------------------------- MODULE HttpServerProofs --------------------------
(***************************************************************************)
(* Proofs about HttpServer, for any number of connections and io threads.  *)
(***************************************************************************)
EXTENDS HttpServer, TLAPS

\* A connection has a thread from the time it is made.
Placed == \A c \in Connections : pc[c] = "none" <=> io[c] = 0

\* A connection that is in a handler occupies its thread.
Occupies == \A c \in Connections : pc[c] \in HandlerPcs => busy[io[c]] = c

\* Only a thread that runs is in a handler, and run() waits for all.
Runs ==
    /\ \A i \in Threads : busy[i] # Nobody => thread[i] = "running"
    /\ runPc = "returned" => \A i \in Threads : thread[i] = "ended"

\* Until it is read, the key is that of the handshake, or a foreign one.
KeyHeld ==
    \A c \in Connections : pc[c] \in {"routing", "update"} /\ ~late[c] =>
        secKey = c \/ Foreign(c, secKey)

\* A handler that is left to read a body is one of a late body.
Awaits == \A c \in Connections : pc[c] = "body" => late[c]

\* The inductive invariant.
IInv == TypeOK /\ Placed /\ Occupies /\ Runs /\ Awaits /\ KeyHeld /\ OwnHandshake

-----------------------------------------------------------------------------
(* The threads and who is in them.                                         *)

\* get_io gives out a thread of the pool.
LEMMA GetIoType == ASSUME NEW index \in 0..PoolSize PROVE GetIo(index) \in Pool
  BY PoolSizeAssumption DEF GetIo, Pool

\* What start_acceptor does, from an index it may have.
LEMMA StartAcceptorFacts ==
    ASSUME TypeOK, Placed, NEW index \in 0..PoolSize, StartAcceptor(index)
    PROVE  /\ ioIndex' \in 0..PoolSize
           /\ io' \in [Connections -> 0..PoolSize]
           /\ pc' \in [Connections -> Pcs]
           /\ Placed'
           /\ \A c \in Connections :
                \/ pc'[c] = pc[c] /\ io'[c] = io[c]
                \/ pc[c] = "none" /\ pc'[c] = "pending" /\ io'[c] \in Pool
<1>1. CASE New = {}
  BY <1>1 DEF StartAcceptor, TypeOK, Placed, poolVars
<1>2. CASE New # {}
  <2> DEFINE c == CHOOSE n \in New : TRUE
  <2>1. c \in New
    BY <1>2
  <2>2. c \in Connections /\ pc[c] = "none"
    BY <2>1 DEF New
  <2>3. /\ ioIndex' = GetIo(index)
        /\ io' = [io EXCEPT ![c] = GetIo(index)]
        /\ pc' = [pc EXCEPT ![c] = "pending"]
    BY <1>2 DEF StartAcceptor
  <2> HIDE DEF c
  <2>4. GetIo(index) \in Pool
    BY PoolSizeAssumption, GetIoType
  <2>5. GetIo(index) \in 0..PoolSize /\ GetIo(index) # 0
    BY <2>4, PoolSizeAssumption DEF Pool
  <2>6. io' \in [Connections -> 0..PoolSize] /\ pc' \in [Connections -> Pcs]
    BY <2>2, <2>3, <2>5 DEF TypeOK, Pcs
  <2>7. \A d \in Connections :
          \/ pc'[d] = pc[d] /\ io'[d] = io[d]
          \/ pc[d] = "none" /\ pc'[d] = "pending" /\ io'[d] \in Pool
    BY <2>2, <2>3, <2>4 DEF TypeOK
  <2>8. Placed'
    BY <2>2, <2>3, <2>5 DEF TypeOK, Placed
  <2> QED
    BY <2>3, <2>5, <2>6, <2>7, <2>8
<1> QED
  BY <1>1, <1>2

\* A connection that is there has a thread of the pool.
LEMMA OfPool ==
    ASSUME TypeOK, Placed, NEW c \in Connections, pc[c] # "none"
    PROVE  io[c] \in Pool /\ io[c] \in Threads /\ io[c] # Acceptor
  BY PoolSizeAssumption DEF TypeOK, Placed, Pool, Threads, Acceptor

\* It holds at first.
LEMMA InitInv == Init => IInv
<1> SUFFICES ASSUME Init PROVE IInv
  OBVIOUS
<1>1. TypeOK
  BY PoolSizeAssumption
  DEF Init, TypeOK, RunPcs, Threads, Acceptor, Pcs, HandlerPcs, Owners
<1>2. Placed /\ Occupies /\ Runs /\ Awaits /\ KeyHeld /\ OwnHandshake
  BY DEF Init, Placed, Occupies, Runs, Awaits, KeyHeld, OwnHandshake, HandlerPcs
<1> QED
  BY <1>1, <1>2 DEF IInv

-----------------------------------------------------------------------------
(* Every step.                                                             *)

\* Types and places are kept by themselves.
LEMMA TypeStep == TypeOK /\ Placed /\ [Next]_vars => TypeOK' /\ Placed'
<1> SUFFICES ASSUME TypeOK, Placed, [Next]_vars PROVE TypeOK' /\ Placed'
  OBVIOUS
<1> USE DEF TypeOK, Placed, RunPcs, HandlerPcs, Pcs, Owners
<1>1. CASE Serve
  <2>1. GetIo(ioIndex) \in 0..PoolSize
    BY GetIoType DEF Pool
  <2>2. ioIndex' \in 0..PoolSize /\ io' \in [Connections -> 0..PoolSize]
        /\ pc' \in [Connections -> Pcs] /\ Placed'
    BY <1>1, <2>1, StartAcceptorFacts DEF Serve
  <2> QED
    BY <1>1, <2>2 DEF Serve, shakeVars
<1>2. CASE AcceptNext
  <2>1. Acceptor \in Threads
    BY PoolSizeAssumption DEF Acceptor, Threads
  <2>2. ioIndex' \in 0..PoolSize /\ io' \in [Connections -> 0..PoolSize]
        /\ pc' \in [Connections -> Pcs] /\ Placed'
    BY <1>2, StartAcceptorFacts DEF AcceptNext
  <2> QED
    BY <1>2, <2>1, <2>2 DEF AcceptNext, Ends, serverVars, shakeVars
<1>3. ASSUME NEW c \in Connections, NEW to \in {"reading", "closed"}, Accepted(c, to)
      PROVE  TypeOK' /\ Placed'
  BY <1>3 DEF Accepted, Begins, serverVars, poolVars, shakeVars
<1>4. ASSUME NEW c \in Connections, Header(c) PROVE TypeOK' /\ Placed'
  BY <1>4 DEF Header, Goes, Begins, serverVars, poolVars, shakeVars
<1>5. ASSUME NEW c \in Connections, Lost(c) PROVE TypeOK' /\ Placed'
  BY <1>5 DEF Lost, serverVars, poolVars, shakeVars
<1>6. ASSUME NEW c \in Connections, RouteAfterBody(c) PROVE TypeOK' /\ Placed'
  BY <1>6 DEF RouteAfterBody, Goes, Begins, serverVars, poolVars, shakeVars
<1>7. ASSUME NEW c \in Connections, IsWebsocket(c) PROVE TypeOK' /\ Placed'
  BY <1>7 DEF IsWebsocket, Goes, Raced, serverVars, poolVars
<1>8. ASSUME NEW c \in Connections, Refused(c) PROVE TypeOK' /\ Placed'
  BY <1>8 DEF Refused, Goes, Ends, serverVars, poolVars, shakeVars
<1>9. ASSUME NEW c \in Connections, AwaitBody(c) PROVE TypeOK' /\ Placed'
  BY <1>9 DEF AwaitBody, Goes, Ends, serverVars, poolVars, shakeVars
<1>10. ASSUME NEW c \in Connections, Route(c) PROVE TypeOK' /\ Placed'
  BY <1>10 DEF Route, Goes, serverVars, poolVars, shakeVars
<1>11. ASSUME NEW c \in Connections, UpdateToWebsocket(c) PROVE TypeOK' /\ Placed'
  <2>1. PICK v \in {secKey} \cup Raced(c) : answer' = [answer EXCEPT ![c] = v]
    BY <1>11 DEF UpdateToWebsocket
  <2>2. answer' \in [Connections -> Owners]
    BY <2>1 DEF Raced
  <2> QED
    BY <1>11, <2>2 DEF UpdateToWebsocket, Goes, Ends, serverVars, poolVars
<1>12. CASE Run \/ RunEnds
  BY <1>12 DEF Run, RunEnds, poolVars, shakeVars
<1>13. CASE Stop \/ StopNext
  BY <1>13, PoolSizeAssumption DEF Stop, StopNext, Acceptor, poolVars, shakeVars
<1>14. ASSUME NEW i \in Threads, ThreadEnds(i) PROVE TypeOK' /\ Placed'
  BY <1>14 DEF ThreadEnds, poolVars, shakeVars
<1>15. CASE UNCHANGED vars
  BY <1>15 DEF vars, serverVars, poolVars, shakeVars
<1> QED
  BY <1>1, <1>2, <1>3, <1>4, <1>5, <1>6, <1>7, <1>8, <1>9, <1>10, <1>11, <1>12, <1>13,
     <1>14, <1>15 DEF Next, Handler

\* A step that leaves the key, the answers and the places alone, in which no
\* connection comes to hold a key or an answer.
LEMMA KeySame ==
    ASSUME TypeOK, Placed, KeyHeld, OwnHandshake, UNCHANGED <<poolVars, shakeVars>>,
           \A c \in Connections :
             /\ pc'[c] \in {"routing", "update"} /\ ~late'[c] =>
                  pc[c] \in {"routing", "update"} /\ ~late[c]
             /\ pc'[c] = "answered" /\ ~late'[c] => pc[c] = "answered" /\ ~late[c]
    PROVE  KeyHeld' /\ OwnHandshake'
  BY DEF KeyHeld, OwnHandshake, Foreign, poolVars, shakeVars

\* start_acceptor gives a thread only to a connection that was not there.
LEMMA KeyPlaced ==
    ASSUME TypeOK, Placed, KeyHeld, OwnHandshake, UNCHANGED <<late, shakeVars>>,
           \A c \in Connections :
             \/ pc'[c] = pc[c] /\ io'[c] = io[c]
             \/ pc[c] = "none" /\ pc'[c] = "pending" /\ io'[c] \in Pool
    PROVE  KeyHeld' /\ OwnHandshake'
<1>1. \A d \in Connections : io[d] \in Pool => io'[d] = io[d]
  BY PoolSizeAssumption DEF TypeOK, Placed, Pool
<1>2. ASSUME NEW c \in Connections, NEW v, pc'[c] # "pending", Foreign(c, v)
      PROVE  \E d \in Connections : io'[d] \in Pool /\ io'[d] # io'[c] /\ v \in {d, Torn}
  <2>1. io'[c] = io[c]
    BY <1>2
  <2> QED
    BY <1>1, <1>2, <2>1 DEF Foreign
<1>3. ASSUME NEW c \in Connections, pc'[c] \in {"routing", "update"}, ~late'[c]
      PROVE  secKey' = c \/ Foreign(c, secKey)'
  <2>1. pc[c] = pc'[c] /\ late[c] = late'[c] /\ secKey' = secKey
    BY <1>3 DEF shakeVars
  <2>2. secKey = c \/ Foreign(c, secKey)
    BY <1>3, <2>1 DEF KeyHeld
  <2> QED
    BY <1>2, <1>3, <2>1, <2>2 DEF Foreign
<1>4. ASSUME NEW c \in Connections, pc'[c] = "answered", ~late'[c]
      PROVE  answer'[c] = c \/ Foreign(c, answer[c])'
  <2>1. pc[c] = pc'[c] /\ late[c] = late'[c] /\ answer' = answer
    BY <1>4 DEF shakeVars
  <2>2. answer[c] = c \/ Foreign(c, answer[c])
    BY <1>4, <2>1 DEF OwnHandshake
  <2> QED
    BY <1>2, <1>4, <2>1, <2>2 DEF Foreign
<1> QED
  BY <1>3, <1>4 DEF KeyHeld, OwnHandshake

\* What a race leaves is foreign to one that is in a handler itself.
LEMMA RacedForeign ==
    ASSUME TypeOK, Placed, Occupies, NEW c \in Connections, pc[c] \in HandlerPcs,
           NEW v \in Raced(c)
    PROVE  Foreign(c, v)
<1>1. v = Torn /\ Races(c)
  BY DEF Raced
<1>2. PICK d \in Connections \ {c} : pc[d] = "store"
  BY <1>1 DEF Races
<1>3. busy[io[d]] = d /\ busy[io[c]] = c
  BY <1>2 DEF Occupies, HandlerPcs
<1>4. io[d] \in Pool
  BY <1>2, OfPool
<1> QED
  BY <1>1, <1>2, <1>3, <1>4 DEF Foreign

\* Who occupies a thread, and which threads run.
LEMMA ThreadStep == IInv /\ [Next]_vars => Occupies' /\ Runs'
<1> SUFFICES ASSUME TypeOK, Placed, Occupies, Runs, [Next]_vars PROVE Occupies' /\ Runs'
  BY DEF IInv
<1> USE DEF Occupies, Runs
<1>0. \A c \in Connections : pc[c] # "none" => io[c] \in Threads \ {Acceptor}
  BY OfPool
<1>t. Acceptor \in Threads
  BY PoolSizeAssumption DEF Acceptor, Threads
<1>1. CASE Serve \/ AcceptNext
  <2>1. PICK index \in 0..PoolSize : StartAcceptor(index)
    <3>1. GetIo(ioIndex) \in 0..PoolSize
      BY GetIoType DEF TypeOK, Pool
    <3> QED
      BY <1>1, <3>1 DEF Serve, AcceptNext, TypeOK
  <2>2. ASSUME NEW c \in Connections, pc'[c] \in HandlerPcs
        PROVE  pc[c] = pc'[c] /\ io[c] = io'[c]
    BY <2>1, <2>2, StartAcceptorFacts DEF HandlerPcs
  <2>3. \A i \in Threads \ {Acceptor} : busy'[i] = busy[i]
    BY <1>1 DEF Serve, AcceptNext, Ends, TypeOK
  <2>4. \A i \in Threads : busy'[i] # Nobody => busy[i] # Nobody
    BY <1>1, <1>t DEF Serve, AcceptNext, Ends, TypeOK
  <2>5. thread' = thread /\ (runPc' = "returned" => runPc = "returned")
    BY <1>1 DEF Serve, AcceptNext, serverVars
  <2>6. Occupies'
    <3> SUFFICES ASSUME NEW c \in Connections, pc'[c] \in HandlerPcs PROVE busy'[io'[c]] = c
      OBVIOUS
    <3>1. pc[c] \in HandlerPcs /\ io[c] = io'[c] /\ busy[io[c]] = c
      BY <2>2
    <3>2. io[c] \in Threads \ {Acceptor}
      BY <1>0, <3>1 DEF HandlerPcs
    <3> QED
      BY <2>3, <3>1, <3>2
  <2> QED
    BY <2>4, <2>5, <2>6
<1>2. ASSUME NEW c \in Connections, NEW to \in {"reading", "closed"}, Accepted(c, to)
      PROVE  Occupies' /\ Runs'
  BY <1>0, <1>t, <1>2, PoolSizeAssumption
  DEF Accepted, Begins, TypeOK, HandlerPcs, serverVars, poolVars
<1>3. ASSUME NEW c \in Connections, Header(c) \/ RouteAfterBody(c) PROVE Occupies' /\ Runs'
  BY <1>0, <1>3, NobodyAssumption
  DEF Header, RouteAfterBody, Goes, Begins, TypeOK, HandlerPcs, serverVars, poolVars
<1>4. ASSUME NEW c \in Connections, Lost(c) PROVE Occupies' /\ Runs'
  BY <1>4 DEF Lost, TypeOK, HandlerPcs, serverVars, poolVars
<1>5. ASSUME NEW c \in Connections, IsWebsocket(c) \/ Route(c) PROVE Occupies' /\ Runs'
  BY <1>5 DEF IsWebsocket, Route, Goes, TypeOK, HandlerPcs, serverVars, poolVars
<1>6. ASSUME NEW c \in Connections, Refused(c) \/ AwaitBody(c) \/ UpdateToWebsocket(c)
      PROVE  Occupies' /\ Runs'
  BY <1>0, <1>6
  DEF Refused, AwaitBody, UpdateToWebsocket, Goes, Ends, TypeOK, HandlerPcs, serverVars, poolVars
<1>7. CASE Run
  BY <1>7 DEF Run, TypeOK, poolVars
<1>8. CASE RunEnds \/ Stop \/ StopNext
  BY <1>8 DEF RunEnds, Stop, StopNext, TypeOK, poolVars
<1>9. ASSUME NEW i \in Threads, ThreadEnds(i) PROVE Occupies' /\ Runs'
  BY <1>9 DEF ThreadEnds, TypeOK, poolVars
<1>10. CASE UNCHANGED vars
  BY <1>10 DEF vars, serverVars, poolVars
<1> QED
  BY <1>1, <1>2, <1>3, <1>4, <1>5, <1>6, <1>7, <1>8, <1>9, <1>10 DEF Next, Handler

\* Who has left its handler to read a body.
LEMMA AwaitsStep == IInv /\ [Next]_vars => Awaits'
<1> SUFFICES ASSUME TypeOK, Placed, Awaits, [Next]_vars PROVE Awaits'
  BY DEF IInv
<1> USE DEF Awaits
<1>1. CASE Serve \/ AcceptNext
  <2>1. PICK index \in 0..PoolSize : StartAcceptor(index)
    <3>1. GetIo(ioIndex) \in 0..PoolSize
      BY GetIoType DEF TypeOK, Pool
    <3> QED
      BY <1>1, <3>1 DEF Serve, AcceptNext, TypeOK
  <2>2. late' = late
    BY <1>1 DEF Serve, AcceptNext
  <2> QED
    BY <2>1, <2>2, StartAcceptorFacts
<1>2. ASSUME NEW c \in Connections, NEW to \in {"reading", "closed"}, Accepted(c, to)
      PROVE  Awaits'
  BY <1>2 DEF Accepted, TypeOK
<1>3. ASSUME NEW c \in Connections, Header(c) \/ Lost(c) \/ RouteAfterBody(c) PROVE Awaits'
  BY <1>3 DEF Header, Lost, RouteAfterBody, Goes, TypeOK
<1>4. ASSUME NEW c \in Connections, Handler(c) PROVE Awaits'
  BY <1>4
  DEF Handler, IsWebsocket, UpdateToWebsocket, Refused, AwaitBody, Route, Goes, TypeOK
<1>5. CASE Run \/ RunEnds \/ Stop \/ StopNext
  BY <1>5 DEF Run, RunEnds, Stop, StopNext
<1>6. ASSUME NEW i \in Threads, ThreadEnds(i) PROVE Awaits'
  BY <1>6 DEF ThreadEnds
<1>7. CASE UNCHANGED vars
  BY <1>7 DEF vars
<1> QED
  BY <1>1, <1>2, <1>3, <1>4, <1>5, <1>6, <1>7 DEF Next

\* Whose the key is.
LEMMA KeyStep == IInv /\ [Next]_vars => KeyHeld' /\ OwnHandshake'
<1> SUFFICES ASSUME TypeOK, Placed, Occupies, Awaits, KeyHeld, OwnHandshake, [Next]_vars
             PROVE  KeyHeld' /\ OwnHandshake'
  BY DEF IInv
<1>1. CASE Serve \/ AcceptNext
  <2>1. PICK index \in 0..PoolSize : StartAcceptor(index)
    <3>1. GetIo(ioIndex) \in 0..PoolSize
      BY GetIoType DEF TypeOK, Pool
    <3> QED
      BY <1>1, <3>1 DEF Serve, AcceptNext, TypeOK
  <2>2. UNCHANGED <<late, shakeVars>>
    BY <1>1 DEF Serve, AcceptNext
  <2> QED
    BY <2>1, <2>2, StartAcceptorFacts, KeyPlaced
<1>2. ASSUME NEW c \in Connections, NEW to \in {"reading", "closed"}, Accepted(c, to)
      PROVE  KeyHeld' /\ OwnHandshake'
  BY <1>2, KeySame DEF Accepted, TypeOK
<1>3. ASSUME NEW c \in Connections, Header(c) PROVE KeyHeld' /\ OwnHandshake'
  BY <1>3, KeySame DEF Header, Goes, TypeOK
<1>4. ASSUME NEW c \in Connections, Lost(c) PROVE KeyHeld' /\ OwnHandshake'
  BY <1>4, KeySame DEF Lost, TypeOK
<1>5. ASSUME NEW c \in Connections, RouteAfterBody(c) PROVE KeyHeld' /\ OwnHandshake'
  BY <1>5, KeySame DEF RouteAfterBody, Awaits, Goes, TypeOK
<1>6. ASSUME NEW c \in Connections, IsWebsocket(c) PROVE KeyHeld' /\ OwnHandshake'
  <2>1. pc[c] = "store" /\ pc' = [pc EXCEPT ![c] = "routing"]
        /\ UNCHANGED <<poolVars, late, answer>>
    BY <1>6 DEF IsWebsocket, Goes
  <2>2. secKey' = c \/ secKey' \in Raced(c)
    BY <1>6 DEF IsWebsocket
  <2>3. secKey' = c \/ Foreign(c, secKey')
    BY <2>1, <2>2, RacedForeign DEF HandlerPcs
  <2>4. ASSUME NEW e \in Connections, pc[e] \in {"routing", "update"}
        PROVE  Foreign(e, secKey')
    <3>1. busy[io[e]] = e /\ busy[io[c]] = c /\ e # c
      BY <2>1, <2>4 DEF Occupies, HandlerPcs
    <3>2. io[c] \in Pool /\ io[c] # io[e]
      BY <2>1, <3>1, OfPool
    <3>3. secKey' \in {c, Torn}
      BY <2>2 DEF Raced
    <3> QED
      BY <3>2, <3>3 DEF Foreign
  <2>5. KeyHeld'
    <3> SUFFICES ASSUME NEW e \in Connections, pc'[e] \in {"routing", "update"}
                 PROVE  secKey' = e \/ Foreign(e, secKey)'
      BY DEF KeyHeld
    <3>1. CASE e = c
      BY <2>1, <2>3, <3>1 DEF Foreign, poolVars
    <3>2. CASE e # c
      BY <2>1, <2>4, <3>2 DEF Foreign, poolVars, TypeOK
    <3> QED
      BY <3>1, <3>2
  <2>6. OwnHandshake'
    BY <2>1 DEF OwnHandshake, Foreign, poolVars, TypeOK
  <2> QED
    BY <2>5, <2>6
<1>7. ASSUME NEW c \in Connections, Refused(c) PROVE KeyHeld' /\ OwnHandshake'
  BY <1>7, KeySame DEF Refused, Goes, TypeOK
<1>8. ASSUME NEW c \in Connections, AwaitBody(c) PROVE KeyHeld' /\ OwnHandshake'
  BY <1>8, KeySame DEF AwaitBody, Goes, TypeOK
<1>9. ASSUME NEW c \in Connections, Route(c) PROVE KeyHeld' /\ OwnHandshake'
  BY <1>9, KeySame DEF Route, Goes, TypeOK
<1>10. ASSUME NEW c \in Connections, UpdateToWebsocket(c) PROVE KeyHeld' /\ OwnHandshake'
  <2>1. PICK v \in {secKey} \cup Raced(c) : answer' = [answer EXCEPT ![c] = v]
    BY <1>10 DEF UpdateToWebsocket
  <2>2. pc[c] = "update" /\ pc' = [pc EXCEPT ![c] = "answered"]
        /\ UNCHANGED <<poolVars, late, secKey>>
    BY <1>10 DEF UpdateToWebsocket, Goes
  <2>3. late[c] \/ v = c \/ Foreign(c, v)
    BY <2>2, RacedForeign DEF KeyHeld, HandlerPcs
  <2>4. KeyHeld'
    BY <2>2 DEF KeyHeld, Foreign, poolVars, TypeOK
  <2>5. OwnHandshake'
    <3> SUFFICES ASSUME NEW e \in Connections, pc'[e] = "answered", ~late'[e]
                 PROVE  answer'[e] = e \/ Foreign(e, answer[e])'
      BY DEF OwnHandshake
    <3>1. CASE e = c
      <4>1. answer'[e] = v
        BY <2>1, <3>1 DEF TypeOK
      <4> QED
        BY <2>2, <2>3, <3>1, <4>1 DEF Foreign, poolVars
    <3>2. CASE e # c
      BY <2>1, <2>2, <3>2 DEF OwnHandshake, Foreign, poolVars, TypeOK
    <3> QED
      BY <3>1, <3>2
  <2> QED
    BY <2>4, <2>5
<1>11. CASE Run \/ RunEnds \/ Stop \/ StopNext
  BY <1>11, KeySame DEF Run, RunEnds, Stop, StopNext
<1>12. ASSUME NEW i \in Threads, ThreadEnds(i) PROVE KeyHeld' /\ OwnHandshake'
  BY <1>12, KeySame DEF ThreadEnds
<1>13. CASE UNCHANGED vars
  BY <1>13, KeySame DEF vars
<1> QED
  BY <1>1, <1>2, <1>3, <1>4, <1>5, <1>6, <1>7, <1>8, <1>9, <1>10, <1>11, <1>12, <1>13
  DEF Next, Handler

-----------------------------------------------------------------------------
(* The theorems.                                                           *)

\* The invariant holds in every state.
THEOREM InductiveInvariant == Spec => []IInv
<1>1. Init => IInv
  BY InitInv
<1>2. IInv /\ [Next]_vars => IInv'
  BY TypeStep, ThreadStep, AwaitsStep, KeyStep DEF IInv
<1> QED
  BY <1>1, <1>2, PTL DEF Spec

\* Every variable has its type; get_io gives out only threads there are.
THEOREM TypeCorrect == Spec => []TypeOK
<1>1. IInv => TypeOK
  BY DEF IInv
<1> QED
  BY <1>1, InductiveInvariant, PTL

\* A handshake that came at once is answered with its own key or with one of
\* another thread (websocket.hpp:748, 755).
THEOREM OwnHandshakeHolds == Spec => []OwnHandshake
<1>1. IInv => OwnHandshake
  BY DEF IInv
<1> QED
  BY <1>1, InductiveInvariant, PTL

\* With one io thread it is always answered with its own.
THEOREM OneThreadIsSafe ==
    ASSUME PoolSize = 1
    PROVE  Spec => [](\A c \in Connections :
               pc[c] = "answered" /\ ~late[c] => answer[c] = c)
<1>1. IInv =>
        \A c \in Connections : pc[c] = "answered" /\ ~late[c] => answer[c] = c
  BY OfPool DEF IInv, OwnHandshake, Foreign, Pool
<1> QED
  BY <1>1, InductiveInvariant, PTL

\* When run() has returned no handler runs (ioservice_pool::run).
THEOREM QuietAfterRunHolds == Spec => []QuietAfterRun
<1>1. IInv => QuietAfterRun
  <2> SUFFICES ASSUME IInv, runPc = "returned" PROVE QuietAfterRun
    BY DEF QuietAfterRun
  <2>1. \A i \in Threads : busy[i] = Nobody
    BY DEF IInv, Runs
  <2>2. ASSUME NEW c \in Connections, pc[c] \in HandlerPcs PROVE FALSE
    <3>1. busy[io[c]] = c /\ pc[c] # "none"
      BY <2>2 DEF IInv, Occupies, HandlerPcs
    <3>2. io[c] \in Threads
      BY <3>1, OfPool DEF IInv
    <3> QED
      BY <2>1, <3>1, <3>2, NobodyAssumption
  <2> QED
    BY <2>1, <2>2 DEF QuietAfterRun
<1> QED
  BY <1>1, InductiveInvariant, PTL
=============================================================================
