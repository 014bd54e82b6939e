-------------------------- MODULE HttpClientProofs --------------------------
(***************************************************************************)
(* Proofs about HttpClient, for any number of requests, connections and    *)
(* io threads, any choice of timeouts and stop() in either mode.           *)
(***************************************************************************)
EXTENDS HttpClient, FiniteSetTheorems, TLAPS

\* The flags of connections are those of objects somebody refers to.
FlagsReferred == inUse \cup retryable \subseteq Referred(pool, conn)

\* The first three parts of PoolSound, and the last.
Exclusive ==
    /\ \A c, d \in Idle : c = d
    /\ \A q, r \in Requests : conn[q] = conn[r] /\ conn[q] # NoConnection => q = r
    /\ \A r \in Requests : conn[r] \notin Idle
NoLeak ==
    count >= 0 => \A c \in pool \cap inUse : c \in leaked \/ \E r \in Requests : conn[r] = c

\* The counter of the ScopeRunner is the number of handlers in the scope; it is
\* negative from the moment the destructor gets past its stop().
Counter ==
    /\ count >= 0 => count = Cardinality(Holders)
    /\ count < 0 <=> appPc = "gone"
    /\ count < 0 => Holders = {}
    /\ \A r \in Requests : expected[r] < 0 => count < 0

\* Where a session is: what its connection, its operation, its handler and its
\* caller say of each other.
Session(r) ==
    /\ conn[r] = NoConnection => op[r] = "none" /\ pc[r] \in {"idle", "user", "destroying"}
    /\ pc[r] \in {"user", "destroying"} => conn[r] = NoConnection
    /\ pc[r] \in {"enter", "inside"} => op[r] # "none"
    /\ pc[r] = "connect" => op[r] = "header"
    /\ op[r] # "none" => conn[r] # NoConnection
    /\ net[r] # "none" => op[r] # "none"
    /\ call[r] = "idle" => conn[r] = NoConnection /\ pc[r] = "idle"
    /\ call[r] = "connect" => op[r] = "none" /\ pc[r] = "idle" /\ conn[r] # NoConnection
    /\ call[r] \in {"idle", "connect"} => answered[r] = 0
    /\ call[r] \notin {"idle", "connect"} /\ conn[r] # NoConnection => op[r] # "none"
    /\ conn[r] # NoConnection \/ pc[r] = "user" => answered[r] = 0
    /\ answered[r] <= 1
    /\ r \in broken => /\ conn[r] = NoConnection /\ pc[r] = "idle" /\ answered[r] = 0
                       /\ call[r] \notin {"idle", "connect"}
Sessions == \A r \in Requests : Session(r)

\* A request that was written once is written again on a connection that is not
\* to be retried, and one that was written twice is not given up for a third.
Written(r) ==
    /\ sent[r] <= 2
    /\ op[r] \in {"none", "body"} => sent[r] = 0
    /\ op[r] \in {"resolve", "connect"} \/ pc[r] = "connect" =>
           /\ sent[r] <= 1
           /\ sent[r] = 1 => conn[r] \notin retryable
    /\ op[r] \in {"write", "header"} /\ sent[r] = 2 => conn[r] \notin retryable
RetriedOnce == \A r \in Requests : Written(r)

\* The synchronous calls: the counter counts them, the io_service is stopped
\* only while one of them is counted in, and one that is counted in when it is
\* stopped, or has left run(), is answered or late, or its handler threw.
CallAnswered(r) == late[r] \/ answered[r] = 1 \/ r \in broken
SyncCalls ==
    /\ syncCount = Cardinality(Counted)
    /\ stopped => Counted # {}
    /\ \A r \in Requests :
         /\ mode = "async" => call[r] \in {"idle", "connect", "returned"}
         /\ mode = "sync" /\ appPc # "alive" => call[r] \in {"idle", "returned", "threw"}
         /\ call[r] = "ended" => CallAnswered(r)
         /\ mode = "sync" /\ call[r] = "returned" => CallAnswered(r)
         /\ stopped /\ call[r] \in {"enter", "run"} => CallAnswered(r)

\* A request whose session is over was answered, or its handler threw, or the
\* destructor dropped it.
Answered ==
    \A r \in Requests :
        /\ count >= 0 /\ call[r] \notin {"idle", "connect"} /\ op[r] = "none"
           /\ pc[r] = "idle" => answered[r] = 1 \/ r \in broken
        /\ pc[r] = "destroying" => answered[r] = 1

\* The inductive invariant.
IInv ==
    /\ TypeOK
    /\ FlagsReferred
    /\ Exclusive
    /\ NoLeak
    /\ Counter
    /\ Sessions
    /\ RetriedOnce
    /\ SyncCalls
    /\ Answered

\* A connection that is created is none that anybody refers to.
LEMMA NewFresh == Fresh # {} => NewConnection \in Fresh
  BY DEF NewConnection

\* The counter is positive while a handler is in the scope.
LEMMA InScopeCounts ==
    ASSUME TypeOK, Counter, NEW r \in Requests, InScope(r)
    PROVE  count \in Nat /\ count >= 1
<1>1. r \in Holders
  BY DEF Holders
<1>2. IsFiniteSet(Holders)
  BY RequestsAssumption, FS_Subset DEF Holders
<1>3. Cardinality(Holders) \in Nat /\ Cardinality(Holders) # 0
  BY <1>1, <1>2, FS_CardinalityType, FS_EmptySet
<1> QED
  BY <1>1, <1>3 DEF Counter, TypeOK

\* The operations a step may start, and what it starts them with.
LEMMA StartTyped ==
    ASSUME TypeOK, NEW r \in Requests, NEW o \in Operations, StartOp(r, o)
    PROVE  /\ armed' \subseteq Connections
           /\ (o = "connect" => conn[r] \in Connections) => opened' \subseteq Connections
           /\ op' \in [Requests -> Operations \cup {"none"}]
           /\ net' \in [Requests -> NetStates]
           /\ sent' \in [Requests -> Nat]
  BY TimedAssumption DEF StartOp, TypeOK, NetStates

\* What an exception does to the callers.
LEMMA ThrownCalls ==
    ASSUME TypeOK, NEW r \in Requests, Throw(r), NEW q \in Requests
    PROVE  call'[q] = call[q] \/ (call[q] = "run" /\ call'[q] = "threw")
<1>1. CASE mode = "async"
  BY <1>1 DEF Throw, RunThrows
<1>2. CASE mode # "async"
  <2>1. PICK p \in Requests : call[p] = "run" /\ call' = [call EXCEPT ![p] = "threw"]
    BY <1>2 DEF Throw, RunThrows
  <2> QED
    BY <2>1 DEF TypeOK
<1> QED
  BY <1>1, <1>2

-----------------------------------------------------------------------------
(* The parts of the invariant, one after the other.                        *)

\* Every step keeps the types.
LEMMA TypeStep == IInv /\ [Next]_vars => TypeOK'
<1> SUFFICES ASSUME TypeOK, Counter, Sessions, [Next]_vars
             PROVE  TypeOK'
  BY DEF IInv
<1> USE DEF TypeOK, Modes, Operations, NetStates, HandlerPcs, CallPcs, AppPcs, poolVars,
           timerVars, opVars, scopeVars, appVars, syncVars, throwVars
<1>1. ASSUME NEW r \in Requests, GetConnection(r) PROVE TypeOK'
  <2>1. \A c \in IF Idle = {} THEN {NewConnection} ELSE Idle : c \in Connections
    BY <1>1, NewFresh DEF GetConnection, Idle, Fresh
  <2> QED
    BY <1>1, <2>1 DEF GetConnection
<1>2. ASSUME NEW r \in Requests, Begin(r) PROVE TypeOK'
  <2>1. PICK o \in {"write", "resolve"} : StartOp(r, o)
    BY <1>2 DEF Begin, Connect
  <2> QED
    BY <1>2, <2>1, StartTyped DEF Begin
<1>3. ASSUME NEW r \in Requests, Dispatch(r) PROVE TypeOK'
  BY <1>3 DEF Dispatch
<1>4. ASSUME NEW r \in Requests, EnterScope(r) PROVE TypeOK'
  BY <1>4 DEF EnterScope
<1>5. ASSUME NEW r \in Requests, Reload(r) PROVE TypeOK'
  BY <1>5 DEF Reload
<1>6. ASSUME NEW r \in Requests, TurnedAway(r) PROVE TypeOK'
  BY <1>6 DEF TurnedAway, SessionOver, Without, Refer, Referred
<1>7. ASSUME NEW r \in Requests, Advance(r) PROVE TypeOK'
  <2>1. PICK o \in Following(r) \ {"end"} : StartOp(r, o)
    BY <1>7 DEF Advance
  <2>2. o \in Operations
    BY DEF Following
  <2>3. conn[r] \in Connections
    BY <1>7 DEF Advance, Sessions, Session
  <2>4. count - 1 \in Nat
    BY <1>7, InScopeCounts DEF Advance, InScope
  <2> QED
    BY <1>7, <2>1, <2>2, <2>3, <2>4, StartTyped DEF Advance
<1>8. ASSUME NEW r \in Requests, Retry(r) PROVE TypeOK'
  BY <1>8, NewFresh DEF Retry, Refer, Referred, Fresh
<1>9. ASSUME NEW r \in Requests, Reconnect(r) PROVE TypeOK'
  <2>1. PICK o \in {"write", "resolve"} : StartOp(r, o)
    BY <1>9 DEF Reconnect, Connect
  <2>2. count - 1 \in Nat
    BY <1>9, InScopeCounts DEF Reconnect, InScope
  <2> QED
    BY <1>9, <2>1, <2>2, StartTyped DEF Reconnect
<1>10. ASSUME NEW r \in Requests, NEW failed \in BOOLEAN, EndSession(r, failed)
      PROVE  TypeOK'
  <2>1. pool' \subseteq Connections
    BY <1>10 DEF EndSession, Refer
  <2>2. inUse' \subseteq Connections /\ retryable' \subseteq Connections
        /\ opened' \subseteq Connections /\ expired' \subseteq Connections
    BY <1>10 DEF EndSession, Refer, Referred, Sessions, Session
  <2> QED
    BY <1>10, <2>1, <2>2 DEF EndSession, SessionOver, Without, Refer
<1>11. ASSUME NEW r \in Requests, RunCallback(r) PROVE TypeOK'
  <2>1. count - 1 \in Nat
    BY <1>11, InScopeCounts DEF RunCallback, InScope
  <2> QED
    BY <1>11, <2>1 DEF RunCallback
<1>11a. ASSUME NEW r \in Requests, Throw(r) PROVE TypeOK'
  <2>1. count - 1 \in Nat /\ conn[r] \in Connections
    BY <1>11a, InScopeCounts DEF Throw, InScope, Sessions, Session
  <2>2. /\ inUse' \subseteq Connections /\ retryable' \subseteq Connections
        /\ opened' \subseteq Connections /\ expired' \subseteq Connections
        /\ leaked' \subseteq Connections
    BY <1>11a, <2>1 DEF Throw, Refer
  <2>3. call' \in [Requests -> CallPcs] /\ stopped' \in BOOLEAN
    <3>1. stopped' \in {stopped, stopped \/ ~Work'}
      BY <1>11a DEF Throw, RunThrows
    <3> QED
      BY <1>11a, <3>1 DEF Throw, RunThrows
  <2> QED
    BY <1>11a, <2>1, <2>2, <2>3 DEF Throw, SessionOver, Without, Refer
<1>12. ASSUME NEW r \in Requests, CountIn(r) PROVE TypeOK'
  BY <1>12 DEF CountIn, SyncStep
<1>13. ASSUME NEW r \in Requests, EnterRun(r) PROVE TypeOK'
  BY <1>13 DEF EnterRun, SyncStep
<1>14. ASSUME NEW r \in Requests, RunRefused(r) PROVE TypeOK'
  BY <1>14 DEF RunRefused, SyncStep
<1>15. ASSUME NEW r \in Requests, LeaveRun(r) PROVE TypeOK'
  BY <1>15 DEF LeaveRun, SyncStep
<1>16. ASSUME NEW r \in Requests, CountOut(r) PROVE TypeOK'
  BY <1>16 DEF CountOut, SyncStep
<1>17. ASSUME NEW r \in Requests, Complete(r) PROVE TypeOK'
  BY <1>17 DEF Complete
<1>18. ASSUME NEW r \in Requests, Transfer(r) PROVE TypeOK'
  BY <1>18 DEF Transfer
<1>19. ASSUME NEW r \in Requests, Continue(r) PROVE TypeOK'
  BY <1>19 DEF Continue
<1>20. ASSUME NEW c \in armed, Expire(c) PROVE TypeOK'
  BY <1>20 DEF Expire
<1>21. ASSUME NEW c \in expired, OnExpiry(c) PROVE TypeOK'
  BY <1>21 DEF OnExpiry, CancelSockets, Aborts
<1>22. ASSUME Stop PROVE TypeOK'
  BY <1>22 DEF Stop, StopPool, CancelSockets, Aborts, Refer, Referred
<1>23. ASSUME Destroy PROVE TypeOK'
  BY <1>23 DEF Destroy
<1>24. ASSUME CloseScope PROVE TypeOK'
  BY <1>24 DEF CloseScope, StopPool, CancelSockets, Aborts, Refer, Referred
<1>25. ASSUME NEW r \in Requests, HandlerStep(r) PROVE TypeOK'
  <2>1. CASE Succeed(r) \/ Fail(r)
    BY <2>1, <1>10 DEF Succeed, Fail
  <2> QED
    BY <1>25, <2>1, <1>3, <1>4, <1>5, <1>6, <1>7, <1>8, <1>9, <1>11,
       <1>11a
    DEF HandlerStep
<1>26. ASSUME NEW r \in Requests, SyncCall(r) PROVE TypeOK'
  BY <1>26, <1>12, <1>13, <1>14, <1>15, <1>16 DEF SyncCall
<1>27. CASE UNCHANGED vars
  BY <1>27 DEF vars
<1> QED
  BY <1>25, <1>26, <1>27, <1>1, <1>2, <1>17, <1>18, <1>19, <1>20, <1>21, <1>22, <1>23, <1>24
  DEF Next
\* No step leaves a flag with an object nobody refers to.
LEMMA FlagsStep == IInv /\ [Next]_vars => FlagsReferred'
<1> SUFFICES ASSUME TypeOK, FlagsReferred, Sessions, [Next]_vars
             PROVE  FlagsReferred'
  BY DEF IInv
<1> USE DEF FlagsReferred, Referred, poolVars, timerVars, opVars, scopeVars, appVars,
           syncVars, throwVars
<1>1. ASSUME NEW r \in Requests, GetConnection(r) PROVE FlagsReferred'
  <2>1. PICK c \in IF Idle = {} THEN {NewConnection} ELSE Idle :
          /\ pool' = pool \cup {c} /\ inUse' = inUse \cup {c}
          /\ retryable' = retryable \cup {c} /\ conn' = [conn EXCEPT ![r] = c]
    BY <1>1 DEF GetConnection
  <2>2. conn[r] = NoConnection /\ c \notin Referred(pool, conn) \cap inUse /\ c \in Connections
    BY <1>1, <2>1, NewFresh DEF GetConnection, Sessions, Session, Idle, Fresh, Referred, TypeOK
  <2>3. \A q \in Requests : conn'[q] = IF q = r THEN c ELSE conn[q]
    BY <2>1 DEF TypeOK
  <2> QED
    BY <1>1, <2>1, <2>2, <2>3, NoConnectionAssumption DEF GetConnection, TypeOK
<1>2. ASSUME NEW r \in Requests, Begin(r) PROVE FlagsReferred'
  BY <1>2 DEF Begin, Connect, StartOp
<1>3. ASSUME NEW r \in Requests, Dispatch(r) PROVE FlagsReferred'
  BY <1>3 DEF Dispatch
<1>4. ASSUME NEW r \in Requests, EnterScope(r) PROVE FlagsReferred'
  BY <1>4 DEF EnterScope
<1>5. ASSUME NEW r \in Requests, Reload(r) PROVE FlagsReferred'
  BY <1>5 DEF Reload
<1>6. ASSUME NEW r \in Requests, TurnedAway(r) PROVE FlagsReferred'
  BY <1>6 DEF TurnedAway, SessionOver, Without, Refer, Referred
<1>7. ASSUME NEW r \in Requests, Advance(r) PROVE FlagsReferred'
  BY <1>7 DEF Advance, Following, StartOp
<1>8. ASSUME NEW r \in Requests, Retry(r) PROVE FlagsReferred'
  BY <1>8 DEF Retry, Refer, Referred
<1>9. ASSUME NEW r \in Requests, Reconnect(r) PROVE FlagsReferred'
  BY <1>9 DEF Reconnect, Connect, StartOp
<1>10. ASSUME NEW r \in Requests, NEW failed \in BOOLEAN, EndSession(r, failed)
      PROVE  FlagsReferred'
  BY <1>10 DEF EndSession, SessionOver, Without, Refer, Referred
<1>11. ASSUME NEW r \in Requests, RunCallback(r) PROVE FlagsReferred'
  BY <1>11 DEF RunCallback
<1>11a. ASSUME NEW r \in Requests, Throw(r) PROVE FlagsReferred'
  BY <1>11a DEF Throw, SessionOver, Without, Refer
<1>12. ASSUME NEW r \in Requests, CountIn(r) PROVE FlagsReferred'
  BY <1>12 DEF CountIn, SyncStep
<1>13. ASSUME NEW r \in Requests, EnterRun(r) PROVE FlagsReferred'
  BY <1>13 DEF EnterRun, SyncStep
<1>14. ASSUME NEW r \in Requests, RunRefused(r) PROVE FlagsReferred'
  BY <1>14 DEF RunRefused, SyncStep
<1>15. ASSUME NEW r \in Requests, LeaveRun(r) PROVE FlagsReferred'
  BY <1>15 DEF LeaveRun, SyncStep
<1>16. ASSUME NEW r \in Requests, CountOut(r) PROVE FlagsReferred'
  BY <1>16 DEF CountOut, SyncStep
<1>17. ASSUME NEW r \in Requests, Complete(r) PROVE FlagsReferred'
  BY <1>17 DEF Complete
<1>18. ASSUME NEW r \in Requests, Transfer(r) PROVE FlagsReferred'
  BY <1>18 DEF Transfer
<1>19. ASSUME NEW r \in Requests, Continue(r) PROVE FlagsReferred'
  BY <1>19 DEF Continue
<1>20. ASSUME NEW c \in armed, Expire(c) PROVE FlagsReferred'
  BY <1>20 DEF Expire
<1>21. ASSUME NEW c \in expired, OnExpiry(c) PROVE FlagsReferred'
  BY <1>21 DEF OnExpiry, CancelSockets, Aborts
<1>22. ASSUME Stop PROVE FlagsReferred'
  BY <1>22 DEF Stop, StopPool, CancelSockets, Aborts, Refer, Referred
<1>23. ASSUME Destroy PROVE FlagsReferred'
  BY <1>23 DEF Destroy
<1>24. ASSUME CloseScope PROVE FlagsReferred'
  BY <1>24 DEF CloseScope, StopPool, CancelSockets, Aborts, Refer, Referred
<1>25. ASSUME NEW r \in Requests, HandlerStep(r) PROVE FlagsReferred'
  <2>1. CASE Succeed(r) \/ Fail(r)
    BY <2>1, <1>10 DEF Succeed, Fail
  <2> QED
    BY <1>25, <2>1, <1>3, <1>4, <1>5, <1>6, <1>7, <1>8, <1>9, <1>11,
       <1>11a
    DEF HandlerStep
<1>26. ASSUME NEW r \in Requests, SyncCall(r) PROVE FlagsReferred'
  BY <1>26, <1>12, <1>13, <1>14, <1>15, <1>16 DEF SyncCall
<1>27. CASE UNCHANGED vars
  BY <1>27 DEF vars
<1> QED
  BY <1>25, <1>26, <1>27, <1>1, <1>2, <1>17, <1>18, <1>19, <1>20, <1>21, <1>22, <1>23, <1>24
  DEF Next
\* No step lets two sessions share a connection, gives an unused one to a session or
\* keeps two unused ones.
LEMMA ExclusiveStep == IInv /\ [Next]_vars => Exclusive'
<1> SUFFICES ASSUME TypeOK, FlagsReferred, Exclusive, Sessions, [Next]_vars
             PROVE  Exclusive'
  BY DEF IInv
<1> USE DEF Exclusive, Idle, poolVars, timerVars, opVars, scopeVars, appVars, syncVars, throwVars
<1>1. ASSUME NEW r \in Requests, GetConnection(r) PROVE Exclusive'
  <2>1. PICK c \in IF Idle = {} THEN {NewConnection} ELSE Idle :
          /\ pool' = pool \cup {c} /\ inUse' = inUse \cup {c}
          /\ conn' = [conn EXCEPT ![r] = c]
    BY <1>1 DEF GetConnection
  <2>2. c \in Connections /\ \A q \in Requests : conn[q] # c
    BY <1>1, <2>1, NewFresh DEF GetConnection, Fresh, Referred, TypeOK
  <2>3. \A q \in Requests : conn'[q] = IF q = r THEN c ELSE conn[q]
    BY <2>1 DEF TypeOK
  <2> QED
    BY <1>1, <2>1, <2>2, <2>3 DEF GetConnection
<1>2. ASSUME NEW r \in Requests, Begin(r) PROVE Exclusive'
  BY <1>2 DEF Begin, Connect, StartOp
<1>3. ASSUME NEW r \in Requests, Dispatch(r) PROVE Exclusive'
  BY <1>3 DEF Dispatch
<1>4. ASSUME NEW r \in Requests, EnterScope(r) PROVE Exclusive'
  BY <1>4 DEF EnterScope
<1>5. ASSUME NEW r \in Requests, Reload(r) PROVE Exclusive'
  BY <1>5 DEF Reload
<1>6. ASSUME NEW r \in Requests, TurnedAway(r) PROVE Exclusive'
  <2>1. \A q \in Requests : conn'[q] = IF q = r THEN NoConnection ELSE conn[q]
    BY <1>6 DEF TurnedAway, Refer, Without, TypeOK
  <2>2. pool' = pool /\ pool \cap inUse' = pool \cap inUse
    BY <1>6 DEF TurnedAway, Refer, Referred
  <2> QED
    BY <2>1, <2>2, NoConnectionAssumption DEF TypeOK
<1>7. ASSUME NEW r \in Requests, Advance(r) PROVE Exclusive'
  BY <1>7 DEF Advance, Following, StartOp
<1>8. ASSUME NEW r \in Requests, Retry(r) PROVE Exclusive'
  <2> DEFINE c == NewConnection
  <2>1. c \in Connections /\ c \notin pool /\ \A q \in Requests : conn[q] # c
    BY <1>8, NewFresh DEF Retry, Fresh, Referred
  <2>2. pool' = (pool \ {conn[r]}) \cup {c} /\ conn' = [conn EXCEPT ![r] = c]
    BY <1>8 DEF Retry, Refer
  <2>3. \A q \in Requests : conn'[q] = IF q = r THEN c ELSE conn[q]
    BY <2>2 DEF TypeOK
  <2>4. pool' \cap inUse' = pool' \cap (inUse \cup {c})
    BY <1>8 DEF Retry, Refer, Referred
  <2> HIDE DEF c
  <2>5. pool' \ inUse' = (pool \ inUse) \ {conn[r]}
    BY <2>1, <2>2, <2>4
  <2> QED
    BY <2>1, <2>3, <2>5 DEF TypeOK
<1>9. ASSUME NEW r \in Requests, Reconnect(r) PROVE Exclusive'
  BY <1>9 DEF Reconnect, Connect, StartOp
<1>10. ASSUME NEW r \in Requests, NEW failed \in BOOLEAN, EndSession(r, failed)
      PROVE  Exclusive'
  <2>1. \A q \in Requests : conn'[q] = IF q = r THEN NoConnection ELSE conn[q]
    BY <1>10 DEF EndSession, Refer, Without, TypeOK
  <2> DEFINE used == inUse \ {conn[r]}
             unused == (pool \ used) \ IF failed THEN {conn[r]} ELSE {}
  <2>2. PICK kept \in IF unused = {} THEN {{}} ELSE {{c} : c \in unused} :
          pool' = (pool \cap used) \cup kept /\ inUse' = used \cap Referred(pool', conn')
    BY <1>10 DEF EndSession, Refer
  <2>3. pool' \ inUse' = kept
    BY <2>2 DEF Referred
  <2>4. \A q \in Requests : conn[q] # NoConnection /\ conn[q] \in kept => q = r
    BY <2>2
  <2>5. NoConnection \notin kept /\ \A c, d \in kept : c = d
    BY <2>2, NoConnectionAssumption DEF TypeOK
  <2> QED
    BY <2>1, <2>3, <2>4, <2>5
<1>11. ASSUME NEW r \in Requests, RunCallback(r) PROVE Exclusive'
  BY <1>11 DEF RunCallback
<1>11a. ASSUME NEW r \in Requests, Throw(r) PROVE Exclusive'
  <2>1. \A q \in Requests : conn'[q] = IF q = r THEN NoConnection ELSE conn[q]
    BY <1>11a DEF Throw, Refer, Without, TypeOK
  <2>2. pool' = pool /\ pool \cap inUse' = pool \cap inUse
    BY <1>11a DEF Throw, Refer, Referred
  <2> QED
    BY <2>1, <2>2, NoConnectionAssumption DEF TypeOK
<1>12. ASSUME NEW r \in Requests, CountIn(r) PROVE Exclusive'
  BY <1>12 DEF CountIn, SyncStep
<1>13. ASSUME NEW r \in Requests, EnterRun(r) PROVE Exclusive'
  BY <1>13 DEF EnterRun, SyncStep
<1>14. ASSUME NEW r \in Requests, RunRefused(r) PROVE Exclusive'
  BY <1>14 DEF RunRefused, SyncStep
<1>15. ASSUME NEW r \in Requests, LeaveRun(r) PROVE Exclusive'
  BY <1>15 DEF LeaveRun, SyncStep
<1>16. ASSUME NEW r \in Requests, CountOut(r) PROVE Exclusive'
  BY <1>16 DEF CountOut, SyncStep
<1>17. ASSUME NEW r \in Requests, Complete(r) PROVE Exclusive'
  BY <1>17 DEF Complete
<1>18. ASSUME NEW r \in Requests, Transfer(r) PROVE Exclusive'
  BY <1>18 DEF Transfer
<1>19. ASSUME NEW r \in Requests, Continue(r) PROVE Exclusive'
  BY <1>19 DEF Continue
<1>20. ASSUME NEW c \in armed, Expire(c) PROVE Exclusive'
  BY <1>20 DEF Expire
<1>21. ASSUME NEW c \in expired, OnExpiry(c) PROVE Exclusive'
  BY <1>21 DEF OnExpiry, CancelSockets, Aborts
<1>22. ASSUME Stop PROVE Exclusive'
  BY <1>22 DEF Stop, StopPool, CancelSockets, Aborts, Refer, Referred
<1>23. ASSUME Destroy PROVE Exclusive'
  BY <1>23 DEF Destroy
<1>24. ASSUME CloseScope PROVE Exclusive'
  BY <1>24 DEF CloseScope, StopPool, CancelSockets, Aborts, Refer, Referred
<1>25. ASSUME NEW r \in Requests, HandlerStep(r) PROVE Exclusive'
  <2>1. CASE Succeed(r) \/ Fail(r)
    BY <2>1, <1>10 DEF Succeed, Fail
  <2> QED
    BY <1>25, <2>1, <1>3, <1>4, <1>5, <1>6, <1>7, <1>8, <1>9, <1>11,
       <1>11a
    DEF HandlerStep
<1>26. ASSUME NEW r \in Requests, SyncCall(r) PROVE Exclusive'
  BY <1>26, <1>12, <1>13, <1>14, <1>15, <1>16 DEF SyncCall
<1>27. CASE UNCHANGED vars
  BY <1>27 DEF vars
<1> QED
  BY <1>25, <1>26, <1>27, <1>1, <1>2, <1>17, <1>18, <1>19, <1>20, <1>21, <1>22, <1>23, <1>24
  DEF Next
\* No step leaves a used connection in the pool without a session.
LEMMA LeakStep == IInv /\ [Next]_vars => NoLeak'
<1> SUFFICES ASSUME TypeOK, FlagsReferred, Exclusive, NoLeak, Counter, Sessions,
                    [Next]_vars
             PROVE  NoLeak'
  BY DEF IInv
<1> USE DEF NoLeak, poolVars, timerVars, opVars, scopeVars, appVars, syncVars, throwVars
<1>1. ASSUME NEW r \in Requests, GetConnection(r) PROVE NoLeak'
  <2>1. PICK c \in IF Idle = {} THEN {NewConnection} ELSE Idle :
          /\ pool' = pool \cup {c} /\ inUse' = inUse \cup {c}
          /\ conn' = [conn EXCEPT ![r] = c]
    BY <1>1 DEF GetConnection
  <2>2. conn[r] = NoConnection /\ conn'[r] = c
        /\ \A q \in Requests \ {r} : conn'[q] = conn[q]
    BY <1>1, <2>1 DEF GetConnection, Sessions, Session, TypeOK
  <2>3. c \in Connections /\ pool \subseteq Connections
    BY <2>1, <1>1, NewFresh DEF GetConnection, Fresh, Idle, TypeOK
  <2>4. count >= 0 /\ count' = count
    BY <1>1 DEF GetConnection, Counter, TypeOK
  <2>5. ASSUME NEW d \in pool' \cap inUse', d # c
        PROVE  d \in leaked' \/ \E q \in Requests : conn'[q] = d
    BY <1>1, <2>1, <2>2, <2>3, <2>4, <2>5, NoConnectionAssumption DEF GetConnection
  <2> QED
    BY <2>2, <2>5
<1>2. ASSUME NEW r \in Requests, Begin(r) PROVE NoLeak'
  BY <1>2 DEF Begin, Connect, StartOp
<1>3. ASSUME NEW r \in Requests, Dispatch(r) PROVE NoLeak'
  BY <1>3 DEF Dispatch
<1>4. ASSUME NEW r \in Requests, EnterScope(r) PROVE NoLeak'
  BY <1>4 DEF EnterScope
<1>5. ASSUME NEW r \in Requests, Reload(r) PROVE NoLeak'
  BY <1>5 DEF Reload
<1>6. ASSUME NEW r \in Requests, TurnedAway(r) PROVE NoLeak'
  <2>1. count' < 0
    BY <1>6 DEF TurnedAway, Counter
  <2> QED
    BY <2>1, <1>6 DEF TurnedAway, TypeOK
<1>7. ASSUME NEW r \in Requests, Advance(r) PROVE NoLeak'
  <2>1. count >= 0
    BY <1>7, InScopeCounts DEF Advance, InScope
  <2>2. pool' = pool /\ inUse' = inUse /\ conn' = conn /\ leaked' = leaked
    BY <1>7 DEF Advance
  <2> QED
    BY <2>1, <2>2
<1>8. ASSUME NEW r \in Requests, Retry(r) PROVE NoLeak'
  <2> DEFINE c == NewConnection
  <2>1. c \notin pool
    BY <1>8, NewFresh DEF Retry, Fresh, Referred
  <2>2. pool' = (pool \ {conn[r]}) \cup {c} /\ conn' = [conn EXCEPT ![r] = c]
        /\ pool' \cap inUse' \subseteq pool' \cap (inUse \cup {c}) /\ count' = count
    BY <1>8 DEF Retry, Refer
  <2>3. \A q \in Requests : conn'[q] = IF q = r THEN c ELSE conn[q]
    BY <2>2 DEF TypeOK
  <2> HIDE DEF c
  <2>4. count >= 0 => \A d \in (pool \cap inUse) \ {conn[r]} :
          d \in leaked \/ \E q \in Requests \ {r} : conn[q] = d
    OBVIOUS
  <2>5. \A d \in pool' : d \in leaked => d \in leaked'
    BY <1>8 DEF Retry, Refer, Referred
  <2> QED
    BY <2>2, <2>3, <2>4, <2>5
<1>9. ASSUME NEW r \in Requests, Reconnect(r) PROVE NoLeak'
  <2>1. count >= 0
    BY <1>9, InScopeCounts DEF Reconnect, InScope
  <2>2. pool' = pool /\ inUse' = inUse /\ conn' = conn /\ leaked' = leaked
    BY <1>9 DEF Reconnect
  <2> QED
    BY <2>1, <2>2
<1>10. ASSUME NEW r \in Requests, NEW failed \in BOOLEAN, EndSession(r, failed)
      PROVE  NoLeak'
  <2>1. \A q \in Requests : conn'[q] = IF q = r THEN NoConnection ELSE conn[q]
    BY <1>10 DEF EndSession, Refer, Without, TypeOK
  <2>2. pool' \cap inUse' \subseteq (pool \cap inUse) \ {conn[r]} /\ count' = count
    BY <1>10 DEF EndSession, Refer
  <2>3. \A d \in (pool \cap inUse) \ {conn[r]} :
          count >= 0 => d \in leaked \/ \E q \in Requests \ {r} : conn[q] = d
    OBVIOUS
  <2>4. \A d \in pool' : d \in leaked => d \in leaked'
    BY <1>10 DEF EndSession, Refer, Referred
  <2> QED
    BY <2>1, <2>2, <2>3, <2>4
<1>11. ASSUME NEW r \in Requests, RunCallback(r) PROVE NoLeak'
  <2>1. count >= 0
    BY <1>11, InScopeCounts DEF RunCallback, InScope
  <2>2. pool' = pool /\ inUse' = inUse /\ conn' = conn /\ leaked' = leaked
    BY <1>11 DEF RunCallback
  <2> QED
    BY <2>1, <2>2
<1>11a. ASSUME NEW r \in Requests, Throw(r) PROVE NoLeak'
  <2>1. \A q \in Requests : conn'[q] = IF q = r THEN NoConnection ELSE conn[q]
    BY <1>11a DEF Throw, Refer, Without, TypeOK
  <2>2. pool' = pool /\ inUse' \subseteq inUse
    BY <1>11a DEF Throw, Refer
  <2>3. \A c \in pool' : c \in leaked \cup {conn[r]} => c \in leaked'
    BY <1>11a DEF Throw, Refer, Referred
  <2>4. count >= 0
    BY <1>11a, InScopeCounts DEF Throw, InScope
  <2> QED
    BY <2>1, <2>2, <2>3, <2>4
<1>12. ASSUME NEW r \in Requests, CountIn(r) PROVE NoLeak'
  BY <1>12 DEF CountIn, SyncStep
<1>13. ASSUME NEW r \in Requests, EnterRun(r) PROVE NoLeak'
  BY <1>13 DEF EnterRun, SyncStep
<1>14. ASSUME NEW r \in Requests, RunRefused(r) PROVE NoLeak'
  BY <1>14 DEF RunRefused, SyncStep
<1>15. ASSUME NEW r \in Requests, LeaveRun(r) PROVE NoLeak'
  BY <1>15 DEF LeaveRun, SyncStep
<1>16. ASSUME NEW r \in Requests, CountOut(r) PROVE NoLeak'
  BY <1>16 DEF CountOut, SyncStep
<1>17. ASSUME NEW r \in Requests, Complete(r) PROVE NoLeak'
  BY <1>17 DEF Complete
<1>18. ASSUME NEW r \in Requests, Transfer(r) PROVE NoLeak'
  BY <1>18 DEF Transfer
<1>19. ASSUME NEW r \in Requests, Continue(r) PROVE NoLeak'
  BY <1>19 DEF Continue
<1>20. ASSUME NEW c \in armed, Expire(c) PROVE NoLeak'
  BY <1>20 DEF Expire
<1>21. ASSUME NEW c \in expired, OnExpiry(c) PROVE NoLeak'
  BY <1>21 DEF OnExpiry, CancelSockets, Aborts
<1>22. ASSUME Stop PROVE NoLeak'
  BY <1>22 DEF Stop, StopPool, CancelSockets, Aborts, Refer, Referred
<1>23. ASSUME Destroy PROVE NoLeak'
  BY <1>23 DEF Destroy
<1>24. ASSUME CloseScope PROVE NoLeak'
  BY <1>24 DEF CloseScope, StopPool, CancelSockets, Aborts, Refer, Referred
<1>25. ASSUME NEW r \in Requests, HandlerStep(r) PROVE NoLeak'
  <2>1. CASE Succeed(r) \/ Fail(r)
    BY <2>1, <1>10 DEF Succeed, Fail
  <2> QED
    BY <1>25, <2>1, <1>3, <1>4, <1>5, <1>6, <1>7, <1>8, <1>9, <1>11,
       <1>11a
    DEF HandlerStep
<1>26. ASSUME NEW r \in Requests, SyncCall(r) PROVE NoLeak'
  BY <1>26, <1>12, <1>13, <1>14, <1>15, <1>16 DEF SyncCall
<1>27. CASE UNCHANGED vars
  BY <1>27 DEF vars
<1> QED
  BY <1>25, <1>26, <1>27, <1>1, <1>2, <1>17, <1>18, <1>19, <1>20, <1>21, <1>22, <1>23, <1>24
  DEF Next
\* The handlers that run are finitely many.
LEMMA HoldersFinite == IsFiniteSet(Holders)
  BY RequestsAssumption, FS_Subset DEF Holders

\* Every step keeps the counter of the scope.
LEMMA CounterStep == IInv /\ [Next]_vars => Counter'
<1> SUFFICES ASSUME TypeOK, Counter, [Next]_vars
             PROVE  Counter'
  BY DEF IInv
<1> USE DEF Counter, poolVars, timerVars, opVars, scopeVars, appVars, syncVars, throwVars
<1>1. ASSUME NEW r \in Requests, GetConnection(r) PROVE Counter'
  <2>1. Holders' = Holders
    BY <1>1 DEF GetConnection, Holders, InScope, TypeOK
  <2> QED
    BY <1>1, <2>1 DEF GetConnection, TypeOK
<1>2. ASSUME NEW r \in Requests, Begin(r) PROVE Counter'
  <2>1. Holders' = Holders
    BY <1>2 DEF Begin, Connect, StartOp, Holders, InScope, TypeOK
  <2> QED
    BY <1>2, <2>1 DEF Begin, Connect, StartOp, TypeOK
<1>3. ASSUME NEW r \in Requests, Dispatch(r) PROVE Counter'
  <2>1. Holders' = Holders
    BY <1>3 DEF Dispatch, Holders, InScope, TypeOK
  <2> QED
    BY <1>3, <2>1 DEF Dispatch, TypeOK
<1>4. ASSUME NEW r \in Requests, EnterScope(r) PROVE Counter'
  <2>1. r \notin Holders /\ Holders' = Holders \cup {r}
    BY <1>4 DEF EnterScope, Holders, InScope, TypeOK
  <2>2. Cardinality(Holders') = Cardinality(Holders) + 1
    BY <2>1, HoldersFinite, FS_AddElement
  <2>3. count >= 0 /\ count' = count + 1
    BY <1>4 DEF EnterScope, TypeOK
  <2> QED
    BY <1>4, <2>2, <2>3 DEF EnterScope, TypeOK
<1>5. ASSUME NEW r \in Requests, Reload(r) PROVE Counter'
  <2>1. Holders' = Holders
    BY <1>5 DEF Reload, Holders, InScope, TypeOK
  <2> QED
    BY <1>5, <2>1 DEF Reload, TypeOK
<1>6. ASSUME NEW r \in Requests, TurnedAway(r) PROVE Counter'
  <2>1. Holders' = Holders
    BY <1>6 DEF TurnedAway, SessionOver, Without, Refer, Referred, Holders, InScope, TypeOK
  <2> QED
    BY <1>6, <2>1 DEF TurnedAway, SessionOver, Without, Refer, Referred, TypeOK
<1>7. ASSUME NEW r \in Requests, Advance(r) PROVE Counter'
  <2>1. r \in Holders /\ Holders' = Holders \ {r}
    BY <1>7 DEF Advance, Holders, InScope, TypeOK
  <2>2. Cardinality(Holders') = Cardinality(Holders) - 1
    BY <2>1, HoldersFinite, FS_RemoveElement
  <2>3. count' = count - 1 /\ count >= 1
    BY <1>7, InScopeCounts DEF Advance, InScope
  <2> QED
    BY <1>7, <2>2, <2>3 DEF Advance, TypeOK
<1>8. ASSUME NEW r \in Requests, Retry(r) PROVE Counter'
  <2>1. Holders' = Holders
    BY <1>8 DEF Retry, Refer, Referred, Holders, InScope, TypeOK
  <2> QED
    BY <1>8, <2>1 DEF Retry, Refer, Referred, TypeOK
<1>9. ASSUME NEW r \in Requests, Reconnect(r) PROVE Counter'
  <2>1. r \in Holders /\ Holders' = Holders \ {r}
    BY <1>9 DEF Reconnect, Holders, InScope, TypeOK
  <2>2. Cardinality(Holders') = Cardinality(Holders) - 1
    BY <2>1, HoldersFinite, FS_RemoveElement
  <2>3. count' = count - 1 /\ count >= 1
    BY <1>9, InScopeCounts DEF Reconnect, InScope
  <2> QED
    BY <1>9, <2>2, <2>3 DEF Reconnect, TypeOK
<1>10. ASSUME NEW r \in Requests, NEW failed \in BOOLEAN, EndSession(r, failed)
      PROVE  Counter'
  <2>1. Holders' = Holders
    BY <1>10 DEF EndSession, SessionOver, Without, Refer, Referred, Holders, InScope, TypeOK
  <2> QED
    BY <1>10, <2>1 DEF EndSession, SessionOver, Without, Refer, Referred, TypeOK
<1>11. ASSUME NEW r \in Requests, RunCallback(r) PROVE Counter'
  <2>1. CASE pc'[r] = "idle"
    <3>1. r \in Holders /\ Holders' = Holders \ {r}
      BY <1>11, <2>1 DEF RunCallback, Holders, InScope, TypeOK
    <3>2. Cardinality(Holders') = Cardinality(Holders) - 1
      BY <3>1, HoldersFinite, FS_RemoveElement
    <3>3. count' = count - 1 /\ count >= 1
      BY <1>11, <2>1, InScopeCounts DEF RunCallback, InScope, TypeOK
    <3> QED
      BY <1>11, <2>1, <3>2, <3>3 DEF RunCallback, TypeOK
  <2>2. CASE pc'[r] # "idle"
    <3>1. Holders' = Holders /\ count' = count
      BY <1>11, <2>2 DEF RunCallback, Holders, InScope, TypeOK
    <3> QED
      BY <1>11, <3>1 DEF RunCallback, TypeOK
  <2> QED
    BY <2>1, <2>2
<1>11a. ASSUME NEW r \in Requests, Throw(r) PROVE Counter'
  <2>1. r \in Holders /\ Holders' = Holders \ {r}
    BY <1>11a DEF Throw, Holders, InScope, TypeOK
  <2>2. Cardinality(Holders') = Cardinality(Holders) - 1
    BY <2>1, HoldersFinite, FS_RemoveElement
  <2>3. count' = count - 1 /\ count >= 1
    BY <1>11a, InScopeCounts DEF Throw, InScope
  <2> QED
    BY <1>11a, <2>2, <2>3 DEF Throw, TypeOK
<1>12. ASSUME NEW r \in Requests, CountIn(r) PROVE Counter'
  <2>1. Holders' = Holders
    BY <1>12 DEF CountIn, SyncStep, Holders, InScope, TypeOK
  <2> QED
    BY <1>12, <2>1 DEF CountIn, SyncStep, TypeOK
<1>13. ASSUME NEW r \in Requests, EnterRun(r) PROVE Counter'
  <2>1. Holders' = Holders
    BY <1>13 DEF EnterRun, SyncStep, Holders, InScope, TypeOK
  <2> QED
    BY <1>13, <2>1 DEF EnterRun, SyncStep, TypeOK
<1>14. ASSUME NEW r \in Requests, RunRefused(r) PROVE Counter'
  <2>1. Holders' = Holders
    BY <1>14 DEF RunRefused, SyncStep, Holders, InScope, TypeOK
  <2> QED
    BY <1>14, <2>1 DEF RunRefused, SyncStep, TypeOK
<1>15. ASSUME NEW r \in Requests, LeaveRun(r) PROVE Counter'
  <2>1. Holders' = Holders
    BY <1>15 DEF LeaveRun, SyncStep, Holders, InScope, TypeOK
  <2> QED
    BY <1>15, <2>1 DEF LeaveRun, SyncStep, TypeOK
<1>16. ASSUME NEW r \in Requests, CountOut(r) PROVE Counter'
  <2>1. Holders' = Holders
    BY <1>16 DEF CountOut, SyncStep, Holders, InScope, TypeOK
  <2> QED
    BY <1>16, <2>1 DEF CountOut, SyncStep, TypeOK
<1>17. ASSUME NEW r \in Requests, Complete(r) PROVE Counter'
  <2>1. Holders' = Holders
    BY <1>17 DEF Complete, Holders, InScope, TypeOK
  <2> QED
    BY <1>17, <2>1 DEF Complete, TypeOK
<1>18. ASSUME NEW r \in Requests, Transfer(r) PROVE Counter'
  <2>1. Holders' = Holders
    BY <1>18 DEF Transfer, Holders, InScope, TypeOK
  <2> QED
    BY <1>18, <2>1 DEF Transfer, TypeOK
<1>19. ASSUME NEW r \in Requests, Continue(r) PROVE Counter'
  <2>1. Holders' = Holders
    BY <1>19 DEF Continue, Holders, InScope, TypeOK
  <2> QED
    BY <1>19, <2>1 DEF Continue, TypeOK
<1>20. ASSUME NEW c \in armed, Expire(c) PROVE Counter'
  <2>1. Holders' = Holders
    BY <1>20 DEF Expire, Holders, InScope, TypeOK
  <2> QED
    BY <1>20, <2>1 DEF Expire, TypeOK
<1>21. ASSUME NEW c \in expired, OnExpiry(c) PROVE Counter'
  <2>1. Holders' = Holders
    BY <1>21 DEF OnExpiry, CancelSockets, Aborts, Holders, InScope, TypeOK
  <2> QED
    BY <1>21, <2>1 DEF OnExpiry, CancelSockets, Aborts, TypeOK
<1>22. ASSUME Stop PROVE Counter'
  <2>1. Holders' = Holders
    BY <1>22 DEF Stop, StopPool, CancelSockets, Aborts, Refer, Referred, Holders, InScope, TypeOK
  <2> QED
    BY <1>22, <2>1 DEF Stop, StopPool, CancelSockets, Aborts, Refer, Referred, TypeOK
<1>23. ASSUME Destroy PROVE Counter'
  <2>1. Holders' = Holders
    BY <1>23 DEF Destroy, Holders, InScope, TypeOK
  <2> QED
    BY <1>23, <2>1 DEF Destroy, TypeOK
<1>24. ASSUME CloseScope PROVE Counter'
  <2>1. Holders' = Holders
    BY <1>24 DEF CloseScope, Holders, InScope
  <2>2. Holders = {}
    BY <1>24, HoldersFinite, FS_EmptySet DEF CloseScope
  <2> QED
    BY <1>24, <2>1, <2>2 DEF CloseScope, TypeOK
<1>25. ASSUME NEW r \in Requests, HandlerStep(r) PROVE Counter'
  <2>1. CASE Succeed(r) \/ Fail(r)
    BY <2>1, <1>10 DEF Succeed, Fail
  <2> QED
    BY <1>25, <2>1, <1>3, <1>4, <1>5, <1>6, <1>7, <1>8, <1>9, <1>11,
       <1>11a
    DEF HandlerStep
<1>26. ASSUME NEW r \in Requests, SyncCall(r) PROVE Counter'
  BY <1>26, <1>12, <1>13, <1>14, <1>15, <1>16 DEF SyncCall
<1>27. CASE UNCHANGED vars
  BY <1>27 DEF vars, Holders, InScope
<1> QED
  BY <1>25, <1>26, <1>27, <1>1, <1>2, <1>17, <1>18, <1>19, <1>20, <1>21, <1>22, <1>23, <1>24
  DEF Next
\* Every step leaves every session in one of the states a session can be in.
LEMMA SessionStep == IInv /\ [Next]_vars => Sessions'
<1> SUFFICES ASSUME TypeOK, Sessions, [Next]_vars
             PROVE  Sessions'
  BY DEF IInv
<1> USE DEF Sessions, Session, TypeOK, poolVars, timerVars, opVars, scopeVars, appVars,
           syncVars, throwVars
<1>1. ASSUME NEW r \in Requests, GetConnection(r) PROVE Sessions'
  <2>1. PICK c \in IF Idle = {} THEN {NewConnection} ELSE Idle : conn' = [conn EXCEPT ![r] = c]
    BY <1>1 DEF GetConnection
  <2>2. c \in Connections
    BY <1>1, <2>1, NewFresh DEF GetConnection, Fresh, Idle
  <2> QED
    BY <1>1, <2>1, <2>2, NoConnectionAssumption DEF GetConnection
<1>2. ASSUME NEW r \in Requests, Begin(r) PROVE Sessions'
  BY <1>2 DEF Begin, Connect, StartOp
<1>3. ASSUME NEW r \in Requests, Dispatch(r) PROVE Sessions'
  BY <1>3 DEF Dispatch
<1>4. ASSUME NEW r \in Requests, EnterScope(r) PROVE Sessions'
  BY <1>4 DEF EnterScope
<1>5. ASSUME NEW r \in Requests, Reload(r) PROVE Sessions'
  BY <1>5 DEF Reload
<1>6. ASSUME NEW r \in Requests, TurnedAway(r) PROVE Sessions'
  BY <1>6 DEF TurnedAway, SessionOver, Without, Refer, Referred
<1>7. ASSUME NEW r \in Requests, Advance(r) PROVE Sessions'
  BY <1>7 DEF Advance, Following, StartOp
<1>8. ASSUME NEW r \in Requests, Retry(r) PROVE Sessions'
  <2>1. NewConnection \in Connections
    BY <1>8, NewFresh DEF Retry, Fresh
  <2> QED
    BY <1>8, <2>1, NoConnectionAssumption DEF Retry, Refer
<1>9. ASSUME NEW r \in Requests, Reconnect(r) PROVE Sessions'
  BY <1>9 DEF Reconnect, Connect, StartOp
<1>10. ASSUME NEW r \in Requests, NEW failed \in BOOLEAN, EndSession(r, failed)
      PROVE  Sessions'
  BY <1>10 DEF EndSession, SessionOver, Without, Refer, Referred
<1>11. ASSUME NEW r \in Requests, RunCallback(r) PROVE Sessions'
  BY <1>11 DEF RunCallback
<1>11a. ASSUME NEW r \in Requests, Throw(r) PROVE Sessions'
  <2>1. /\ conn' = [conn EXCEPT ![r] = NoConnection] /\ pc' = [pc EXCEPT ![r] = "idle"]
        /\ op' = [op EXCEPT ![r] = "none"] /\ net' = [net EXCEPT ![r] = "none"]
        /\ answered' = answered /\ broken' = broken \cup {r} /\ pc[r] = "inside"
    BY <1>11a DEF Throw, SessionOver, Refer, Without
  <2>2. \A q \in Requests : call'[q] = call[q] \/ (call[q] = "run" /\ call'[q] = "threw")
    BY <1>11a, ThrownCalls
  <2>3. ASSUME NEW q \in Requests PROVE Session(q)'
    <3>1. CASE q = r
      BY <2>1, <2>2, <3>1
    <3>2. CASE q # r
      BY <2>1, <2>2, <3>2
    <3> QED
      BY <3>1, <3>2
  <2> QED
    BY <2>3
<1>12. ASSUME NEW r \in Requests, CountIn(r) PROVE Sessions'
  BY <1>12 DEF CountIn, SyncStep
<1>13. ASSUME NEW r \in Requests, EnterRun(r) PROVE Sessions'
  BY <1>13 DEF EnterRun, SyncStep
<1>14. ASSUME NEW r \in Requests, RunRefused(r) PROVE Sessions'
  BY <1>14 DEF RunRefused, SyncStep
<1>15. ASSUME NEW r \in Requests, LeaveRun(r) PROVE Sessions'
  BY <1>15 DEF LeaveRun, SyncStep
<1>16. ASSUME NEW r \in Requests, CountOut(r) PROVE Sessions'
  BY <1>16 DEF CountOut, SyncStep
<1>17. ASSUME NEW r \in Requests, Complete(r) PROVE Sessions'
  BY <1>17 DEF Complete
<1>18. ASSUME NEW r \in Requests, Transfer(r) PROVE Sessions'
  BY <1>18 DEF Transfer
<1>19. ASSUME NEW r \in Requests, Continue(r) PROVE Sessions'
  BY <1>19 DEF Continue
<1>20. ASSUME NEW c \in armed, Expire(c) PROVE Sessions'
  BY <1>20 DEF Expire
<1>21. ASSUME NEW c \in expired, OnExpiry(c) PROVE Sessions'
  BY <1>21 DEF OnExpiry, CancelSockets, Aborts
<1>22. ASSUME Stop PROVE Sessions'
  BY <1>22 DEF Stop, StopPool, CancelSockets, Aborts, Refer, Referred
<1>23. ASSUME Destroy PROVE Sessions'
  BY <1>23 DEF Destroy
<1>24. ASSUME CloseScope PROVE Sessions'
  BY <1>24 DEF CloseScope, StopPool, CancelSockets, Aborts, Refer, Referred
<1>25. ASSUME NEW r \in Requests, HandlerStep(r) PROVE Sessions'
  <2>1. CASE Succeed(r) \/ Fail(r)
    BY <2>1, <1>10 DEF Succeed, Fail
  <2> QED
    BY <1>25, <2>1, <1>3, <1>4, <1>5, <1>6, <1>7, <1>8, <1>9, <1>11,
       <1>11a
    DEF HandlerStep
<1>26. ASSUME NEW r \in Requests, SyncCall(r) PROVE Sessions'
  BY <1>26, <1>12, <1>13, <1>14, <1>15, <1>16 DEF SyncCall
<1>27. CASE UNCHANGED vars
  BY <1>27 DEF vars
<1> QED
  BY <1>25, <1>26, <1>27, <1>1, <1>2, <1>17, <1>18, <1>19, <1>20, <1>21, <1>22, <1>23, <1>24
  DEF Next
\* Every step keeps how often a request may have been written.
LEMMA RetryStep == IInv /\ [Next]_vars => RetriedOnce'
<1> SUFFICES ASSUME TypeOK, FlagsReferred, Exclusive, Sessions, RetriedOnce,
                    [Next]_vars
             PROVE  RetriedOnce'
  BY DEF IInv
<1> USE DEF RetriedOnce, Written, TypeOK, Sessions, Session, poolVars, timerVars,
           opVars, scopeVars, appVars, syncVars, throwVars
<1>1. ASSUME NEW r \in Requests, GetConnection(r) PROVE RetriedOnce'
  <2>1. PICK c \in IF Idle = {} THEN {NewConnection} ELSE Idle :
          retryable' = retryable \cup {c} /\ conn' = [conn EXCEPT ![r] = c]
    BY <1>1 DEF GetConnection
  <2>2. \A q \in Requests : conn[q] # c
    BY <1>1, <2>1, NewFresh DEF GetConnection, Fresh, Idle, Exclusive, Referred
  <2>3. op[r] = "none" /\ pc[r] = "idle"
    BY <1>1 DEF GetConnection, Sessions, Session
  <2> QED
    BY <1>1, <2>1, <2>2, <2>3, NoConnectionAssumption DEF GetConnection, TypeOK
<1>2. ASSUME NEW r \in Requests, Begin(r) PROVE RetriedOnce'
  BY <1>2 DEF Begin, Connect, StartOp
<1>3. ASSUME NEW r \in Requests, Dispatch(r) PROVE RetriedOnce'
  BY <1>3 DEF Dispatch
<1>4. ASSUME NEW r \in Requests, EnterScope(r) PROVE RetriedOnce'
  BY <1>4 DEF EnterScope
<1>5. ASSUME NEW r \in Requests, Reload(r) PROVE RetriedOnce'
  BY <1>5 DEF Reload
<1>6. ASSUME NEW r \in Requests, TurnedAway(r) PROVE RetriedOnce'
  BY <1>6 DEF TurnedAway, SessionOver, Without, Refer, Referred
<1>7. ASSUME NEW r \in Requests, Advance(r) PROVE RetriedOnce'
  <2>1. PICK o \in Following(r) \ {"end"} : StartOp(r, o)
    BY <1>7 DEF Advance
  <2>2. /\ op' = [op EXCEPT ![r] = o]
        /\ sent' = [sent EXCEPT ![r] = IF o = "write" THEN @ + 1
                                          ELSE IF o = "body" THEN 0 ELSE @]
    BY <2>1 DEF StartOp
  <2>3. Written(r)'
    BY <1>7, <2>2 DEF Advance, Following, Written, Session, Sessions, Operations, TypeOK
  <2>4. ASSUME NEW q \in Requests \ {r} PROVE Written(q)'
    <3>1. op'[q] = op[q] /\ sent'[q] = sent[q] /\ pc'[q] = pc[q] /\ conn'[q] = conn[q]
      BY <1>7, <2>2 DEF Advance, TypeOK
    <3>2. conn[q] \in retryable' /\ conn[q] # NoConnection => conn[q] \in retryable
      BY <1>7 DEF Advance, Exclusive
    <3>3. op[q] # "none" \/ pc[q] = "connect" => conn[q] # NoConnection
      BY DEF Sessions, Session
    <3> QED
      BY <3>1, <3>2, <3>3 DEF Written, Sessions, Session, TypeOK
  <2> QED
    BY <2>3, <2>4
<1>8. ASSUME NEW r \in Requests, Retry(r) PROVE RetriedOnce'
  <2> DEFINE c == NewConnection
  <2>1. c \in Fresh
    BY <1>8, NewFresh DEF Retry
  <2>2. c \notin retryable /\ c \in Connections
    BY <2>1, NoConnectionAssumption DEF FlagsReferred, Fresh
  <2>3. /\ pc' = [pc EXCEPT ![r] = "connect"] /\ conn' = [conn EXCEPT ![r] = c]
        /\ retryable' \subseteq retryable /\ op' = op /\ sent' = sent
        /\ op[r] = "header" /\ conn[r] \in retryable
    BY <1>8 DEF Retry, Refer
  <2> HIDE DEF c
  <2> QED
    BY <2>2, <2>3 DEF TypeOK
<1>9. ASSUME NEW r \in Requests, Reconnect(r) PROVE RetriedOnce'
  BY <1>9 DEF Reconnect, Connect, StartOp
<1>10. ASSUME NEW r \in Requests, NEW failed \in BOOLEAN, EndSession(r, failed)
      PROVE  RetriedOnce'
  <2>1. /\ conn' = [conn EXCEPT ![r] = NoConnection]
        /\ retryable' \subseteq retryable \cup {conn[r]}
        /\ op' = [op EXCEPT ![r] = "none"] /\ sent' = [sent EXCEPT ![r] = 0]
        /\ pc' = [pc EXCEPT ![r] = "user"]
    BY <1>10 DEF EndSession, SessionOver, Refer, Without
  <2>2. \A q \in Requests \ {r} : conn[q] \in retryable' /\ conn[q] # NoConnection => conn[q] \in retryable
    BY <2>1 DEF Exclusive
  <2> QED
    BY <2>1, <2>2 DEF TypeOK, Sessions, Session
<1>11. ASSUME NEW r \in Requests, RunCallback(r) PROVE RetriedOnce'
  BY <1>11 DEF RunCallback
<1>11a. ASSUME NEW r \in Requests, Throw(r) PROVE RetriedOnce'
  <2>1. /\ conn' = [conn EXCEPT ![r] = NoConnection]
        /\ retryable' \subseteq retryable \cup {conn[r]}
        /\ op' = [op EXCEPT ![r] = "none"] /\ sent' = [sent EXCEPT ![r] = 0]
        /\ pc' = [pc EXCEPT ![r] = "idle"]
    BY <1>11a DEF Throw, SessionOver, Refer, Without
  <2>2. \A q \in Requests \ {r} : conn[q] \in retryable' /\ conn[q] # NoConnection => conn[q] \in retryable
    BY <2>1 DEF Exclusive
  <2> QED
    BY <2>1, <2>2 DEF TypeOK, Sessions, Session
<1>12. ASSUME NEW r \in Requests, CountIn(r) PROVE RetriedOnce'
  BY <1>12 DEF CountIn, SyncStep
<1>13. ASSUME NEW r \in Requests, EnterRun(r) PROVE RetriedOnce'
  BY <1>13 DEF EnterRun, SyncStep
<1>14. ASSUME NEW r \in Requests, RunRefused(r) PROVE RetriedOnce'
  BY <1>14 DEF RunRefused, SyncStep
<1>15. ASSUME NEW r \in Requests, LeaveRun(r) PROVE RetriedOnce'
  BY <1>15 DEF LeaveRun, SyncStep
<1>16. ASSUME NEW r \in Requests, CountOut(r) PROVE RetriedOnce'
  BY <1>16 DEF CountOut, SyncStep
<1>17. ASSUME NEW r \in Requests, Complete(r) PROVE RetriedOnce'
  BY <1>17 DEF Complete
<1>18. ASSUME NEW r \in Requests, Transfer(r) PROVE RetriedOnce'
  BY <1>18 DEF Transfer
<1>19. ASSUME NEW r \in Requests, Continue(r) PROVE RetriedOnce'
  BY <1>19 DEF Continue
<1>20. ASSUME NEW c \in armed, Expire(c) PROVE RetriedOnce'
  BY <1>20 DEF Expire
<1>21. ASSUME NEW c \in expired, OnExpiry(c) PROVE RetriedOnce'
  BY <1>21 DEF OnExpiry, CancelSockets, Aborts
<1>22. ASSUME Stop PROVE RetriedOnce'
  BY <1>22 DEF Stop, StopPool, CancelSockets, Aborts, Refer, Referred
<1>23. ASSUME Destroy PROVE RetriedOnce'
  BY <1>23 DEF Destroy
<1>24. ASSUME CloseScope PROVE RetriedOnce'
  BY <1>24 DEF CloseScope, StopPool, CancelSockets, Aborts, Refer, Referred
<1>25. ASSUME NEW r \in Requests, HandlerStep(r) PROVE RetriedOnce'
  <2>1. CASE Succeed(r) \/ Fail(r)
    BY <2>1, <1>10 DEF Succeed, Fail
  <2> QED
    BY <1>25, <2>1, <1>3, <1>4, <1>5, <1>6, <1>7, <1>8, <1>9, <1>11,
       <1>11a
    DEF HandlerStep
<1>26. ASSUME NEW r \in Requests, SyncCall(r) PROVE RetriedOnce'
  BY <1>26, <1>12, <1>13, <1>14, <1>15, <1>16 DEF SyncCall
<1>27. CASE UNCHANGED vars
  BY <1>27 DEF vars
<1> QED
  BY <1>25, <1>26, <1>27, <1>1, <1>2, <1>17, <1>18, <1>19, <1>20, <1>21, <1>22, <1>23, <1>24
  DEF Next
\* The calls that are counted are finitely many.
LEMMA CountedFinite == IsFiniteSet(Counted) /\ Cardinality(Counted) \in Nat
  BY RequestsAssumption, FS_Subset, FS_CardinalityType DEF Counted

\* When the io_service runs out of work while the client lives, every call that
\* is counted in is answered, or its handler threw.
LEMMA OutOfWork ==
    ASSUME TypeOK, Counter, SyncCalls, Answered, ~Work, NEW q \in Requests,
           call[q] \in {"enter", "run", "ended"}
    PROVE  CallAnswered(q)
<1>1. op[q] = "none" /\ pc[q] = "idle"
  BY DEF Work
<1>2. mode = "sync" /\ appPc = "alive"
  BY DEF SyncCalls, TypeOK, Modes
<1>3. count >= 0
  BY <1>2 DEF Counter, TypeOK
<1> QED
  BY <1>1, <1>3 DEF Answered, CallAnswered

\* Every step keeps the count of the synchronous calls and the answers they wait for.
LEMMA SyncStepKeeps == IInv /\ [Next]_vars => SyncCalls'
<1> SUFFICES ASSUME TypeOK, Counter, Sessions, SyncCalls, Answered, [Next]_vars
             PROVE  SyncCalls'
  BY DEF IInv
<1> USE DEF SyncCalls, CallAnswered, poolVars, timerVars, opVars, scopeVars, appVars,
           syncVars, throwVars
<1>1. ASSUME NEW r \in Requests, GetConnection(r) PROVE SyncCalls'
  <2>1. Counted' = Counted
    BY <1>1 DEF GetConnection, Counted, TypeOK
  <2> QED
    BY <1>1, <2>1 DEF GetConnection, TypeOK, Modes
<1>2. ASSUME NEW r \in Requests, Begin(r) PROVE SyncCalls'
  <2>1. Counted' = Counted
    BY <1>2 DEF Begin, Counted, TypeOK
  <2> QED
    BY <1>2, <2>1 DEF Begin, TypeOK, Modes
<1>3. ASSUME NEW r \in Requests, Dispatch(r) PROVE SyncCalls'
  <2>1. Counted' = Counted
    BY <1>3 DEF Dispatch, Counted, TypeOK
  <2> QED
    BY <1>3, <2>1 DEF Dispatch, TypeOK, Modes
<1>4. ASSUME NEW r \in Requests, EnterScope(r) PROVE SyncCalls'
  <2>1. Counted' = Counted
    BY <1>4 DEF EnterScope, Counted, TypeOK
  <2> QED
    BY <1>4, <2>1 DEF EnterScope, TypeOK, Modes
<1>5. ASSUME NEW r \in Requests, Reload(r) PROVE SyncCalls'
  <2>1. Counted' = Counted
    BY <1>5 DEF Reload, Counted, TypeOK
  <2> QED
    BY <1>5, <2>1 DEF Reload, TypeOK, Modes
<1>6. ASSUME NEW r \in Requests, TurnedAway(r) PROVE SyncCalls'
  <2>1. Counted' = Counted
    BY <1>6 DEF TurnedAway, SessionOver, Without, Refer, Referred, Counted, TypeOK
  <2> QED
    BY <1>6, <2>1 DEF TurnedAway, SessionOver, Without, Refer, Referred, TypeOK, Modes
<1>7. ASSUME NEW r \in Requests, Advance(r) PROVE SyncCalls'
  <2>1. Counted' = Counted
    BY <1>7 DEF Advance, Following, StartOp, Counted, TypeOK
  <2> QED
    BY <1>7, <2>1 DEF Advance, Following, StartOp, TypeOK, Modes
<1>8. ASSUME NEW r \in Requests, Retry(r) PROVE SyncCalls'
  <2>1. Counted' = Counted
    BY <1>8 DEF Retry, Refer, Referred, Counted, TypeOK
  <2> QED
    BY <1>8, <2>1 DEF Retry, Refer, Referred, TypeOK, Modes
<1>9. ASSUME NEW r \in Requests, Reconnect(r) PROVE SyncCalls'
  <2>1. Counted' = Counted
    BY <1>9 DEF Reconnect, Connect, StartOp, Counted, TypeOK
  <2> QED
    BY <1>9, <2>1 DEF Reconnect, Connect, StartOp, TypeOK, Modes
<1>10. ASSUME NEW r \in Requests, NEW failed \in BOOLEAN, EndSession(r, failed)
      PROVE  SyncCalls'
  <2>1. Counted' = Counted
    BY <1>10 DEF EndSession, SessionOver, Without, Refer, Referred, Counted, TypeOK
  <2> QED
    BY <1>10, <2>1 DEF EndSession, SessionOver, Without, Refer, Referred, TypeOK, Modes
<1>11. ASSUME NEW r \in Requests, RunCallback(r) PROVE SyncCalls'
  <2>1. Counted' = Counted
    BY <1>11 DEF RunCallback, Counted
  <2>2. answered[r] = 0
    BY <1>11 DEF RunCallback, Sessions, Session
  <2> QED
    BY <1>11, <2>1, <2>2 DEF RunCallback, TypeOK, Modes
<1>11a. ASSUME NEW r \in Requests, Throw(r) PROVE SyncCalls'
  <2>1. count >= 1 /\ count \in Nat
    BY <1>11a, InScopeCounts DEF Throw, InScope
  <2>2. /\ op' = [op EXCEPT ![r] = "none"] /\ pc' = [pc EXCEPT ![r] = "idle"]
        /\ broken' = broken \cup {r} /\ answered' = answered /\ late' = late
        /\ mode' = mode /\ appPc' = appPc /\ syncCount' = syncCount
    BY <1>11a DEF Throw, SessionOver
  <2>3. CASE mode = "async"
    <3>1. call' = call /\ stopped' = stopped /\ Counted' = Counted
      BY <1>11a, <2>3 DEF Throw, RunThrows, Counted
    <3> QED
      BY <2>2, <2>3, <3>1
  <2>4. CASE mode # "async"
    <3>1. mode = "sync"
      BY <2>4 DEF TypeOK, Modes
    <3>2. PICK q \in Requests : call[q] = "run" /\ call' = [call EXCEPT ![q] = "threw"]
      BY <1>11a, <2>4 DEF Throw, RunThrows
    <3>3. Counted' = Counted /\ q \in Counted'
      BY <3>2 DEF Counted, TypeOK
    <3>4. ASSUME stopped', NEW s \in Requests, call'[s] \in {"enter", "run"}
          PROVE  CallAnswered(s)'
      <4>1. call[s] \in {"enter", "run"}
        BY <3>2, <3>4 DEF TypeOK
      <4>2. CASE stopped
        BY <2>2, <4>1, <4>2
      <4>3. CASE ~stopped
        <5>1. ~Work'
          BY <1>11a, <2>4, <3>4, <4>3 DEF Throw, RunThrows
        <5>2. op'[s] = "none" /\ pc'[s] = "idle"
          BY <5>1 DEF Work
        <5>3. CASE s = r
          BY <2>2, <5>3
        <5>4. CASE s # r
          <6>1. op[s] = "none" /\ pc[s] = "idle"
            BY <2>2, <5>2, <5>4 DEF TypeOK
          <6> QED
            BY <2>1, <2>2, <4>1, <6>1 DEF Answered
        <5> QED
          BY <5>3, <5>4
      <4> QED
        BY <4>2, <4>3
    <3>5. ASSUME NEW s \in Requests PROVE call'[s] = IF s = q THEN "threw" ELSE call[s]
      BY <3>2 DEF TypeOK
    <3>6. appPc = "alive"
      BY <3>1, <3>2
    <3> QED
      BY <2>2, <3>1, <3>3, <3>4, <3>5, <3>6
  <2> QED
    BY <2>3, <2>4
<1>12. ASSUME NEW r \in Requests, CountIn(r) PROVE SyncCalls'
  <2>1. r \notin Counted /\ Counted' = Counted \cup {r}
    BY <1>12 DEF CountIn, SyncStep, Counted, TypeOK
  <2>2. Cardinality(Counted') = Cardinality(Counted) + 1
    BY <2>1, CountedFinite, FS_AddElement
  <2>3. syncCount' = Cardinality(Counted') /\ Counted' # {}
    BY <1>12, <2>1, <2>2 DEF CountIn
  <2>4. late'[r] = (stopped /\ Counted # {}) /\ \A q \in Requests \ {r} : late'[q] = late[q]
    BY <1>12 DEF CountIn, TypeOK
  <2>5. call[r] = "count" /\ call' = [call EXCEPT ![r] = "enter"]
    BY <1>12 DEF CountIn, SyncStep
  <2>6. /\ stopped' = stopped /\ answered' = answered /\ broken' = broken
        /\ mode' = mode /\ appPc' = appPc
    BY <1>12 DEF CountIn, SyncStep
  <2>7. stopped => late'[r]
    BY <2>4
  <2>8. \A q \in Requests : call'[q] = IF q = r THEN "enter" ELSE call[q]
    BY <2>5 DEF TypeOK
  <2>9. mode = "sync" /\ appPc = "alive"
    BY <2>5 DEF TypeOK, Modes
  <2> QED
    BY <2>3, <2>4, <2>5, <2>6, <2>7, <2>8, <2>9
<1>13. ASSUME NEW r \in Requests, EnterRun(r) PROVE SyncCalls'
  <2>1. Counted' = Counted
    BY <1>13 DEF EnterRun, SyncStep, Counted, TypeOK
  <2> QED
    BY <1>13, <2>1 DEF EnterRun, SyncStep, TypeOK, Modes
<1>14. ASSUME NEW r \in Requests, RunRefused(r) PROVE SyncCalls'
  <2>1. Counted' = Counted
    BY <1>14 DEF RunRefused, SyncStep, Counted, TypeOK
  <2> QED
    BY <1>14, <2>1 DEF RunRefused, SyncStep, TypeOK, Modes
<1>15. ASSUME NEW r \in Requests, LeaveRun(r) PROVE SyncCalls'
  <2>1. Counted' = Counted /\ r \in Counted
    BY <1>15 DEF LeaveRun, SyncStep, Counted, TypeOK
  <2>2. \A q \in Requests : call[q] \in {"enter", "run", "ended"} => CallAnswered(q)
    BY <1>15, OutOfWork DEF LeaveRun
  <2> QED
    BY <1>15, <2>1, <2>2 DEF LeaveRun, SyncStep, TypeOK
<1>16. ASSUME NEW r \in Requests, CountOut(r) PROVE SyncCalls'
  <2>1. r \in Counted /\ Counted' = Counted \ {r}
    BY <1>16 DEF CountOut, SyncStep, Counted, TypeOK
  <2>2. Cardinality(Counted') = Cardinality(Counted) - 1
    BY <2>1, CountedFinite, FS_RemoveElement
  <2>3. syncCount' = Cardinality(Counted')
    BY <1>16, <2>2 DEF CountOut
  <2>4. stopped' => Counted' # {}
    BY <1>16, <2>1, <2>3, FS_EmptySet DEF CountOut
  <2> QED
    BY <1>16, <2>3, <2>4 DEF CountOut, SyncStep, TypeOK
<1>17. ASSUME NEW r \in Requests, Complete(r) PROVE SyncCalls'
  <2>1. Counted' = Counted
    BY <1>17 DEF Complete, Counted, TypeOK
  <2> QED
    BY <1>17, <2>1 DEF Complete, TypeOK, Modes
<1>18. ASSUME NEW r \in Requests, Transfer(r) PROVE SyncCalls'
  <2>1. Counted' = Counted
    BY <1>18 DEF Transfer, Counted, TypeOK
  <2> QED
    BY <1>18, <2>1 DEF Transfer, TypeOK, Modes
<1>19. ASSUME NEW r \in Requests, Continue(r) PROVE SyncCalls'
  <2>1. Counted' = Counted
    BY <1>19 DEF Continue, Counted, TypeOK
  <2> QED
    BY <1>19, <2>1 DEF Continue, TypeOK, Modes
<1>20. ASSUME NEW c \in armed, Expire(c) PROVE SyncCalls'
  <2>1. Counted' = Counted
    BY <1>20 DEF Expire, Counted, TypeOK
  <2> QED
    BY <1>20, <2>1 DEF Expire, TypeOK, Modes
<1>21. ASSUME NEW c \in expired, OnExpiry(c) PROVE SyncCalls'
  <2>1. Counted' = Counted
    BY <1>21 DEF OnExpiry, CancelSockets, Aborts, Counted, TypeOK
  <2> QED
    BY <1>21, <2>1 DEF OnExpiry, CancelSockets, Aborts, TypeOK, Modes
<1>22. ASSUME Stop PROVE SyncCalls'
  <2>1. Counted' = Counted
    BY <1>22 DEF Stop, StopPool, CancelSockets, Aborts, Refer, Referred, Counted, TypeOK
  <2> QED
    BY <1>22, <2>1 DEF Stop, StopPool, CancelSockets, Aborts, Refer, Referred, TypeOK, Modes
<1>23. ASSUME Destroy PROVE SyncCalls'
  <2>1. Counted' = Counted
    BY <1>23 DEF Destroy, Counted, TypeOK
  <2> QED
    BY <1>23, <2>1 DEF Destroy, TypeOK, Modes
<1>24. ASSUME CloseScope PROVE SyncCalls'
  <2>1. Counted' = Counted
    BY <1>24 DEF CloseScope, StopPool, CancelSockets, Aborts, Refer, Referred, Counted, TypeOK
  <2> QED
    BY <1>24, <2>1 DEF CloseScope, StopPool, CancelSockets, Aborts, Refer, Referred, TypeOK, Modes
<1>25. ASSUME NEW r \in Requests, HandlerStep(r) PROVE SyncCalls'
  <2>1. CASE Succeed(r) \/ Fail(r)
    BY <2>1, <1>10 DEF Succeed, Fail
  <2> QED
    BY <1>25, <2>1, <1>3, <1>4, <1>5, <1>6, <1>7, <1>8, <1>9, <1>11,
       <1>11a
    DEF HandlerStep
<1>26. ASSUME NEW r \in Requests, SyncCall(r) PROVE SyncCalls'
  BY <1>26, <1>12, <1>13, <1>14, <1>15, <1>16 DEF SyncCall
<1>27. CASE UNCHANGED vars
  BY <1>27 DEF vars, Counted
<1> QED
  BY <1>25, <1>26, <1>27, <1>1, <1>2, <1>17, <1>18, <1>19, <1>20, <1>21, <1>22, <1>23, <1>24
  DEF Next
\* No session is over without an answer while the client lives.
LEMMA AnsweredStep == IInv /\ [Next]_vars => Answered'
<1> SUFFICES ASSUME TypeOK, Counter, Sessions, Answered, [Next]_vars
             PROVE  Answered'
  BY DEF IInv
<1> USE DEF Answered, TypeOK, poolVars, timerVars, opVars, scopeVars, appVars, syncVars, throwVars
<1>1. ASSUME NEW r \in Requests, GetConnection(r) PROVE Answered'
  BY <1>1 DEF GetConnection
<1>2. ASSUME NEW r \in Requests, Begin(r) PROVE Answered'
  BY <1>2 DEF Begin, Connect, StartOp
<1>3. ASSUME NEW r \in Requests, Dispatch(r) PROVE Answered'
  BY <1>3 DEF Dispatch
<1>4. ASSUME NEW r \in Requests, EnterScope(r) PROVE Answered'
  BY <1>4 DEF EnterScope
<1>5. ASSUME NEW r \in Requests, Reload(r) PROVE Answered'
  BY <1>5 DEF Reload
<1>6. ASSUME NEW r \in Requests, TurnedAway(r) PROVE Answered'
  <2>1. count' < 0
    BY <1>6 DEF TurnedAway, Counter
  <2> QED
    BY <2>1, <1>6 DEF TurnedAway
<1>7. ASSUME NEW r \in Requests, Advance(r) PROVE Answered'
  <2>1. \A o \in Following(r) \ {"end"} : o # "none"
    BY DEF Following
  <2>2. count >= 1
    BY <1>7, InScopeCounts DEF Advance, InScope
  <2> QED
    BY <1>7, <2>1, <2>2 DEF Advance, StartOp
<1>8. ASSUME NEW r \in Requests, Retry(r) PROVE Answered'
  BY <1>8 DEF Retry, Refer, Referred
<1>9. ASSUME NEW r \in Requests, Reconnect(r) PROVE Answered'
  <2>1. count >= 1
    BY <1>9, InScopeCounts DEF Reconnect, InScope
  <2> QED
    BY <1>9, <2>1 DEF Reconnect, Connect, StartOp
<1>10. ASSUME NEW r \in Requests, NEW failed \in BOOLEAN, EndSession(r, failed)
      PROVE  Answered'
  BY <1>10 DEF EndSession, SessionOver, Without, Refer, Referred
<1>11. ASSUME NEW r \in Requests, RunCallback(r) PROVE Answered'
  <2>1. answered[r] = 0
    BY <1>11 DEF RunCallback, Sessions, Session
  <2>2. count >= 1
    BY <1>11, InScopeCounts DEF RunCallback, InScope
  <2> QED
    BY <1>11, <2>1, <2>2 DEF RunCallback
<1>11a. ASSUME NEW r \in Requests, Throw(r) PROVE Answered'
  <2>1. /\ op' = [op EXCEPT ![r] = "none"] /\ pc' = [pc EXCEPT ![r] = "idle"]
        /\ broken' = broken \cup {r} /\ answered' = answered
    BY <1>11a DEF Throw, SessionOver
  <2>2. \A q \in Requests : call'[q] = call[q] \/ (call[q] = "run" /\ call'[q] = "threw")
    BY <1>11a, ThrownCalls
  <2>3. count >= 1
    BY <1>11a, InScopeCounts DEF Throw, InScope
  <2> QED
    BY <2>1, <2>2, <2>3
<1>12. ASSUME NEW r \in Requests, CountIn(r) PROVE Answered'
  BY <1>12 DEF CountIn, SyncStep
<1>13. ASSUME NEW r \in Requests, EnterRun(r) PROVE Answered'
  BY <1>13 DEF EnterRun, SyncStep
<1>14. ASSUME NEW r \in Requests, RunRefused(r) PROVE Answered'
  BY <1>14 DEF RunRefused, SyncStep
<1>15. ASSUME NEW r \in Requests, LeaveRun(r) PROVE Answered'
  BY <1>15 DEF LeaveRun, SyncStep
<1>16. ASSUME NEW r \in Requests, CountOut(r) PROVE Answered'
  BY <1>16 DEF CountOut, SyncStep
<1>17. ASSUME NEW r \in Requests, Complete(r) PROVE Answered'
  BY <1>17 DEF Complete
<1>18. ASSUME NEW r \in Requests, Transfer(r) PROVE Answered'
  BY <1>18 DEF Transfer
<1>19. ASSUME NEW r \in Requests, Continue(r) PROVE Answered'
  BY <1>19 DEF Continue
<1>20. ASSUME NEW c \in armed, Expire(c) PROVE Answered'
  BY <1>20 DEF Expire
<1>21. ASSUME NEW c \in expired, OnExpiry(c) PROVE Answered'
  BY <1>21 DEF OnExpiry, CancelSockets, Aborts
<1>22. ASSUME Stop PROVE Answered'
  BY <1>22 DEF Stop, StopPool, CancelSockets, Aborts, Refer, Referred
<1>23. ASSUME Destroy PROVE Answered'
  BY <1>23 DEF Destroy
<1>24. ASSUME CloseScope PROVE Answered'
  BY <1>24 DEF CloseScope, StopPool, CancelSockets, Aborts, Refer, Referred
<1>25. ASSUME NEW r \in Requests, HandlerStep(r) PROVE Answered'
  <2>1. CASE Succeed(r) \/ Fail(r)
    BY <2>1, <1>10 DEF Succeed, Fail
  <2> QED
    BY <1>25, <2>1, <1>3, <1>4, <1>5, <1>6, <1>7, <1>8, <1>9, <1>11,
       <1>11a
    DEF HandlerStep
<1>26. ASSUME NEW r \in Requests, SyncCall(r) PROVE Answered'
  BY <1>26, <1>12, <1>13, <1>14, <1>15, <1>16 DEF SyncCall
<1>27. CASE UNCHANGED vars
  BY <1>27 DEF vars
<1> QED
  BY <1>25, <1>26, <1>27, <1>1, <1>2, <1>17, <1>18, <1>19, <1>20, <1>21, <1>22, <1>23, <1>24
  DEF Next
-----------------------------------------------------------------------------
(* The theorems.                                                           *)

\* The initial states satisfy the invariant.
LEMMA InitInv == Init => IInv
<1> SUFFICES ASSUME Init PROVE IInv
  OBVIOUS
<1> USE DEF Init
<1>1. TypeOK
  <2>1. mode \in Modes /\ destroyer \in Requests \cup {App} /\ appPc \in AppPcs
    BY DEF AppPcs
  <2>2. count \in Nat \cup {-1} /\ syncCount \in Int
    OBVIOUS
  <2>3. stopped \in BOOLEAN
    OBVIOUS
  <2>4. /\ expected \in [Requests -> Nat \cup {-1}] /\ sent \in [Requests -> Nat]
        /\ answered \in [Requests -> Nat] /\ late \in [Requests -> BOOLEAN]
    OBVIOUS
  <2>5. /\ call \in [Requests -> CallPcs] /\ pc \in [Requests -> HandlerPcs]
        /\ op \in [Requests -> Operations \cup {"none"}] /\ net \in [Requests -> NetStates]
        /\ conn \in [Requests -> Connections \cup {NoConnection}]
    BY DEF CallPcs, HandlerPcs, NetStates
  <2>6. /\ pool \subseteq Connections /\ inUse \subseteq Connections
        /\ retryable \subseteq Connections /\ opened \subseteq Connections
        /\ armed \subseteq Connections /\ expired \subseteq Connections
        /\ lost \subseteq Connections
        /\ leaked \subseteq Connections /\ broken \subseteq Requests
    OBVIOUS
  <2> QED
    BY <2>1, <2>2, <2>3, <2>4, <2>5, <2>6 DEF TypeOK
<1>2. FlagsReferred /\ Exclusive /\ NoLeak
  BY DEF FlagsReferred, Referred, Exclusive, Idle, NoLeak
<1>3. Counter
  BY FS_EmptySet DEF Counter, Holders, InScope
<1>4. Sessions /\ RetriedOnce
  BY DEF Sessions, Session, RetriedOnce, Written
<1>5. SyncCalls
  BY FS_EmptySet DEF SyncCalls, Counted
<1>6. Answered
  BY DEF Answered
<1> QED
  BY <1>1, <1>2, <1>3, <1>4, <1>5, <1>6 DEF IInv

\* Every step keeps it.
LEMMA NextInv == IInv /\ [Next]_vars => IInv'
<1> SUFFICES ASSUME IInv /\ [Next]_vars PROVE IInv'
  OBVIOUS
<1>1. TypeOK' /\ FlagsReferred' /\ Exclusive'
  BY TypeStep, FlagsStep, ExclusiveStep
<1>2. NoLeak' /\ Counter' /\ Sessions'
  BY LeakStep, CounterStep, SessionStep
<1>3. RetriedOnce' /\ SyncCalls' /\ Answered'
  BY RetryStep, SyncStepKeeps, AnsweredStep
<1> QED
  BY <1>1, <1>2, <1>3 DEF IInv

\* The inductive invariant holds in every reachable state.
THEOREM InductiveInvariant == Spec => []IInv
  BY InitInv, NextInv, PTL DEF Spec

\* Types: no session, timer or pool entry refers to an object that does not
\* exist, and the scope's counter is never below -1.
THEOREM TypeCorrect == Spec => []TypeOK
<1>1. IInv => TypeOK
  BY DEF IInv
<1> QED
  BY <1>1, InductiveInvariant, PTL

\* The pool of connections, for any number of requests and connections: at most
\* one unused connection is kept, no two sessions share one, none leaks but the one
\* of a session whose handler threw.
THEOREM PoolSoundHolds == Spec => []PoolSound
<1>1. IInv => PoolSound
  BY DEF IInv, PoolSound, Exclusive, NoLeak
<1> QED
  BY <1>1, InductiveInvariant, PTL

\* A request's callback is called at most once, and never after its handler threw,
\* and it is written at most twice.
THEOREM AnsweredOnceHolds == Spec => []AnsweredOnce
<1>1. IInv => AnsweredOnce
  <2> SUFFICES ASSUME IInv, NEW r \in Requests
               PROVE  /\ answered[r] <= 1 /\ sent[r] <= 2
                      /\ answered[r] = 1 \/ r \in broken =>
                           conn[r] = NoConnection /\ op[r] = "none"
                      /\ r \in broken => answered[r] = 0
    BY DEF AnsweredOnce
  <2> QED
    BY DEF IInv, Sessions, Session, RetriedOnce, Written
<1> QED
  BY <1>1, InductiveInvariant, PTL

\* A synchronous call returns with the outcome of its request, unless it was
\* counted in too late for the reset of the io_service or its handler threw.
THEOREM SyncAnsweredHolds == Spec => []SyncAnswered
<1>1. IInv => SyncAnswered
  BY DEF IInv, SyncAnswered, SyncCalls, CallAnswered
<1> QED
  BY <1>1, InductiveInvariant, PTL

\* An action of the client that changes nothing the scope is about.
LEMMA ScopeSame ==
    ASSUME Holders' = Holders, (count < 0)' = (count < 0)
    PROVE  UNCHANGED Scope!vars
  BY DEF Scope!vars
\* Every step of the client is a step of the abstract lock, or none of it.
LEMMA ScopeStep == IInv /\ [Next]_vars => [Scope!Next]_(Scope!vars)
<1> SUFFICES ASSUME TypeOK, Counter, [Next]_vars
             PROVE  [Scope!Next]_(Scope!vars)
  BY DEF IInv
<1> USE DEF poolVars, timerVars, opVars, scopeVars, appVars, syncVars, throwVars
<1>1. ASSUME NEW r \in Requests, GetConnection(r) PROVE [Scope!Next]_(Scope!vars)
  <2>1. Holders' = Holders /\ count' = count
    BY <1>1 DEF GetConnection, Holders, InScope, TypeOK
  <2> QED
    BY <2>1, ScopeSame
<1>2. ASSUME NEW r \in Requests, Begin(r) PROVE [Scope!Next]_(Scope!vars)
  <2>1. Holders' = Holders /\ count' = count
    BY <1>2 DEF Begin, Connect, StartOp, Holders, InScope, TypeOK
  <2> QED
    BY <2>1, ScopeSame
<1>3. ASSUME NEW r \in Requests, Dispatch(r) PROVE [Scope!Next]_(Scope!vars)
  <2>1. Holders' = Holders /\ count' = count
    BY <1>3 DEF Dispatch, Holders, InScope, TypeOK
  <2> QED
    BY <2>1, ScopeSame
<1>4. ASSUME NEW r \in Requests, EnterScope(r) PROVE [Scope!Next]_(Scope!vars)
  <2>1. r \notin Holders /\ Holders' = Holders \cup {r}
    BY <1>4 DEF EnterScope, Holders, InScope, TypeOK
  <2>2. ~(count < 0) /\ (count < 0)' = (count < 0)
    BY <1>4 DEF EnterScope, TypeOK
  <2>3. Scope!Enter(r)
    BY <2>1, <2>2 DEF Scope!Enter
  <2> QED
    BY <2>3 DEF Scope!Next
<1>5. ASSUME NEW r \in Requests, Reload(r) PROVE [Scope!Next]_(Scope!vars)
  <2>1. Holders' = Holders /\ count' = count
    BY <1>5 DEF Reload, Holders, InScope, TypeOK
  <2> QED
    BY <2>1, ScopeSame
<1>6. ASSUME NEW r \in Requests, TurnedAway(r) PROVE [Scope!Next]_(Scope!vars)
  <2>1. Holders' = Holders /\ count' = count
    BY <1>6 DEF TurnedAway, SessionOver, Without, Refer, Referred, Holders, InScope, TypeOK
  <2> QED
    BY <2>1, ScopeSame
<1>7. ASSUME NEW r \in Requests, Advance(r) PROVE [Scope!Next]_(Scope!vars)
  <2>1. r \in Holders /\ Holders' = Holders \ {r}
    BY <1>7 DEF Advance, Holders, InScope, TypeOK
  <2>2. (count < 0)' = (count < 0)
    BY <1>7, InScopeCounts DEF Advance, InScope
  <2>3. Scope!Exit(r)
    BY <2>1, <2>2 DEF Scope!Exit
  <2> QED
    BY <2>3 DEF Scope!Next
<1>8. ASSUME NEW r \in Requests, Retry(r) PROVE [Scope!Next]_(Scope!vars)
  <2>1. Holders' = Holders /\ count' = count
    BY <1>8 DEF Retry, Refer, Referred, Holders, InScope, TypeOK
  <2> QED
    BY <2>1, ScopeSame
<1>9. ASSUME NEW r \in Requests, Reconnect(r) PROVE [Scope!Next]_(Scope!vars)
  <2>1. r \in Holders /\ Holders' = Holders \ {r}
    BY <1>9 DEF Reconnect, Holders, InScope, TypeOK
  <2>2. (count < 0)' = (count < 0)
    BY <1>9, InScopeCounts DEF Reconnect, InScope
  <2>3. Scope!Exit(r)
    BY <2>1, <2>2 DEF Scope!Exit
  <2> QED
    BY <2>3 DEF Scope!Next
<1>10. ASSUME NEW r \in Requests, NEW failed \in BOOLEAN, EndSession(r, failed)
      PROVE  [Scope!Next]_(Scope!vars)
  <2>1. Holders' = Holders /\ count' = count
    BY <1>10 DEF EndSession, SessionOver, Without, Refer, Referred, Holders, InScope, TypeOK
  <2> QED
    BY <2>1, ScopeSame
<1>11. ASSUME NEW r \in Requests, RunCallback(r) PROVE [Scope!Next]_(Scope!vars)
  <2>1. CASE pc'[r] = "idle"
    <3>1. r \in Holders /\ Holders' = Holders \ {r}
      BY <1>11, <2>1 DEF RunCallback, Holders, InScope, TypeOK
    <3>2. (count < 0)' = (count < 0)
      BY <1>11, <2>1, InScopeCounts DEF RunCallback, InScope, TypeOK
    <3>3. Scope!Exit(r)
      BY <3>1, <3>2 DEF Scope!Exit
    <3> QED
      BY <3>3 DEF Scope!Next
  <2>2. CASE pc'[r] # "idle"
    <3>1. Holders' = Holders /\ count' = count
      BY <1>11, <2>2 DEF RunCallback, Holders, InScope, TypeOK
    <3> QED
      BY <3>1, ScopeSame
  <2> QED
    BY <2>1, <2>2
<1>11a. ASSUME NEW r \in Requests, Throw(r) PROVE [Scope!Next]_(Scope!vars)
  <2>1. r \in Holders /\ Holders' = Holders \ {r}
    BY <1>11a DEF Throw, Holders, InScope, TypeOK
  <2>2. (count < 0)' = (count < 0)
    BY <1>11a, InScopeCounts DEF Throw, InScope
  <2>3. Scope!Exit(r)
    BY <2>1, <2>2 DEF Scope!Exit
  <2> QED
    BY <2>3 DEF Scope!Next
<1>12. ASSUME NEW r \in Requests, CountIn(r) PROVE [Scope!Next]_(Scope!vars)
  <2>1. Holders' = Holders /\ count' = count
    BY <1>12 DEF CountIn, SyncStep, Holders, InScope, TypeOK
  <2> QED
    BY <2>1, ScopeSame
<1>13. ASSUME NEW r \in Requests, EnterRun(r) PROVE [Scope!Next]_(Scope!vars)
  <2>1. Holders' = Holders /\ count' = count
    BY <1>13 DEF EnterRun, SyncStep, Holders, InScope, TypeOK
  <2> QED
    BY <2>1, ScopeSame
<1>14. ASSUME NEW r \in Requests, RunRefused(r) PROVE [Scope!Next]_(Scope!vars)
  <2>1. Holders' = Holders /\ count' = count
    BY <1>14 DEF RunRefused, SyncStep, Holders, InScope, TypeOK
  <2> QED
    BY <2>1, ScopeSame
<1>15. ASSUME NEW r \in Requests, LeaveRun(r) PROVE [Scope!Next]_(Scope!vars)
  <2>1. Holders' = Holders /\ count' = count
    BY <1>15 DEF LeaveRun, SyncStep, Holders, InScope, TypeOK
  <2> QED
    BY <2>1, ScopeSame
<1>16. ASSUME NEW r \in Requests, CountOut(r) PROVE [Scope!Next]_(Scope!vars)
  <2>1. Holders' = Holders /\ count' = count
    BY <1>16 DEF CountOut, SyncStep, Holders, InScope, TypeOK
  <2> QED
    BY <2>1, ScopeSame
<1>17. ASSUME NEW r \in Requests, Complete(r) PROVE [Scope!Next]_(Scope!vars)
  <2>1. Holders' = Holders /\ count' = count
    BY <1>17 DEF Complete, Holders, InScope, TypeOK
  <2> QED
    BY <2>1, ScopeSame
<1>18. ASSUME NEW r \in Requests, Transfer(r) PROVE [Scope!Next]_(Scope!vars)
  <2>1. Holders' = Holders /\ count' = count
    BY <1>18 DEF Transfer, Holders, InScope, TypeOK
  <2> QED
    BY <2>1, ScopeSame
<1>19. ASSUME NEW r \in Requests, Continue(r) PROVE [Scope!Next]_(Scope!vars)
  <2>1. Holders' = Holders /\ count' = count
    BY <1>19 DEF Continue, Holders, InScope, TypeOK
  <2> QED
    BY <2>1, ScopeSame
<1>20. ASSUME NEW c \in armed, Expire(c) PROVE [Scope!Next]_(Scope!vars)
  <2>1. Holders' = Holders /\ count' = count
    BY <1>20 DEF Expire, Holders, InScope, TypeOK
  <2> QED
    BY <2>1, ScopeSame
<1>21. ASSUME NEW c \in expired, OnExpiry(c) PROVE [Scope!Next]_(Scope!vars)
  <2>1. Holders' = Holders /\ count' = count
    BY <1>21 DEF OnExpiry, CancelSockets, Aborts, Holders, InScope, TypeOK
  <2> QED
    BY <2>1, ScopeSame
<1>22. ASSUME Stop PROVE [Scope!Next]_(Scope!vars)
  <2>1. Holders' = Holders /\ count' = count
    BY <1>22 DEF Stop, StopPool, CancelSockets, Aborts, Refer, Referred, Holders, InScope, TypeOK
  <2> QED
    BY <2>1, ScopeSame
<1>23. ASSUME Destroy PROVE [Scope!Next]_(Scope!vars)
  <2>1. Holders' = Holders /\ count' = count
    BY <1>23 DEF Destroy, Holders, InScope, TypeOK
  <2> QED
    BY <2>1, ScopeSame
<1>24. ASSUME CloseScope PROVE [Scope!Next]_(Scope!vars)
  <2>1. Holders' = Holders /\ Holders = {}
    BY <1>24, HoldersFinite, FS_EmptySet DEF CloseScope, Holders, InScope, Counter
  <2>2. ~(count < 0) /\ (count < 0)'
    BY <1>24 DEF CloseScope
  <2>3. Scope!Close
    BY <2>1, <2>2 DEF Scope!Close
  <2> QED
    BY <2>3 DEF Scope!Next
<1>25. ASSUME NEW r \in Requests, HandlerStep(r) PROVE [Scope!Next]_(Scope!vars)
  <2>1. CASE Succeed(r) \/ Fail(r)
    BY <2>1, <1>10 DEF Succeed, Fail
  <2> QED
    BY <1>25, <2>1, <1>3, <1>4, <1>5, <1>6, <1>7, <1>8, <1>9, <1>11,
       <1>11a
    DEF HandlerStep
<1>26. ASSUME NEW r \in Requests, SyncCall(r) PROVE [Scope!Next]_(Scope!vars)
  BY <1>26, <1>12, <1>13, <1>14, <1>15, <1>16 DEF SyncCall
<1>27. CASE UNCHANGED vars
  BY <1>27 DEF vars, Holders, InScope, Scope!vars
<1> QED
  BY <1>25, <1>26, <1>27, <1>1, <1>2, <1>17, <1>18, <1>19, <1>20, <1>21, <1>22, <1>23, <1>24
  DEF Next

\* ScopeRunner implements the abstract lock: the destructor gets past its stop()
\* when no handler is in the scope, and none enters afterwards.
THEOREM ImplementsScopeLock == Spec => ScopeSpec
<1>1. Init => Scope!Init
  BY DEF Init, Scope!Init, Holders, InScope
<1>2. IInv /\ [Next]_vars => [Scope!Next]_(Scope!vars)
  BY ScopeStep
<1> QED
  BY <1>1, <1>2, InductiveInvariant, PTL DEF Spec, ScopeSpec, Scope!Spec
=============================================================================
