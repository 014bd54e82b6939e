------------------------ MODULE SessionManagerProofs ------------------------
(***************************************************************************)
(* Proofs about SessionManager, for any number of requests, sessions, ids  *)
(* and restarts.                                                           *)
(*                                                                         *)
(* RegisteredByItsId is inductive together with three facts: a session's   *)
(* mutex is held between steps only by the request that is in set_id with  *)
(* it; what is in use or registered has an id; and nobody but the check    *)
(* changes the map while the check runs, so that the entries it has still  *)
(* to visit stay where they are.                                           *)
(*                                                                         *)
(* SavedUnlessShared needs to know besides whose file is whose (ids are    *)
(* never given twice, and a file or a text of another id is that of a      *)
(* session two requests used) and how far the only request of a session is *)
(* with saving it, which depends on the flags that set_data and set_id     *)
(* raise.                                                                  *)
(***************************************************************************)
EXTENDS SessionManager, TLAPS

\* The mutex of a session is held exactly by a request in set_id.
Held ==
    /\ \A s \in Sessions : mutex[s] # Nobody => pc[mutex[s]] = "replace" /\ ses[mutex[s]] = s
    /\ \A w \in Workers : pc[w] = "replace" => ses[w] \in Sessions /\ mutex[ses[w]] = w

\* A session that is used or registered has an id, and so has what a request
\* is about to write.
Named ==
    /\ \A w \in Workers : ses[w] \in Sessions => uuid[ses[w]] \in Ids
    /\ \A i \in Ids : map[i] \in Sessions => uuid[map[i]] \in Ids
    /\ \A w \in Workers : pc[w] \in {"open", "write"} => text[w] \in Texts

\* The check holds the manager's mutex while it runs, and has not yet visited
\* the entry it is removing.
Checked ==
    /\ timerPc = "idle" => visit = {}
    /\ timerPc # "idle" => mapMutex = Timer
    /\ timerPc = "remove" => entry \in Ids \ visit /\ map[entry] \in Sessions

\* What session::serialize returns for s.
Record(s) == [id |-> uuid[s], data |-> data[s]]

\* If s is registered, it is in its file as it is in memory.
Saved(s) == uuid[s] \in Ids /\ map[uuid[s]] = s => file[uuid[s]] = Record(s)

\* A request has a session from its first step to its last; every id comes from
\* those given, and no two sessions have the same.
Assigned ==
    /\ \A w \in Workers : pc[w] = "idle" <=> ses[w] = NoSession
    /\ \A s \in Sessions : uuid[s] \in usedIds \cup {NoId}
    /\ \A s, t \in Sessions : uuid[s] = uuid[t] /\ uuid[s] # NoId => s = t
    /\ \A f \in Ids : file[f] \in Texts => file[f].id \in usedIds
    /\ \A w \in Workers : text[w] \in Texts => text[w].id \in usedIds

\* The id of a session that two requests use is shared.
TwoUsers ==
    \A v, w \in Workers :
      v # w /\ ses[v] = ses[w] /\ ses[v] \in Sessions => uuid[ses[v]] \in shared

\* A file, a file open for writing and a text to be written are those of the
\* session's id, unless set_id gave it another while two requests used it.
FilesOwned ==
    /\ \A f \in Ids : file[f] \in Texts => file[f].id = f \/ file[f].id \in shared
    /\ \A w \in Workers : out[w] # NoId =>
         /\ pc[w] = "write"
         /\ out[w] = uuid[ses[w]] \/ {out[w], uuid[ses[w]]} \subseteq shared
    /\ \A w \in Workers : pc[w] \in {"open", "write"} =>
         text[w].id = uuid[ses[w]] \/ {text[w].id, uuid[ses[w]]} \subseteq shared

\* How far request w is with saving its session s: the file is right, or the
\* flags of s make the request write it, or it is about to.
Saving(w, s) ==
    /\ pc[w] \in {"validate", "expel", "clearData", "clearId"} => Saved(s)
    /\ pc[w] = "run" => Saved(s) \/ dataUpdate[s] \/ idUpdate[s]
    /\ pc[w] = "replace" => idUpdate[s]
    /\ pc[w] \in {"open", "write"} => text[w] = Record(s)
    /\ pc[w] = "write" => IF out[w] = NoId THEN map[uuid[s]] # s
                                           ELSE file[out[w]] = Torn

\* A session with an id that is not shared is saved, or its request saves it.
SavedOrSaving ==
    \A s \in Sessions : uuid[s] \in Ids \ shared =>
      /\ ~InUse(s) => Saved(s)
      /\ \A w \in Workers : ses[w] = s => Saving(w, s)

IInv ==
    /\ TypeOK /\ Held /\ Named /\ Checked /\ RegisteredByItsId
    /\ Assigned /\ TwoUsers /\ FilesOwned /\ SavedOrSaving

-----------------------------------------------------------------------------
USE BoundsAssumption, DistinctAssumption
    DEF managerVars, objectVars, workerVars, timerVars, history, Pcs, Texts, Timer, NoId

\* Types.
LEMMA TypeStep == TypeOK /\ Held /\ Named /\ Checked /\ [Next]_vars => TypeOK'
<1> SUFFICES ASSUME TypeOK /\ Held /\ Named /\ Checked, [Next]_vars PROVE TypeOK'
  OBVIOUS
<1> USE DEF TypeOK, Held, Named, Checked, Registered
<1>1. ASSUME NEW w \in Workers, NEW s \in Sessions, NEW i \in Ids, CreateSession(w, s, i) PROVE TypeOK'
  BY <1>1 DEF CreateSession, Goto, Unreferenced, InUse
<1>2. ASSUME NEW w \in Workers, NEW i \in Ids, GetSession(w, i) PROVE TypeOK'
  BY <1>2 DEF GetSession, Goto, InUse
<1>3. ASSUME NEW w \in Workers, NEW s \in Sessions, Validate(w, s) PROVE TypeOK'
  BY <1>3 DEF Validate, Goto, Mine
<1>4. ASSUME NEW w \in Workers, Expel(w) PROVE TypeOK'
  BY <1>4 DEF Expel, Goto, RemoveSession, RemoveFile, Forget
<1>5. ASSUME NEW w \in Workers, NEW s \in Sessions, SetData(w, s) PROVE TypeOK'
  BY <1>5 DEF SetData, Mine
<1>6. ASSUME NEW w \in Workers, NEW s \in Sessions, SetExpires(w, s) PROVE TypeOK'
  BY <1>6 DEF SetExpires, Mine
<1>7. ASSUME NEW w \in Workers, NEW s \in Sessions, NEW i \in Ids, SetId(w, s, i) PROVE TypeOK'
  BY <1>7 DEF SetId, Goto, Mine
<1>8. ASSUME NEW w \in Workers, ReplaceSession(w) PROVE TypeOK'
  BY <1>8 DEF ReplaceSession, Goto, RemoveFile
<1>9. ASSUME NEW w \in Workers, NEW s \in Sessions, Respond(w, s) PROVE TypeOK'
  BY <1>9 DEF Respond, Goto, Mine
<1>10. ASSUME NEW w \in Workers, NEW s \in Sessions, Serialize(w, s) PROVE TypeOK'
  BY <1>10 DEF Serialize, Goto, Mine
<1>11. ASSUME NEW w \in Workers, NEW s \in Sessions, OpenFile(w, s) PROVE TypeOK'
  BY <1>11 DEF OpenFile, Goto, Mine
<1>12. ASSUME NEW w \in Workers, WriteFile(w) PROVE TypeOK'
  BY <1>12 DEF WriteFile, Goto
<1>13. ASSUME NEW w \in Workers, NEW s \in Sessions, ClearDataUpdate(w, s) PROVE TypeOK'
  BY <1>13 DEF ClearDataUpdate, Goto, Mine
<1>14. ASSUME NEW w \in Workers, NEW s \in Sessions, ClearIdUpdate(w, s) PROVE TypeOK'
  BY <1>14 DEF ClearIdUpdate, Goto, Mine, Forget
<1>15. ASSUME CheckExpires PROVE TypeOK'
  BY <1>15 DEF CheckExpires, Registered
<1>16. ASSUME NEW i \in Ids, Visit(i) PROVE TypeOK'
  BY <1>16 DEF Visit
<1>17. ASSUME RemoveExpired PROVE TypeOK'
  BY <1>17 DEF RemoveExpired, RemoveFile
<1>18. ASSUME EndCheck PROVE TypeOK'
  BY <1>18 DEF EndCheck
<1>19. ASSUME NEW s \in Sessions, TimePasses(s) PROVE TypeOK'
  BY <1>19 DEF TimePasses
<1>20. ASSUME NEW alloc \in [SavedIds -> Sessions], NEW from \in [SavedIds -> Ids], Restart(alloc, from) PROVE TypeOK'
  <2> DEFINE Loaded(s) == \E i \in SavedIds : alloc[i] = s
             IdOf(s) == CHOOSE i \in SavedIds : alloc[i] = s
  <2>1. \A i \in SavedIds : i \in Ids /\ from[i] \in Ids /\ file[from[i]] \in Texts
    BY <1>20 DEF Restart
  <2>2. \A s \in Sessions : Loaded(s) => IdOf(s) \in SavedIds /\ alloc[IdOf(s)] = s
    OBVIOUS
  <2>3. uuid' \in [Sessions -> Ids \cup {NoId}]
    <3>1. uuid' = [s \in Sessions |-> IF Loaded(s) THEN IdOf(s) ELSE NoId]
      BY <1>20 DEF Restart
    <3> HIDE DEF Loaded, IdOf
    <3> QED
      BY <2>1, <2>2, <3>1
  <2>4. data' \in [Sessions -> 0 .. MaxData]
    <3>1. data' = [s \in Sessions |-> IF Loaded(s) THEN file[from[IdOf(s)]].data ELSE 0]
      BY <1>20 DEF Restart
    <3>2. \A s \in Sessions : Loaded(s) => file[from[IdOf(s)]].data \in 0 .. MaxData
      <4> HIDE DEF Loaded, IdOf
      <4> QED
        BY <2>1, <2>2
    <3> HIDE DEF Loaded, IdOf
    <3> QED
      BY <3>1, <3>2
  <2>5. map' \in [Ids -> Sessions \cup {NoSession}]
    BY <1>20 DEF Restart
  <2>6. stale' \in [Sessions -> BOOLEAN]
    BY <1>20 DEF Restart
  <2> QED
    BY <1>20, <2>3, <2>4, <2>5, <2>6 DEF Restart
<1>21. CASE UNCHANGED vars
  BY <1>21 DEF vars
<1> QED
  BY <1>1, <1>2, <1>3, <1>4, <1>5, <1>6, <1>7, <1>8, <1>9, <1>10,
     <1>11, <1>12, <1>13, <1>14, <1>15, <1>16, <1>17, <1>18, <1>19, <1>20,
     <1>21
     DEF Next, Request, Proceed, Check

\* Who holds the mutex of a session.
LEMMA HeldStep == TypeOK /\ Held /\ [Next]_vars => Held'
<1> SUFFICES ASSUME TypeOK /\ Held, [Next]_vars PROVE Held'
  OBVIOUS
<1> USE DEF TypeOK, Held
<1>1. ASSUME NEW w \in Workers, NEW s \in Sessions, NEW i \in Ids, CreateSession(w, s, i) PROVE Held'
  BY <1>1 DEF CreateSession, Goto, Unreferenced, InUse
<1>2. ASSUME NEW w \in Workers, NEW i \in Ids, GetSession(w, i) PROVE Held'
  BY <1>2 DEF GetSession, Goto, InUse
<1>3. ASSUME NEW w \in Workers, NEW s \in Sessions, Validate(w, s) PROVE Held'
  BY <1>3 DEF Validate, Goto, Mine
<1>4. ASSUME NEW w \in Workers, Expel(w) PROVE Held'
  BY <1>4 DEF Expel, Goto, RemoveSession, RemoveFile, Forget
<1>5. ASSUME NEW w \in Workers, NEW s \in Sessions, SetData(w, s) PROVE Held'
  BY <1>5 DEF SetData, Mine
<1>6. ASSUME NEW w \in Workers, NEW s \in Sessions, SetExpires(w, s) PROVE Held'
  BY <1>6 DEF SetExpires, Mine
<1>7. ASSUME NEW w \in Workers, NEW s \in Sessions, NEW i \in Ids, SetId(w, s, i) PROVE Held'
  BY <1>7 DEF SetId, Goto, Mine
<1>8. ASSUME NEW w \in Workers, ReplaceSession(w) PROVE Held'
  BY <1>8 DEF ReplaceSession, Goto, RemoveFile
<1>9. ASSUME NEW w \in Workers, NEW s \in Sessions, Respond(w, s) PROVE Held'
  BY <1>9 DEF Respond, Goto, Mine
<1>10. ASSUME NEW w \in Workers, NEW s \in Sessions, Serialize(w, s) PROVE Held'
  BY <1>10 DEF Serialize, Goto, Mine
<1>11. ASSUME NEW w \in Workers, NEW s \in Sessions, OpenFile(w, s) PROVE Held'
  BY <1>11 DEF OpenFile, Goto, Mine
<1>12. ASSUME NEW w \in Workers, WriteFile(w) PROVE Held'
  BY <1>12 DEF WriteFile, Goto
<1>13. ASSUME NEW w \in Workers, NEW s \in Sessions, ClearDataUpdate(w, s) PROVE Held'
  BY <1>13 DEF ClearDataUpdate, Goto, Mine
<1>14. ASSUME NEW w \in Workers, NEW s \in Sessions, ClearIdUpdate(w, s) PROVE Held'
  BY <1>14 DEF ClearIdUpdate, Goto, Mine, Forget
<1>15. ASSUME CheckExpires PROVE Held'
  BY <1>15 DEF CheckExpires, Registered
<1>16. ASSUME NEW i \in Ids, Visit(i) PROVE Held'
  BY <1>16 DEF Visit
<1>17. ASSUME RemoveExpired PROVE Held'
  BY <1>17 DEF RemoveExpired, RemoveFile
<1>18. ASSUME EndCheck PROVE Held'
  BY <1>18 DEF EndCheck
<1>19. ASSUME NEW s \in Sessions, TimePasses(s) PROVE Held'
  BY <1>19 DEF TimePasses
<1>20. ASSUME NEW alloc \in [SavedIds -> Sessions], NEW from \in [SavedIds -> Ids], Restart(alloc, from) PROVE Held'
  BY <1>20 DEF Restart, SavedIds, IsInjective
<1>21. CASE UNCHANGED vars
  BY <1>21 DEF vars
<1> QED
  BY <1>1, <1>2, <1>3, <1>4, <1>5, <1>6, <1>7, <1>8, <1>9, <1>10,
     <1>11, <1>12, <1>13, <1>14, <1>15, <1>16, <1>17, <1>18, <1>19, <1>20,
     <1>21
     DEF Next, Request, Proceed, Check

\* What has an id.
LEMMA NamedStep == TypeOK /\ Held /\ Named /\ [Next]_vars => Named'
<1> SUFFICES ASSUME TypeOK /\ Held /\ Named, [Next]_vars PROVE Named'
  OBVIOUS
<1> USE DEF TypeOK, Held, Named
<1>1. ASSUME NEW w \in Workers, NEW s \in Sessions, NEW i \in Ids, CreateSession(w, s, i) PROVE Named'
  BY <1>1 DEF CreateSession, Goto, Unreferenced, InUse
<1>2. ASSUME NEW w \in Workers, NEW i \in Ids, GetSession(w, i) PROVE Named'
  BY <1>2 DEF GetSession, Goto, InUse
<1>3. ASSUME NEW w \in Workers, NEW s \in Sessions, Validate(w, s) PROVE Named'
  BY <1>3 DEF Validate, Goto, Mine
<1>4. ASSUME NEW w \in Workers, Expel(w) PROVE Named'
  BY <1>4 DEF Expel, Goto, RemoveSession, RemoveFile, Forget
<1>5. ASSUME NEW w \in Workers, NEW s \in Sessions, SetData(w, s) PROVE Named'
  BY <1>5 DEF SetData, Mine
<1>6. ASSUME NEW w \in Workers, NEW s \in Sessions, SetExpires(w, s) PROVE Named'
  BY <1>6 DEF SetExpires, Mine
<1>7. ASSUME NEW w \in Workers, NEW s \in Sessions, NEW i \in Ids, SetId(w, s, i) PROVE Named'
  BY <1>7 DEF SetId, Goto, Mine
<1>8. ASSUME NEW w \in Workers, ReplaceSession(w) PROVE Named'
  BY <1>8 DEF ReplaceSession, Goto, RemoveFile
<1>9. ASSUME NEW w \in Workers, NEW s \in Sessions, Respond(w, s) PROVE Named'
  BY <1>9 DEF Respond, Goto, Mine
<1>10. ASSUME NEW w \in Workers, NEW s \in Sessions, Serialize(w, s) PROVE Named'
  BY <1>10 DEF Serialize, Goto, Mine
<1>11. ASSUME NEW w \in Workers, NEW s \in Sessions, OpenFile(w, s) PROVE Named'
  BY <1>11 DEF OpenFile, Goto, Mine
<1>12. ASSUME NEW w \in Workers, WriteFile(w) PROVE Named'
  BY <1>12 DEF WriteFile, Goto
<1>13. ASSUME NEW w \in Workers, NEW s \in Sessions, ClearDataUpdate(w, s) PROVE Named'
  BY <1>13 DEF ClearDataUpdate, Goto, Mine
<1>14. ASSUME NEW w \in Workers, NEW s \in Sessions, ClearIdUpdate(w, s) PROVE Named'
  BY <1>14 DEF ClearIdUpdate, Goto, Mine, Forget
<1>15. ASSUME CheckExpires PROVE Named'
  BY <1>15 DEF CheckExpires, Registered
<1>16. ASSUME NEW i \in Ids, Visit(i) PROVE Named'
  BY <1>16 DEF Visit
<1>17. ASSUME RemoveExpired PROVE Named'
  BY <1>17 DEF RemoveExpired, RemoveFile
<1>18. ASSUME EndCheck PROVE Named'
  BY <1>18 DEF EndCheck
<1>19. ASSUME NEW s \in Sessions, TimePasses(s) PROVE Named'
  BY <1>19 DEF TimePasses
<1>20. ASSUME NEW alloc \in [SavedIds -> Sessions], NEW from \in [SavedIds -> Ids], Restart(alloc, from) PROVE Named'
  <2> DEFINE Loaded(s) == \E i \in SavedIds : alloc[i] = s
             IdOf(s) == CHOOSE i \in SavedIds : alloc[i] = s
  <2>1. \A i \in SavedIds : i \in Ids /\ from[i] \in Ids /\ file[from[i]] \in Texts
    BY <1>20 DEF Restart
  <2>2. \A s \in Sessions : Loaded(s) => IdOf(s) \in SavedIds /\ alloc[IdOf(s)] = s
    OBVIOUS
  <2>3. \A i \in Ids : map'[i] \in Sessions => i \in SavedIds /\ map'[i] = alloc[i]
    BY <1>20 DEF Restart
  <2>4. \A s \in Sessions : Loaded(s) => uuid'[s] = IdOf(s)
    BY <1>20 DEF Restart
  <2>5. \A i \in Ids : map'[i] \in Sessions => uuid'[map'[i]] \in Ids
    <3> SUFFICES ASSUME NEW i \in Ids, map'[i] \in Sessions
                 PROVE uuid'[map'[i]] \in Ids
      OBVIOUS
    <3>1. Loaded(map'[i])
      BY <2>3
    <3> HIDE DEF Loaded, IdOf
    <3> QED
      BY <2>1, <2>2, <2>4, <3>1
  <2> QED
    BY <1>20, <2>5 DEF Restart
<1>21. CASE UNCHANGED vars
  BY <1>21 DEF vars
<1> QED
  BY ZenonT(60), <1>1, <1>2, <1>3, <1>4, <1>5, <1>6, <1>7, <1>8, <1>9, <1>10,
     <1>11, <1>12, <1>13, <1>14, <1>15, <1>16, <1>17, <1>18, <1>19, <1>20,
     <1>21
     DEF Next, Request, Proceed, Check

\* The check of expired sessions.
LEMMA CheckedStep == TypeOK /\ Checked /\ [Next]_vars => Checked'
<1> SUFFICES ASSUME TypeOK /\ Checked, [Next]_vars PROVE Checked'
  OBVIOUS
<1> USE DEF TypeOK, Checked, Registered
<1>1. ASSUME NEW w \in Workers, NEW s \in Sessions, NEW i \in Ids, CreateSession(w, s, i) PROVE Checked'
  BY <1>1 DEF CreateSession, Goto, Unreferenced, InUse
<1>2. ASSUME NEW w \in Workers, NEW i \in Ids, GetSession(w, i) PROVE Checked'
  BY <1>2 DEF GetSession, Goto, InUse
<1>3. ASSUME NEW w \in Workers, NEW s \in Sessions, Validate(w, s) PROVE Checked'
  BY <1>3 DEF Validate, Goto, Mine
<1>4. ASSUME NEW w \in Workers, Expel(w) PROVE Checked'
  BY <1>4 DEF Expel, Goto, RemoveSession, RemoveFile, Forget
<1>5. ASSUME NEW w \in Workers, NEW s \in Sessions, SetData(w, s) PROVE Checked'
  BY <1>5 DEF SetData, Mine
<1>6. ASSUME NEW w \in Workers, NEW s \in Sessions, SetExpires(w, s) PROVE Checked'
  BY <1>6 DEF SetExpires, Mine
<1>7. ASSUME NEW w \in Workers, NEW s \in Sessions, NEW i \in Ids, SetId(w, s, i) PROVE Checked'
  BY <1>7 DEF SetId, Goto, Mine
<1>8. ASSUME NEW w \in Workers, ReplaceSession(w) PROVE Checked'
  BY <1>8 DEF ReplaceSession, Goto, RemoveFile
<1>9. ASSUME NEW w \in Workers, NEW s \in Sessions, Respond(w, s) PROVE Checked'
  BY <1>9 DEF Respond, Goto, Mine
<1>10. ASSUME NEW w \in Workers, NEW s \in Sessions, Serialize(w, s) PROVE Checked'
  BY <1>10 DEF Serialize, Goto, Mine
<1>11. ASSUME NEW w \in Workers, NEW s \in Sessions, OpenFile(w, s) PROVE Checked'
  BY <1>11 DEF OpenFile, Goto, Mine
<1>12. ASSUME NEW w \in Workers, WriteFile(w) PROVE Checked'
  BY <1>12 DEF WriteFile, Goto
<1>13. ASSUME NEW w \in Workers, NEW s \in Sessions, ClearDataUpdate(w, s) PROVE Checked'
  BY <1>13 DEF ClearDataUpdate, Goto, Mine
<1>14. ASSUME NEW w \in Workers, NEW s \in Sessions, ClearIdUpdate(w, s) PROVE Checked'
  BY <1>14 DEF ClearIdUpdate, Goto, Mine, Forget
<1>15. ASSUME CheckExpires PROVE Checked'
  BY <1>15 DEF CheckExpires, Registered
<1>16. ASSUME NEW i \in Ids, Visit(i) PROVE Checked'
  BY <1>16 DEF Visit
<1>17. ASSUME RemoveExpired PROVE Checked'
  BY <1>17 DEF RemoveExpired, RemoveFile
<1>18. ASSUME EndCheck PROVE Checked'
  BY <1>18 DEF EndCheck
<1>19. ASSUME NEW s \in Sessions, TimePasses(s) PROVE Checked'
  BY <1>19 DEF TimePasses
<1>20. ASSUME NEW alloc \in [SavedIds -> Sessions], NEW from \in [SavedIds -> Ids], Restart(alloc, from) PROVE Checked'
  BY <1>20 DEF Restart, SavedIds, IsInjective
<1>21. CASE UNCHANGED vars
  BY <1>21 DEF vars
<1> QED
  BY <1>1, <1>2, <1>3, <1>4, <1>5, <1>6, <1>7, <1>8, <1>9, <1>10,
     <1>11, <1>12, <1>13, <1>14, <1>15, <1>16, <1>17, <1>18, <1>19, <1>20,
     <1>21
     DEF Next, Request, Proceed, Check

\* The map agrees with the ids.
LEMMA RegisteredStep == TypeOK /\ Held /\ Named /\ RegisteredByItsId /\ [Next]_vars => RegisteredByItsId'
<1> SUFFICES ASSUME TypeOK /\ Held /\ Named /\ RegisteredByItsId, [Next]_vars PROVE RegisteredByItsId'
  OBVIOUS
<1> USE DEF TypeOK, Held, Named, RegisteredByItsId, Registered, Key
<1>1. ASSUME NEW w \in Workers, NEW s \in Sessions, NEW i \in Ids, CreateSession(w, s, i) PROVE RegisteredByItsId'
  BY <1>1 DEF CreateSession, Goto, Unreferenced, InUse
<1>2. ASSUME NEW w \in Workers, NEW i \in Ids, GetSession(w, i) PROVE RegisteredByItsId'
  BY <1>2 DEF GetSession, Goto, InUse
<1>3. ASSUME NEW w \in Workers, NEW s \in Sessions, Validate(w, s) PROVE RegisteredByItsId'
  BY <1>3 DEF Validate, Goto, Mine
<1>4. ASSUME NEW w \in Workers, Expel(w) PROVE RegisteredByItsId'
  BY <1>4 DEF Expel, Goto, RemoveSession, RemoveFile, Forget
<1>5. ASSUME NEW w \in Workers, NEW s \in Sessions, SetData(w, s) PROVE RegisteredByItsId'
  BY <1>5 DEF SetData, Mine
<1>6. ASSUME NEW w \in Workers, NEW s \in Sessions, SetExpires(w, s) PROVE RegisteredByItsId'
  BY <1>6 DEF SetExpires, Mine
<1>7. ASSUME NEW w \in Workers, NEW s \in Sessions, NEW i \in Ids, SetId(w, s, i) PROVE RegisteredByItsId'
  BY <1>7 DEF SetId, Goto, Mine
<1>8. ASSUME NEW w \in Workers, ReplaceSession(w) PROVE RegisteredByItsId'
  BY <1>8 DEF ReplaceSession, Goto, RemoveFile
<1>9. ASSUME NEW w \in Workers, NEW s \in Sessions, Respond(w, s) PROVE RegisteredByItsId'
  BY <1>9 DEF Respond, Goto, Mine
<1>10. ASSUME NEW w \in Workers, NEW s \in Sessions, Serialize(w, s) PROVE RegisteredByItsId'
  BY <1>10 DEF Serialize, Goto, Mine
<1>11. ASSUME NEW w \in Workers, NEW s \in Sessions, OpenFile(w, s) PROVE RegisteredByItsId'
  BY <1>11 DEF OpenFile, Goto, Mine
<1>12. ASSUME NEW w \in Workers, WriteFile(w) PROVE RegisteredByItsId'
  BY <1>12 DEF WriteFile, Goto
<1>13. ASSUME NEW w \in Workers, NEW s \in Sessions, ClearDataUpdate(w, s) PROVE RegisteredByItsId'
  BY <1>13 DEF ClearDataUpdate, Goto, Mine
<1>14. ASSUME NEW w \in Workers, NEW s \in Sessions, ClearIdUpdate(w, s) PROVE RegisteredByItsId'
  BY <1>14 DEF ClearIdUpdate, Goto, Mine, Forget
<1>15. ASSUME CheckExpires PROVE RegisteredByItsId'
  BY <1>15 DEF CheckExpires, Registered
<1>16. ASSUME NEW i \in Ids, Visit(i) PROVE RegisteredByItsId'
  BY <1>16 DEF Visit
<1>17. ASSUME RemoveExpired PROVE RegisteredByItsId'
  BY <1>17 DEF RemoveExpired, RemoveFile
<1>18. ASSUME EndCheck PROVE RegisteredByItsId'
  BY <1>18 DEF EndCheck
<1>19. ASSUME NEW s \in Sessions, TimePasses(s) PROVE RegisteredByItsId'
  BY <1>19 DEF TimePasses
<1>20. ASSUME NEW alloc \in [SavedIds -> Sessions], NEW from \in [SavedIds -> Ids], Restart(alloc, from) PROVE RegisteredByItsId'
  BY <1>20 DEF Restart, SavedIds, IsInjective
<1>21. CASE UNCHANGED vars
  BY <1>21 DEF vars
<1> QED
  BY <1>1, <1>2, <1>3, <1>4, <1>5, <1>6, <1>7, <1>8, <1>9, <1>10,
     <1>11, <1>12, <1>13, <1>14, <1>15, <1>16, <1>17, <1>18, <1>19, <1>20,
     <1>21
     DEF Next, Request, Proceed, Check

\* What a restart loads: each session has the id and the data of a file, whose
\* entry in the map it is.
LEMMA Loading ==
    ASSUME TypeOK, NEW alloc \in [SavedIds -> Sessions], NEW from \in [SavedIds -> Ids],
           Restart(alloc, from)
    PROVE /\ \A i \in SavedIds :
               i \in Ids /\ from[i] \in Ids /\ file[from[i]] \in Texts /\ file[from[i]].id = i
          /\ \A s \in Sessions : uuid'[s] # NoId =>
               /\ uuid'[s] \in SavedIds
               /\ alloc[uuid'[s]] = s
               /\ data'[s] = file[from[uuid'[s]]].data
<1> DEFINE Loaded(s) == \E i \in SavedIds : alloc[i] = s
           IdOf(s) == CHOOSE i \in SavedIds : alloc[i] = s
<1>1. \A i \in SavedIds :
        i \in Ids /\ from[i] \in Ids /\ file[from[i]] \in Texts /\ file[from[i]].id = i
  BY DEF Restart, TypeOK
<1>2. \A s \in Sessions : Loaded(s) => IdOf(s) \in SavedIds /\ alloc[IdOf(s)] = s
  OBVIOUS
<1>3. /\ uuid' = [s \in Sessions |-> IF Loaded(s) THEN IdOf(s) ELSE NoId]
      /\ data' = [s \in Sessions |-> IF Loaded(s) THEN file[from[IdOf(s)]].data ELSE 0]
  BY DEF Restart
<1> HIDE DEF Loaded, IdOf
<1> QED
  BY <1>1, <1>2, <1>3

\* Requests have sessions, and sessions ids of their own.
LEMMA AssignedStep == TypeOK /\ Held /\ Named /\ Assigned /\ [Next]_vars => Assigned'
<1> SUFFICES ASSUME TypeOK /\ Held /\ Named /\ Assigned, [Next]_vars PROVE Assigned'
  OBVIOUS
<1> USE DEF TypeOK, Held, Named, Assigned
<1>1. ASSUME NEW w \in Workers, NEW s \in Sessions, NEW i \in Ids, CreateSession(w, s, i) PROVE Assigned'
  BY <1>1 DEF CreateSession, Goto, Unreferenced, InUse
<1>2. ASSUME NEW w \in Workers, NEW i \in Ids, GetSession(w, i) PROVE Assigned'
  BY <1>2 DEF GetSession, Goto, InUse
<1>3. ASSUME NEW w \in Workers, NEW s \in Sessions, Validate(w, s) PROVE Assigned'
  BY <1>3 DEF Validate, Goto, Mine
<1>4. ASSUME NEW w \in Workers, Expel(w) PROVE Assigned'
  BY <1>4 DEF Expel, Goto, RemoveSession, RemoveFile, Forget
<1>5. ASSUME NEW w \in Workers, NEW s \in Sessions, SetData(w, s) PROVE Assigned'
  BY <1>5 DEF SetData, Mine
<1>6. ASSUME NEW w \in Workers, NEW s \in Sessions, SetExpires(w, s) PROVE Assigned'
  BY <1>6 DEF SetExpires, Mine
<1>7. ASSUME NEW w \in Workers, NEW s \in Sessions, NEW i \in Ids, SetId(w, s, i) PROVE Assigned'
  BY <1>7 DEF SetId, Goto, Mine
<1>8. ASSUME NEW w \in Workers, ReplaceSession(w) PROVE Assigned'
  BY <1>8 DEF ReplaceSession, Goto, RemoveFile
<1>9. ASSUME NEW w \in Workers, NEW s \in Sessions, Respond(w, s) PROVE Assigned'
  BY <1>9 DEF Respond, Goto, Mine
<1>10. ASSUME NEW w \in Workers, NEW s \in Sessions, Serialize(w, s) PROVE Assigned'
  BY <1>10 DEF Serialize, Goto, Mine
<1>11. ASSUME NEW w \in Workers, NEW s \in Sessions, OpenFile(w, s) PROVE Assigned'
  BY <1>11 DEF OpenFile, Goto, Mine
<1>12. ASSUME NEW w \in Workers, WriteFile(w) PROVE Assigned'
  BY <1>12 DEF WriteFile, Goto
<1>13. ASSUME NEW w \in Workers, NEW s \in Sessions, ClearDataUpdate(w, s) PROVE Assigned'
  BY <1>13 DEF ClearDataUpdate, Goto, Mine
<1>14. ASSUME NEW w \in Workers, NEW s \in Sessions, ClearIdUpdate(w, s) PROVE Assigned'
  BY <1>14 DEF ClearIdUpdate, Goto, Mine, Forget
<1>15. ASSUME CheckExpires PROVE Assigned'
  BY <1>15 DEF CheckExpires
<1>16. ASSUME NEW i \in Ids, Visit(i) PROVE Assigned'
  BY <1>16 DEF Visit
<1>17. ASSUME RemoveExpired PROVE Assigned'
  BY <1>17 DEF RemoveExpired, RemoveFile
<1>18. ASSUME EndCheck PROVE Assigned'
  BY <1>18 DEF EndCheck
<1>19. ASSUME NEW s \in Sessions, TimePasses(s) PROVE Assigned'
  BY <1>19 DEF TimePasses
<1>20. ASSUME NEW alloc \in [SavedIds -> Sessions], NEW from \in [SavedIds -> Ids], Restart(alloc, from) PROVE Assigned'
  <2>1. \A s \in Sessions : uuid'[s] # NoId => uuid'[s] \in SavedIds /\ alloc[uuid'[s]] = s
    <3> HIDE DEF TypeOK
    <3> QED
      BY <1>20, Loading
  <2>2. \A i \in SavedIds : i \in usedIds
    BY DEF SavedIds
  <2> QED
    BY <1>20, <2>1, <2>2 DEF Restart
<1>21. CASE UNCHANGED vars
  BY <1>21 DEF vars
<1> QED
  BY <1>1, <1>2, <1>3, <1>4, <1>5, <1>6, <1>7, <1>8, <1>9, <1>10,
     <1>11, <1>12, <1>13, <1>14, <1>15, <1>16, <1>17, <1>18, <1>19, <1>20,
     <1>21
     DEF Next, Request, Proceed, Check

\* The ids of sessions that two requests use are shared.
LEMMA TwoUsersStep == TypeOK /\ Held /\ Named /\ Assigned /\ TwoUsers /\ [Next]_vars => TwoUsers'
<1> SUFFICES ASSUME TypeOK /\ Held /\ Named /\ Assigned /\ TwoUsers, [Next]_vars PROVE TwoUsers'
  OBVIOUS
<1> USE DEF TypeOK, Held, Named, Assigned, TwoUsers
<1>1. ASSUME NEW w \in Workers, NEW s \in Sessions, NEW i \in Ids, CreateSession(w, s, i) PROVE TwoUsers'
  BY <1>1 DEF CreateSession, Goto, Unreferenced, InUse
<1>2. ASSUME NEW w \in Workers, NEW i \in Ids, GetSession(w, i) PROVE TwoUsers'
  BY <1>2 DEF GetSession, Goto, InUse
<1>3. ASSUME NEW w \in Workers, NEW s \in Sessions, Validate(w, s) PROVE TwoUsers'
  BY <1>3 DEF Validate, Goto, Mine
<1>4. ASSUME NEW w \in Workers, Expel(w) PROVE TwoUsers'
  BY <1>4 DEF Expel, Goto, RemoveSession, RemoveFile, Forget
<1>5. ASSUME NEW w \in Workers, NEW s \in Sessions, SetData(w, s) PROVE TwoUsers'
  BY <1>5 DEF SetData, Mine
<1>6. ASSUME NEW w \in Workers, NEW s \in Sessions, SetExpires(w, s) PROVE TwoUsers'
  BY <1>6 DEF SetExpires, Mine
<1>7. ASSUME NEW w \in Workers, NEW s \in Sessions, NEW i \in Ids, SetId(w, s, i) PROVE TwoUsers'
  BY <1>7 DEF SetId, Goto, Mine
<1>8. ASSUME NEW w \in Workers, ReplaceSession(w) PROVE TwoUsers'
  BY <1>8 DEF ReplaceSession, Goto, RemoveFile
<1>9. ASSUME NEW w \in Workers, NEW s \in Sessions, Respond(w, s) PROVE TwoUsers'
  BY <1>9 DEF Respond, Goto, Mine
<1>10. ASSUME NEW w \in Workers, NEW s \in Sessions, Serialize(w, s) PROVE TwoUsers'
  BY <1>10 DEF Serialize, Goto, Mine
<1>11. ASSUME NEW w \in Workers, NEW s \in Sessions, OpenFile(w, s) PROVE TwoUsers'
  BY <1>11 DEF OpenFile, Goto, Mine
<1>12. ASSUME NEW w \in Workers, WriteFile(w) PROVE TwoUsers'
  BY <1>12 DEF WriteFile, Goto
<1>13. ASSUME NEW w \in Workers, NEW s \in Sessions, ClearDataUpdate(w, s) PROVE TwoUsers'
  BY <1>13 DEF ClearDataUpdate, Goto, Mine
<1>14. ASSUME NEW w \in Workers, NEW s \in Sessions, ClearIdUpdate(w, s) PROVE TwoUsers'
  BY <1>14 DEF ClearIdUpdate, Goto, Mine, Forget
<1>15. ASSUME CheckExpires PROVE TwoUsers'
  BY <1>15 DEF CheckExpires
<1>16. ASSUME NEW i \in Ids, Visit(i) PROVE TwoUsers'
  BY <1>16 DEF Visit
<1>17. ASSUME RemoveExpired PROVE TwoUsers'
  BY <1>17 DEF RemoveExpired, RemoveFile
<1>18. ASSUME EndCheck PROVE TwoUsers'
  BY <1>18 DEF EndCheck
<1>19. ASSUME NEW s \in Sessions, TimePasses(s) PROVE TwoUsers'
  BY <1>19 DEF TimePasses
<1>20. ASSUME NEW alloc \in [SavedIds -> Sessions], NEW from \in [SavedIds -> Ids], Restart(alloc, from) PROVE TwoUsers'
  BY <1>20 DEF Restart, SavedIds, IsInjective
<1>21. CASE UNCHANGED vars
  BY <1>21 DEF vars
<1> QED
  BY <1>1, <1>2, <1>3, <1>4, <1>5, <1>6, <1>7, <1>8, <1>9, <1>10,
     <1>11, <1>12, <1>13, <1>14, <1>15, <1>16, <1>17, <1>18, <1>19, <1>20,
     <1>21
     DEF Next, Request, Proceed, Check

\* Whose files are written.
LEMMA FilesOwnedStep == TypeOK /\ Held /\ Named /\ Assigned /\ TwoUsers /\ FilesOwned /\ [Next]_vars => FilesOwned'
<1> SUFFICES ASSUME TypeOK /\ Held /\ Named /\ Assigned /\ TwoUsers /\ FilesOwned, [Next]_vars PROVE FilesOwned'
  OBVIOUS
<1> USE DEF TypeOK, Held, Named, Assigned, TwoUsers, FilesOwned
<1>1. ASSUME NEW w \in Workers, NEW s \in Sessions, NEW i \in Ids, CreateSession(w, s, i) PROVE FilesOwned'
  BY <1>1 DEF CreateSession, Goto, Unreferenced, InUse
<1>2. ASSUME NEW w \in Workers, NEW i \in Ids, GetSession(w, i) PROVE FilesOwned'
  BY <1>2 DEF GetSession, Goto, InUse
<1>3. ASSUME NEW w \in Workers, NEW s \in Sessions, Validate(w, s) PROVE FilesOwned'
  BY <1>3 DEF Validate, Goto, Mine
<1>4. ASSUME NEW w \in Workers, Expel(w) PROVE FilesOwned'
  BY <1>4 DEF Expel, Goto, RemoveSession, RemoveFile, Forget
<1>5. ASSUME NEW w \in Workers, NEW s \in Sessions, SetData(w, s) PROVE FilesOwned'
  BY <1>5 DEF SetData, Mine
<1>6. ASSUME NEW w \in Workers, NEW s \in Sessions, SetExpires(w, s) PROVE FilesOwned'
  BY <1>6 DEF SetExpires, Mine
<1>7. ASSUME NEW w \in Workers, NEW s \in Sessions, NEW i \in Ids, SetId(w, s, i) PROVE FilesOwned'
  BY <1>7 DEF SetId, Goto, Mine
<1>8. ASSUME NEW w \in Workers, ReplaceSession(w) PROVE FilesOwned'
  <2>1. pc' = [pc EXCEPT ![w] = "run"] /\ UNCHANGED <<uuid, ses, text, shared>>
    BY <1>8 DEF ReplaceSession, Goto
  <2>2. \A v \in Workers : out'[v] \in {out[v], NoId}
    BY <1>8 DEF ReplaceSession, RemoveFile
  <2>3. \A f \in Ids : file'[f] \in {file[f], NoFile}
    BY <1>8 DEF ReplaceSession, RemoveFile
  <2>4. pc[w] = "replace"
    BY <1>8 DEF ReplaceSession, Goto
  <2> QED
    BY <2>1, <2>2, <2>3, <2>4
<1>9. ASSUME NEW w \in Workers, NEW s \in Sessions, Respond(w, s) PROVE FilesOwned'
  BY <1>9 DEF Respond, Goto, Mine
<1>10. ASSUME NEW w \in Workers, NEW s \in Sessions, Serialize(w, s) PROVE FilesOwned'
  BY <1>10 DEF Serialize, Goto, Mine
<1>11. ASSUME NEW w \in Workers, NEW s \in Sessions, OpenFile(w, s) PROVE FilesOwned'
  BY <1>11 DEF OpenFile, Goto, Mine
<1>12. ASSUME NEW w \in Workers, WriteFile(w) PROVE FilesOwned'
  <2>1. /\ pc[w] = "write" /\ pc' = [pc EXCEPT ![w] = "clearData"]
        /\ text' = [text EXCEPT ![w] = NoFile] /\ out' = [out EXCEPT ![w] = NoId]
        /\ UNCHANGED <<uuid, ses, shared>>
    BY <1>12 DEF WriteFile, Goto
  <2>2. \A f \in Ids : file'[f] \in {file[f], Torn} \/ (f = out[w] /\ file'[f] = text[w])
    BY <1>12 DEF WriteFile
  <2>3. out[w] # NoId => text[w].id = out[w] \/ text[w].id \in shared
    BY <2>1
  <2>4. \A f \in Ids : file'[f] \in Texts => file'[f].id = f \/ file'[f].id \in shared
    BY <2>2, <2>3
  <2> QED
    BY <2>1, <2>4
<1>13. ASSUME NEW w \in Workers, NEW s \in Sessions, ClearDataUpdate(w, s) PROVE FilesOwned'
  BY <1>13 DEF ClearDataUpdate, Goto, Mine
<1>14. ASSUME NEW w \in Workers, NEW s \in Sessions, ClearIdUpdate(w, s) PROVE FilesOwned'
  BY <1>14 DEF ClearIdUpdate, Goto, Mine, Forget
<1>15. ASSUME CheckExpires PROVE FilesOwned'
  BY <1>15 DEF CheckExpires
<1>16. ASSUME NEW i \in Ids, Visit(i) PROVE FilesOwned'
  BY <1>16 DEF Visit
<1>17. ASSUME RemoveExpired PROVE FilesOwned'
  BY <1>17 DEF RemoveExpired, RemoveFile
<1>18. ASSUME EndCheck PROVE FilesOwned'
  BY <1>18 DEF EndCheck
<1>19. ASSUME NEW s \in Sessions, TimePasses(s) PROVE FilesOwned'
  BY <1>19 DEF TimePasses
<1>20. ASSUME NEW alloc \in [SavedIds -> Sessions], NEW from \in [SavedIds -> Ids], Restart(alloc, from) PROVE FilesOwned'
  BY <1>20 DEF Restart, SavedIds, IsInjective
<1>21. CASE UNCHANGED vars
  BY <1>21 DEF vars
<1> QED
  BY <1>1, <1>2, <1>3, <1>4, <1>5, <1>6, <1>7, <1>8, <1>9, <1>10,
     <1>11, <1>12, <1>13, <1>14, <1>15, <1>16, <1>17, <1>18, <1>19, <1>20,
     <1>21
     DEF Next, Request, Proceed, Check

\* What is saved.
LEMMA SavedStep == TypeOK /\ Held /\ Named /\ Checked /\ RegisteredByItsId /\ Assigned /\ TwoUsers /\ FilesOwned /\ SavedOrSaving /\ [Next]_vars => SavedOrSaving'
<1> SUFFICES ASSUME TypeOK /\ Held /\ Named /\ Checked /\ RegisteredByItsId /\ Assigned /\ TwoUsers /\ FilesOwned /\ SavedOrSaving, [Next]_vars PROVE SavedOrSaving'
  OBVIOUS
<1> USE DEF TypeOK, Held, Named, Assigned, TwoUsers, FilesOwned, SavedOrSaving, Saving, Saved, Record, InUse
<1>1. ASSUME NEW w \in Workers, NEW s \in Sessions, NEW i \in Ids, CreateSession(w, s, i) PROVE SavedOrSaving'
  BY <1>1 DEF CreateSession, Goto, Unreferenced, InUse
<1>2. ASSUME NEW w \in Workers, NEW i \in Ids, GetSession(w, i) PROVE SavedOrSaving'
  BY <1>2 DEF GetSession, Goto, InUse
<1>3. ASSUME NEW w \in Workers, NEW s \in Sessions, Validate(w, s) PROVE SavedOrSaving'
  BY <1>3 DEF Validate, Goto, Mine
<1>4. ASSUME NEW w \in Workers, Expel(w) PROVE SavedOrSaving'
  BY <1>4 DEF Expel, Goto, RemoveSession, RemoveFile, Forget
<1>5. ASSUME NEW w \in Workers, NEW s \in Sessions, SetData(w, s) PROVE SavedOrSaving'
  BY <1>5 DEF SetData, Mine
<1>6. ASSUME NEW w \in Workers, NEW s \in Sessions, SetExpires(w, s) PROVE SavedOrSaving'
  BY <1>6 DEF SetExpires, Mine
<1>7. ASSUME NEW w \in Workers, NEW s \in Sessions, NEW i \in Ids, SetId(w, s, i) PROVE SavedOrSaving'
  BY <1>7 DEF SetId, Goto, Mine
<1>8. ASSUME NEW w \in Workers, ReplaceSession(w) PROVE SavedOrSaving'
  BY <1>8 DEF ReplaceSession, Goto, RemoveFile
<1>9. ASSUME NEW w \in Workers, NEW s \in Sessions, Respond(w, s) PROVE SavedOrSaving'
  BY <1>9 DEF Respond, Goto, Mine
<1>10. ASSUME NEW w \in Workers, NEW s \in Sessions, Serialize(w, s) PROVE SavedOrSaving'
  BY <1>10 DEF Serialize, Goto, Mine
<1>11. ASSUME NEW w \in Workers, NEW s \in Sessions, OpenFile(w, s) PROVE SavedOrSaving'
  BY <1>11 DEF OpenFile, Goto, Mine
<1>12. ASSUME NEW w \in Workers, WriteFile(w) PROVE SavedOrSaving'
  BY <1>12 DEF WriteFile, Goto
<1>13. ASSUME NEW w \in Workers, NEW s \in Sessions, ClearDataUpdate(w, s) PROVE SavedOrSaving'
  BY <1>13 DEF ClearDataUpdate, Goto, Mine
<1>14. ASSUME NEW w \in Workers, NEW s \in Sessions, ClearIdUpdate(w, s) PROVE SavedOrSaving'
  BY <1>14 DEF ClearIdUpdate, Goto, Mine, Forget
<1>15. ASSUME CheckExpires PROVE SavedOrSaving'
  BY <1>15 DEF CheckExpires
<1>16. ASSUME NEW i \in Ids, Visit(i) PROVE SavedOrSaving'
  BY <1>16 DEF Visit
<1>17. ASSUME RemoveExpired PROVE SavedOrSaving'
  <2>1. uuid[map[entry]] = entry /\ entry \in Ids
    BY <1>17 DEF RemoveExpired, RegisteredByItsId, Registered, Key, Checked
  <2>2. /\ map' = [map EXCEPT ![entry] = NoSession]
        /\ file' = [file EXCEPT ![entry] = NoFile]
        /\ out' = [v \in Workers |-> IF out[v] = entry THEN NoId ELSE out[v]]
        /\ UNCHANGED <<objectVars, pc, ses, text, shared>>
    BY <1>17, <2>1 DEF RemoveExpired, RemoveFile
  <2> QED
    BY <2>1, <2>2
<1>18. ASSUME EndCheck PROVE SavedOrSaving'
  BY <1>18 DEF EndCheck
<1>19. ASSUME NEW s \in Sessions, TimePasses(s) PROVE SavedOrSaving'
  BY <1>19 DEF TimePasses
<1>20. ASSUME NEW alloc \in [SavedIds -> Sessions], NEW from \in [SavedIds -> Ids], Restart(alloc, from) PROVE SavedOrSaving'
  <2>1. \A w \in Workers : ses'[w] = NoSession
    BY <1>20 DEF Restart
  <2>2. file' = file /\ shared' = shared
    BY <1>20 DEF Restart
  <2>3. ASSUME NEW s \in Sessions, uuid'[s] \in Ids \ shared
        PROVE file[uuid'[s]] = [id |-> uuid'[s], data |-> data'[s]]
    <3> DEFINE i == uuid'[s]
    <3>1. /\ i \in SavedIds /\ data'[s] = file[from[i]].data
          /\ from[i] \in Ids /\ file[from[i]] \in Texts /\ file[from[i]].id = i
      <4> HIDE DEF TypeOK
      <4> QED
        BY <1>20, <2>3, Loading
    <3>2. from[i] = i
      BY <2>3, <3>1
    <3> QED
      BY <2>3, <3>1, <3>2
  <2>4. \A w \in Workers, s \in Sessions : ses'[w] # s
    BY <2>1
  <2>5. ASSUME NEW s \in Sessions, uuid'[s] \in Ids \ shared'
        PROVE Saved(s)'
    BY <2>2, <2>3, <2>5
  <2> HIDE DEF Saved, Saving
  <2> QED
    BY <2>4, <2>5
<1>21. CASE UNCHANGED vars
  BY <1>21 DEF vars
<1> QED
  BY <1>1, <1>2, <1>3, <1>4, <1>5, <1>6, <1>7, <1>8, <1>9, <1>10,
     <1>11, <1>12, <1>13, <1>14, <1>15, <1>16, <1>17, <1>18, <1>19, <1>20,
     <1>21
     DEF Next, Request, Proceed, Check

\* The invariant holds in every reachable state.
THEOREM InductiveInvariant == Spec => []IInv
<1>1. Init => IInv
  BY DEF Init, IInv, TypeOK, Held, Named, Checked, RegisteredByItsId, Registered,
         Assigned, TwoUsers, FilesOwned, SavedOrSaving, Saving, Saved, InUse
<1>2. IInv /\ [Next]_vars => IInv'
  BY TypeStep, HeldStep, NamedStep, CheckedStep, RegisteredStep, AssignedStep,
     TwoUsersStep, FilesOwnedStep, SavedStep DEF IInv
<1> QED
  BY <1>1, <1>2, PTL DEF Spec

\* Every variable of the sessions has its type (session.hpp:98-181, 330-390).
THEOREM TypeCorrect == Spec => []TypeOK
<1>1. IInv => TypeOK
  BY DEF IInv
<1> QED
  BY <1>1, InductiveInvariant, PTL

\* Whatever requests change ids, expire or crash, a session is registered under
\* its own id only (session.hpp:146-154, 195-204).
THEOREM RegisteredByItsIdHolds == Spec => []RegisteredByItsId
<1>1. IInv => RegisteredByItsId
  BY DEF IInv
<1> QED
  BY <1>1, InductiveInvariant, PTL

\* Whatever requests, set_id, expiry and restarts do in any order, a registered
\* session whose requests are done is in its file as it is in memory, if no two
\* requests ever used it at a time (http_handler.hpp:799-814, session.hpp:367-374).
THEOREM SavedUnlessSharedHolds == Spec => []SavedUnlessShared
<1>1. IInv => SavedUnlessShared
  <2> SUFFICES ASSUME IInv, NEW i \in Registered, ~InUse(map[i]), i \notin shared
               PROVE file[i] = Record(map[i]) /\ uuid[map[i]] = i
    BY DEF SavedUnlessShared, Record
  <2>1. map[i] \in Sessions /\ i \in Ids
    BY DEF IInv, TypeOK, Registered
  <2>2. mutex[map[i]] = Nobody
    BY <2>1 DEF IInv, TypeOK, Held, InUse
  <2>3. uuid[map[i]] = i
    BY <2>2 DEF IInv, RegisteredByItsId, Key
  <2> QED
    BY <2>1, <2>3 DEF IInv, SavedOrSaving, Saved
<1> QED
  BY <1>1, InductiveInvariant, PTL
=============================================================================
