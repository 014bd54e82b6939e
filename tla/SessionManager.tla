--------------------------- MODULE SessionManager ---------------------------
(***************************************************************************)
(* Sessions (src/xfinal/session.hpp) as the requests of several io threads *)
(* and the expiry timer of http_router use them: session_manager's map     *)
(* under its mutex, the session objects under theirs, and the files of     *)
(* default_session_storage, from which the map is rebuilt at a restart.    *)
(*                                                                         *)
(* A worker is an io thread running a request that uses one session.  A    *)
(* section that holds a single mutex is one step, taken when the mutex is  *)
(* free; session::set_id and check_expires hold one mutex while they wait  *)
(* for another, and are split there.                                       *)
(***************************************************************************)
EXTENDS Naturals, Functions

CONSTANTS
    Workers,    \* the threads that run requests
    Sessions,   \* the session objects
    Ids,        \* the session ids (uuids, and those set_id is given)
    MaxData,    \* bound: the values set_data stores, newest last
    MaxCrashes, \* bound: the crashes of the process
    Nobody,     \* no thread holds the mutex
    NoSession,  \* the empty session
    NoFile,     \* there is no file with this name
    Torn        \* the file was truncated and not yet written

ASSUME BoundsAssumption == MaxData \in Nat /\ MaxCrashes \in Nat

VARIABLES
    mapMutex,   \* session_manager::mutex_: its holder
    map,        \* session_map_
    mutex,      \* session::mutex_ of each object: its holder
    uuid,       \* uuid_
    stale,      \* expires_ <= time(nullptr)
    data,       \* data_
    dataUpdate, \* data_update_
    idUpdate,   \* is_update_
    file,       \* the files of the storage: name -> what is in them
    pc,         \* where each worker is
    ses,        \* the session its request uses
    id,         \* the id it looked up, or the old id in set_id
    text,       \* what session::serialize returned
    out,        \* the file it has open, NoId once that is unlinked
    visit,      \* the entries check_expires has not visited yet
    entry,      \* the entry it found expired
    timerPc,    \* where check_expires is
    usedIds,    \* history: the ids ever given
    shared,     \* history: the ids of sessions two requests have used at a time
    crashes     \* the crashes so far

managerVars == <<mapMutex, map>>
objectVars == <<mutex, uuid, stale, data, dataUpdate, idUpdate>>
workerVars == <<pc, ses, id, text, out>>
timerVars == <<visit, entry, timerPc>>
history == <<usedIds, shared, crashes>>
vars == <<managerVars, objectVars, file, workerVars, timerVars, history>>

Timer == "timer"
NoId == "none"
Pcs == {"idle", "validate", "expel", "run", "replace", "serialize",
        "open", "write", "clearData", "clearId"}
Texts == [id : Ids, data : 0 .. MaxData]

\* The values that stand for nothing are none of the others.
ASSUME DistinctAssumption ==
    /\ Nobody \notin Workers \cup {Timer}
    /\ Timer \notin Workers
    /\ NoSession \notin Sessions
    /\ NoId \notin Ids
    /\ NoFile \notin Texts /\ Torn \notin Texts

Init ==
    /\ mapMutex = Nobody
    /\ map = [i \in Ids |-> NoSession]
    /\ mutex = [s \in Sessions |-> Nobody]
    /\ uuid = [s \in Sessions |-> NoId]
    /\ stale = [s \in Sessions |-> FALSE]
    /\ data = [s \in Sessions |-> 0]
    /\ dataUpdate = [s \in Sessions |-> FALSE]
    /\ idUpdate = [s \in Sessions |-> FALSE]
    /\ file = [i \in Ids |-> NoFile]
    /\ pc = [w \in Workers |-> "idle"]
    /\ ses = [w \in Workers |-> NoSession]
    /\ id = [w \in Workers |-> NoId]
    /\ text = [w \in Workers |-> NoFile]
    /\ out = [w \in Workers |-> NoId]
    /\ visit = {}
    /\ entry = NoId
    /\ timerPc = "idle"
    /\ usedIds = {}
    /\ shared = {}
    /\ crashes = 0

-----------------------------------------------------------------------------
(* Helpers.                                                                *)

Registered == {i \in Ids : map[i] # NoSession}

InUse(s) == \E w \in Workers : ses[w] = s

\* Nothing refers to object s: its memory may be used for a new one.
Unreferenced(s) == ~InUse(s) /\ \A i \in Ids : map[i] # s

Goto(w, from, to) == pc[w] = from /\ pc' = [pc EXCEPT ![w] = to]

\* The worker's session, with its mutex free.
Mine(w, s) == ses[w] = s /\ mutex[s] = Nobody

\* default_session_storage::remove: what is written through a handle that is
\* still open goes to no file.
RemoveFile(i) ==
    /\ file' = [file EXCEPT ![i] = NoFile]
    /\ out' = [w \in Workers |-> IF out[w] = i THEN NoId ELSE out[w]]

Forget(w) == ses' = [ses EXCEPT ![w] = NoSession]

-----------------------------------------------------------------------------
(* The request.                                                            *)

\* request::create_session, with session_manager::add_session.
CreateSession(w, s, i) ==
    /\ Goto(w, "idle", "run")
    /\ mapMutex = Nobody
    /\ Unreferenced(s)
    /\ i \notin usedIds
    /\ map' = [map EXCEPT ![i] = s]
    /\ uuid' = [uuid EXCEPT ![s] = i]
    /\ stale' = [stale EXCEPT ![s] = FALSE]
    /\ data' = [data EXCEPT ![s] = 0]
    /\ dataUpdate' = [dataUpdate EXCEPT ![s] = TRUE]
    /\ idUpdate' = [idUpdate EXCEPT ![s] = TRUE]
    /\ ses' = [ses EXCEPT ![w] = s]
    /\ usedIds' = usedIds \cup {i}
    /\ UNCHANGED <<mapMutex, mutex, file, id, text, out, timerVars, shared, crashes>>

\* request::session with the cookie of session i: validata, get_session.  An
\* unknown id gives an empty session, which is never saved.
GetSession(w, i) ==
    /\ Goto(w, "idle", "validate")
    /\ mapMutex = Nobody
    /\ map[i] # NoSession
    /\ ses' = [ses EXCEPT ![w] = map[i]]
    /\ id' = [id EXCEPT ![w] = i]
    /\ shared' = IF InUse(map[i]) THEN shared \cup {i, uuid[map[i]]} ELSE shared
    /\ UNCHANGED <<managerVars, objectVars, file, text, out, timerVars, usedIds, crashes>>

\* validata: get_expires.
Validate(w, s) ==
    /\ Mine(w, s)
    /\ Goto(w, "validate", IF stale[s] THEN "expel" ELSE "run")
    /\ id' = IF stale[s] THEN id ELSE [id EXCEPT ![w] = NoId]
    /\ UNCHANGED <<managerVars, objectVars, file, ses, text, out, timerVars, history>>

\* Removes the session registered as i, if there is one, and its file.
RemoveSession(i) ==
    /\ map[i] # NoSession
    /\ RemoveFile(i)
    /\ map' = [map EXCEPT ![i] = NoSession]

\* validata: remove_session, and the request gets an empty session.
Expel(w) ==
    /\ Goto(w, "expel", "idle")
    /\ mapMutex = Nobody
    /\ \/ RemoveSession(id[w])
       \/ map[id[w]] = NoSession /\ UNCHANGED <<file, out, map>>
    /\ Forget(w)
    /\ id' = [id EXCEPT ![w] = NoId]
    /\ UNCHANGED <<mapMutex, objectVars, text, timerVars, history>>

\* session::set_data
SetData(w, s) ==
    /\ pc[w] = "run"
    /\ Mine(w, s)
    /\ data[s] < MaxData
    /\ data' = [data EXCEPT ![s] = @ + 1]
    /\ dataUpdate' = [dataUpdate EXCEPT ![s] = TRUE]
    /\ UNCHANGED <<managerVars, mutex, uuid, stale, idUpdate, file, workerVars,
                   timerVars, history>>

\* session::set_expires, with a time to come.
SetExpires(w, s) ==
    /\ pc[w] = "run"
    /\ Mine(w, s)
    /\ stale' = [stale EXCEPT ![s] = FALSE]
    /\ idUpdate' = [idUpdate EXCEPT ![s] = TRUE]
    /\ UNCHANGED <<managerVars, mutex, uuid, data, dataUpdate, file, workerVars,
                   timerVars, history>>

\* Mutant: set_id unlocks the session before it calls replace_session.
SetIdUnlocks(w, s, i) ==
    /\ Goto(w, "run", "replace")
    /\ Mine(w, s)
    /\ i \notin usedIds
    /\ id' = [id EXCEPT ![w] = uuid[s]]
    /\ uuid' = [uuid EXCEPT ![s] = i]
    /\ idUpdate' = [idUpdate EXCEPT ![s] = TRUE]
    /\ usedIds' = usedIds \cup {i}
    /\ shared' = IF uuid[s] \in shared THEN shared \cup {i} ELSE shared
    /\ UNCHANGED <<managerVars, mutex, stale, data, dataUpdate, file, ses, text, out,
                   timerVars, crashes>>

\* session::set_id, given an id that is new, takes the mutex of the session and
\* keeps it ...
SetId(w, s, i) ==
    /\ Goto(w, "run", "replace")
    /\ Mine(w, s)
    /\ i \notin usedIds
    /\ mutex' = [mutex EXCEPT ![s] = w]
    /\ id' = [id EXCEPT ![w] = uuid[s]]
    /\ uuid' = [uuid EXCEPT ![s] = i]
    /\ idUpdate' = [idUpdate EXCEPT ![s] = TRUE]
    /\ usedIds' = usedIds \cup {i}
    /\ shared' = IF uuid[s] \in shared THEN shared \cup {i} ELSE shared
    /\ UNCHANGED <<managerVars, stale, data, dataUpdate, file, ses, text, out,
                   timerVars, crashes>>

\* ... while session_manager::replace_session waits for that of the manager.
ReplaceSession(w) ==
    /\ Goto(w, "replace", "run")
    /\ mapMutex = Nobody
    /\ LET s == ses[w]
           old == id[w] IN
         /\ map' = [map EXCEPT ![old] = NoSession, ![uuid[s]] = s]
         /\ IF map[old] # NoSession THEN RemoveFile(old) ELSE UNCHANGED <<file, out>>
         /\ mutex' = [mutex EXCEPT ![s] = Nobody]
    /\ id' = [id EXCEPT ![w] = NoId]
    /\ UNCHANGED <<mapMutex, uuid, stale, data, dataUpdate, idUpdate, ses, text,
                   timerVars, history>>

(* response::write_sessions_to_client, as the header is written.           *)

\* Mutant: only a session whose cookie changed is saved.
RespondIfCookie(w, s) ==
    /\ Mine(w, s)
    /\ Goto(w, "run", IF idUpdate[s] THEN "serialize" ELSE "clearId")
    /\ UNCHANGED <<managerVars, objectVars, file, ses, id, text, out, timerVars, history>>

\* cookie_update() || data_update()
Respond(w, s) ==
    /\ Mine(w, s)
    /\ Goto(w, "run", IF idUpdate[s] \/ dataUpdate[s] THEN "serialize" ELSE "clearId")
    /\ UNCHANGED <<managerVars, objectVars, file, ses, id, text, out, timerVars, history>>

Serialize(w, s) ==
    /\ Mine(w, s)
    /\ Goto(w, "serialize", "open")
    /\ text' = [text EXCEPT ![w] = [id |-> uuid[s], data |-> data[s]]]
    /\ UNCHANGED <<managerVars, objectVars, file, ses, id, out, timerVars, history>>

\* The ofstream truncates the file named by get_id() as it opens it.
OpenFile(w, s) ==
    /\ Mine(w, s)
    /\ Goto(w, "open", "write")
    /\ out' = [out EXCEPT ![w] = uuid[s]]
    /\ file' = [file EXCEPT ![uuid[s]] = Torn]
    /\ UNCHANGED <<managerVars, objectVars, ses, id, text, timerVars, history>>

\* The text goes over what another request wrote since the file was opened,
\* whose end stays when it is longer.
WriteFile(w) ==
    /\ Goto(w, "write", "clearData")
    /\ LET f == out[w] IN
         \/ f = NoId /\ UNCHANGED file
         \/ f # NoId /\ file' = [file EXCEPT ![f] = text[w]]
         \/ /\ f # NoId
            /\ file[f] \notin {Torn, text[w]}
            /\ file' = [file EXCEPT ![f] = Torn]
    /\ text' = [text EXCEPT ![w] = NoFile]
    /\ out' = [out EXCEPT ![w] = NoId]
    /\ UNCHANGED <<managerVars, objectVars, ses, id, timerVars, history>>

\* set_data_update(false)
ClearDataUpdate(w, s) ==
    /\ Mine(w, s)
    /\ Goto(w, "clearData", "clearId")
    /\ dataUpdate' = [dataUpdate EXCEPT ![s] = FALSE]
    /\ UNCHANGED <<managerVars, mutex, uuid, stale, data, idUpdate, file, ses, id,
                   text, out, timerVars, history>>

\* set_cookie_update(false), and the request ends.
ClearIdUpdate(w, s) ==
    /\ Mine(w, s)
    /\ Goto(w, "clearId", "idle")
    /\ idUpdate' = [idUpdate EXCEPT ![s] = FALSE]
    /\ Forget(w)
    /\ UNCHANGED <<managerVars, mutex, uuid, stale, data, dataUpdate, file, id, text,
                   out, timerVars, history>>

-----------------------------------------------------------------------------
(* session_manager::check_expires, called by http_router's timer: it holds *)
(* the manager's mutex and takes those of the sessions.                    *)

CheckExpires ==
    /\ timerPc = "idle"
    /\ mapMutex = Nobody
    /\ Registered # {}
    /\ mapMutex' = Timer
    /\ visit' = Registered
    /\ timerPc' = "visit"
    /\ UNCHANGED <<map, objectVars, file, workerVars, entry, history>>

\* Mutant: the iterator stays at the entry that is erased.
VisitStays(i) ==
    /\ timerPc = "visit"
    /\ i \in visit
    /\ mutex[map[i]] = Nobody
    /\ IF stale[map[i]] THEN timerPc' = "remove" /\ entry' = i /\ UNCHANGED visit
                        ELSE visit' = visit \ {i} /\ UNCHANGED <<timerPc, entry>>
    /\ UNCHANGED <<managerVars, objectVars, file, workerVars, history>>

\* iter->second->get_expires(): an entry that has not expired is passed over.
Visit(i) ==
    /\ timerPc = "visit"
    /\ i \in visit
    /\ mutex[map[i]] = Nobody
    /\ visit' = visit \ {i}
    /\ IF stale[map[i]] THEN timerPc' = "remove" /\ entry' = i
                        ELSE UNCHANGED <<timerPc, entry>>
    /\ UNCHANGED <<managerVars, objectVars, file, workerVars, history>>

\* session::remove, which takes the session's mutex again for its id, and erase.
RemoveExpired ==
    /\ timerPc = "remove"
    /\ mutex[map[entry]] = Nobody
    /\ RemoveFile(uuid[map[entry]])
    /\ map' = [map EXCEPT ![entry] = NoSession]
    /\ timerPc' = "visit"
    /\ entry' = NoId
    /\ UNCHANGED <<mapMutex, objectVars, pc, ses, id, text, visit, history>>

EndCheck ==
    /\ timerPc = "visit"
    /\ visit = {}
    /\ mapMutex' = Nobody
    /\ timerPc' = "idle"
    /\ UNCHANGED <<map, objectVars, file, workerVars, visit, entry, history>>

-----------------------------------------------------------------------------
(* The environment.                                                        *)

TimePasses(s) ==
    /\ ~stale[s]
    /\ ~Unreferenced(s)
    /\ stale' = [stale EXCEPT ![s] = TRUE]
    /\ UNCHANGED <<managerVars, mutex, uuid, data, dataUpdate, idUpdate, file,
                   workerVars, timerVars, history>>

\* The files that parse, by the id in them (the name of the file is not read).
SavedIds == {file[f].id : f \in {g \in Ids : file[g] \notin {NoFile, Torn}}}

\* The process dies; default_session_storage::init of the next one registers
\* what the files hold, and skips those that do not parse.  Any session may
\* have expired meanwhile.  Bound: no more sessions than there are objects.
Restart(alloc, from) ==
    LET Loaded(s) == \E i \in SavedIds : alloc[i] = s
        IdOf(s) == CHOOSE i \in SavedIds : alloc[i] = s IN
    /\ crashes < MaxCrashes
    /\ IsInjective(alloc)
    /\ \A i \in SavedIds : file[from[i]] \notin {NoFile, Torn} /\ file[from[i]].id = i
    /\ mapMutex' = Nobody
    /\ map' = [i \in Ids |-> IF i \in SavedIds THEN alloc[i] ELSE NoSession]
    /\ mutex' = [s \in Sessions |-> Nobody]
    /\ uuid' = [s \in Sessions |-> IF Loaded(s) THEN IdOf(s) ELSE NoId]
    /\ \E late \in SUBSET Sessions : stale' = [s \in Sessions |-> Loaded(s) /\ s \in late]
    /\ data' = [s \in Sessions |-> IF Loaded(s) THEN file[from[IdOf(s)]].data ELSE 0]
    /\ dataUpdate' = [s \in Sessions |-> FALSE]
    /\ idUpdate' = [s \in Sessions |-> FALSE]
    /\ pc' = [w \in Workers |-> "idle"]
    /\ ses' = [w \in Workers |-> NoSession]
    /\ id' = [w \in Workers |-> NoId]
    /\ text' = [w \in Workers |-> NoFile]
    /\ out' = [w \in Workers |-> NoId]
    /\ visit' = {}
    /\ entry' = NoId
    /\ timerPc' = "idle"
    /\ crashes' = crashes + 1
    /\ UNCHANGED <<file, usedIds, shared>>

-----------------------------------------------------------------------------
(* The specification.                                                      *)

\* What a worker does without being asked to by the route.
Proceed(w) ==
    \/ \E s \in Sessions :
         \/ Validate(w, s)
         \/ Respond(w, s)
         \/ Serialize(w, s)
         \/ OpenFile(w, s)
         \/ ClearDataUpdate(w, s)
         \/ ClearIdUpdate(w, s)
    \/ Expel(w)
    \/ ReplaceSession(w)
    \/ WriteFile(w)

Request(w) ==
    \/ \E s \in Sessions : SetData(w, s) \/ SetExpires(w, s)
    \/ \E s \in Sessions, i \in Ids : CreateSession(w, s, i) \/ SetId(w, s, i)
    \/ \E i \in Ids : GetSession(w, i)

Check ==
    \/ CheckExpires
    \/ \E i \in Ids : Visit(i)
    \/ RemoveExpired
    \/ EndCheck

Next ==
    \/ \E w \in Workers : Request(w) \/ Proceed(w)
    \/ Check
    \/ \E s \in Sessions : TimePasses(s)
    \/ \E alloc \in [SavedIds -> Sessions], from \in [SavedIds -> Ids] :
         Restart(alloc, from)

Spec == Init /\ [][Next]_vars

\* Threads run; the timer is armed again after every check.
FairSpec ==
    /\ Spec
    /\ \A w \in Workers : WF_vars(Proceed(w))
    /\ WF_vars(Check)

-----------------------------------------------------------------------------
(* Properties.                                                             *)

\* Every variable has its type.
TypeOK ==
    /\ mapMutex \in {Nobody, Timer}
    /\ map \in [Ids -> Sessions \cup {NoSession}]
    /\ mutex \in [Sessions -> Workers \cup {Nobody}]
    /\ uuid \in [Sessions -> Ids \cup {NoId}]
    /\ stale \in [Sessions -> BOOLEAN]
    /\ data \in [Sessions -> 0 .. MaxData]
    /\ dataUpdate \in [Sessions -> BOOLEAN]
    /\ idUpdate \in [Sessions -> BOOLEAN]
    /\ file \in [Ids -> Texts \cup {NoFile, Torn}]
    /\ pc \in [Workers -> Pcs]
    /\ ses \in [Workers -> Sessions \cup {NoSession}]
    /\ id \in [Workers -> Ids \cup {NoId}]
    /\ text \in [Workers -> Texts \cup {NoFile}]
    /\ out \in [Workers -> Ids \cup {NoId}]
    /\ visit \subseteq Registered
    /\ entry \in Ids \cup {NoId}
    /\ timerPc \in {"idle", "visit", "remove"}
    /\ usedIds \subseteq Ids
    /\ shared \subseteq Ids
    /\ crashes \in 0 .. MaxCrashes

\* The key under which s may be registered: its id, or the id it had while a
\* set_id has not come to replace_session.
Key(s) == IF mutex[s] = Nobody THEN uuid[s] ELSE id[mutex[s]]

\* session_map_ and the ids in the sessions agree: no session is found by an id
\* that is not its own, nor by two, whatever set_id calls run at a time
\* (session.hpp:195-204, 146-154).
RegisteredByItsId == \A i \in Registered : Key(map[i]) = i

\* Once the requests that used it are done, a registered session is in its file
\* as it is in memory, across set_id, expiry and restarts, if no two requests
\* ever used it at a time (http_handler.hpp:799-814, session.hpp:367-374).
SavedUnlessShared ==
    \A i \in Registered : LET s == map[i] IN
      InUse(s) \/ i \in shared \/ file[i] = [id |-> i, data |-> data[s]]

\* set_id comes to replace the entry of the session, as its comment says
\* (session.hpp:202).
SetIdCompletes == \A w \in Workers : pc[w] = "replace" ~> pc[w] # "replace"
=============================================================================
