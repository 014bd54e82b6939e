--------------------------- MODULE MCHttpResponse ---------------------------
(***************************************************************************)
(* A small instance of HttpResponse, and HttpRouter for all requests after *)
(* few registrations.                                                      *)
(***************************************************************************)
EXTENDS HttpResponse, HttpRouter

MCRequests ==
    LET ranges == {[kind |-> "none"], [kind |-> "from", first |-> 2],
                   [kind |-> "span", first |-> 1, last |-> 3], [kind |-> "last", count |-> 2]}
    IN {[head |-> h, keepAlive |-> k, range |-> r] : h \in BOOLEAN, k \in BOOLEAN, r \in ranges}

\* Urls to register: every way one may be a part of another.  (One with a slash
\* at its end is never found, since pre_router takes it off the request's.)
Registered ==
    {<<"/">>, <<"/", "a">>, <<"/", "a", "/", "b">>,
     <<"/", "*">>, <<"/", "a", "/", "*">>, <<"/", "a", "/", "b", "/", "*">>, <<"/", "a", "b", "/", "*">>}

\* Bounds: up to two registrations with any methods, three with one of two.
MethodSets == {{"GET"}, {"GET", "HEAD"}, {Websocket}}
Registrations ==
    LET regs(sets) == {[methods |-> ms, url |-> u] : ms \in sets, u \in Registered}
        of(s) == [i \in DOMAIN s |-> [methods |-> s[i].methods, url |-> s[i].url, id |-> i]]
    IN {of(s) : s \in SeqOf(regs(MethodSets), 2)} \cup {of(s) : s \in SeqOf(regs({{"GET"}, {Websocket}}), 3)}

\* Bound: the urls of requests have up to five characters.
Urls == {<<"/">> \o u : u \in SeqOf({"/", "a", "b"}, 4)}

\* Two registrations whose websockets have their events under one key: a url
\* and the same with "/*" behind it.
ShareEvents(registrations) ==
    \E r, s \in ToSet(registrations) :
        Websocket \in r.methods \cap s.methods /\ IsGeneral(r.url) /\ s.url = Base(r.url)

Agrees(registrations, tables, method, url) ==
    LET got == Dispatch(tables, method, url)
        id == Deserved(registrations, method, Stripped(url))
    IN /\ got.route = id /\ got.interceptors = id
       /\ method = Websocket /\ ~ShareEvents(registrations) => got.events = id

\* The methods under which some request is led astray.
Misrouted ==
    {method \in {"GET", "HEAD", Websocket} :
       \E registrations \in Registrations :
         LET tables == Tables(registrations) IN
         \E url \in Urls : ~Agrees(registrations, tables, method, url)}

\* pre_router's name for the method: a websocket begins as a GET.
MethodsOf(r) == IF r.head THEN {"HEAD"} ELSE {"GET", Websocket}

\* The request that is answered, whatever its url and the registrations, was
\* given the best of the routes registered for its method and url, with the
\* interceptors and, for a websocket, the events of the same registration
\* (pre_router, get_interceptors_process, start_webscoket).  Excepted are the
\* events of two websockets of which one is registered for a url and the other
\* for what is below: the second's are lost.
RouteAgrees == MethodsOf(request) \cap Misrouted = {}
=============================================================================
