----------------------------- MODULE HttpRouter -----------------------------
(***************************************************************************)
(* The routes of a server (src/xfinal/http_router.hpp): the tables that    *)
(* the registrations fill before it runs, and the look-up of a request in  *)
(* them: its route, the interceptors that run before it, and the events of *)
(* a websocket.                                                            *)
(*                                                                         *)
(* A url is a sequence of characters, of which "/" and "*" matter; a key,  *)
(* the method and the url in one string, has the method for its first      *)
(* element.  `id` stands for what a call of router() was given.            *)
(***************************************************************************)
EXTENDS Integers, Sequences, SequencesExt

Slash == "/"
Star == "*"
Websocket == "WEBSOSCKET"       \* the method under which websockets are kept
Nothing == 0                    \* the end of a map; no call has this id
Key(method, url) == <<method>> \o url

\* find and substr(0, .), where npos is the end of the string.
Find(s, c, from) ==
    CHOOSE i \in 1..(Len(s) + 1) :
        /\ i > Len(s) \/ (i >= from /\ s[i] = c)
        /\ \A j \in from..(i - 1) : s[j] # c
Before(s, pos) == SubSeq(s, 1, pos - 1)

IsGeneral(url) == Contains(url, Star)
\* What of a url with a star is kept; before a star in front lies npos.
Base(url) ==
    LET star == Find(url, Star, 1) IN IF star = 1 THEN url ELSE Before(url, star - 1)

\* unordered_map::insert: an entry that is there stays.
Insert(map, keys, id) ==
    [k \in DOMAIN map \cup keys |-> IF k \in DOMAIN map THEN map[k] ELSE id]

NoEntries == [k \in {} |-> Nothing]
NoRoutes ==
    [routes |-> NoEntries, generalRoutes |-> NoEntries, interceptors |-> NoEntries,
     generalInterceptors |-> NoEntries, events |-> NoEntries]

\* reg_router, and add_event for a websocket.
Register(tables, reg) ==
    LET kept == IF IsGeneral(reg.url) THEN Base(reg.url) ELSE reg.url
        keys == {Key(m, kept) : m \in reg.methods}
        add(t) == Insert(t, keys, reg.id)
        events == IF Websocket \in reg.methods THEN add(tables.events) ELSE tables.events
    IN IF IsGeneral(reg.url)
         THEN [tables EXCEPT !.generalRoutes = add(@), !.generalInterceptors = add(@),
                             !.events = events]
         ELSE [tables EXCEPT !.routes = add(@), !.interceptors = add(@), !.events = events]

Tables(registrations) ==
    LET after[n \in 0..Len(registrations)] ==
            IF n = 0 THEN NoRoutes ELSE Register(after[n - 1], registrations[n])
    IN after[Len(registrations)]

\* pre_router: the slashes at the end of the url do not count.
Stripped(url) ==
    SubSeq(url, 1, CHOOSE n \in DOMAIN url :
        (n = 1 \/ url[n] # Slash) /\ \A i \in (n + 1)..Len(url) : url[i] = Slash)

\* Mutant: the base may end within a segment.
FitsAnywhere(base, key) == IsPrefix(base, key)

\* A general route fits when its base is the key up to a slash, or all of it.
Fits(base, key) == Before(key, Find(key, Slash, Len(base) + 1)) = base

\* pre_router: the route for this very url, or the general one with the longest
\* base, or none.
PreRouter(tables, method, url) ==
    LET key == Key(method, Stripped(url))
        fitting == {base \in DOMAIN tables.generalRoutes : Fits(base, key)}
        best == CHOOSE base \in fitting : \A b \in fitting : Len(b) <= Len(base)
    IN IF key \in DOMAIN tables.routes
         THEN [type |-> "specify", key |-> key, route |-> tables.routes[key]]
       ELSE IF fitting # {}
         THEN [type |-> "general", key |-> best, route |-> tables.generalRoutes[best]]
       ELSE [type |-> "unknown", key |-> <<>>, route |-> Nothing]

Entry(map, key) == IF key \in DOMAIN map THEN map[key] ELSE Nothing

GetInterceptorsProcess(tables, found) ==
    CASE found.type = "specify" -> Entry(tables.interceptors, found.key)
      [] found.type = "general" -> Entry(tables.generalInterceptors, found.key)
      [] OTHER -> Nothing

\* parse_header, and start_webscoket when the connection is upgraded.
Dispatch(tables, method, url) ==
    LET found == PreRouter(tables, method, url)
    IN [route |-> found.route,
        interceptors |-> GetInterceptorsProcess(tables, found),
        events |-> IF method = Websocket THEN Entry(tables.events, found.key) ELSE Nothing]

-----------------------------------------------------------------------------
(* What a request should get.                                              *)

\* A url without a star is meant for itself, one with a star for what stands
\* before the star and everything below.
IsFor(reg, method, url) ==
    /\ method \in reg.methods
    /\ IF Last(reg.url) = Star
         THEN LET base == SubSeq(reg.url, 1, Len(reg.url) - 2)
              IN url = base \/ IsPrefix(base \o <<Slash>>, url)
         ELSE reg.url = url

\* Of the registrations meant for a request the one that says most of the url
\* counts (README: the best match), and of several for one url the first.
Better(registrations, i, j) ==
    LET of(k) == registrations[k].url IN
    IF (Last(of(i)) = Star) # (Last(of(j)) = Star) THEN Last(of(j)) = Star
    ELSE Len(of(i)) > Len(of(j)) \/ (Len(of(i)) = Len(of(j)) /\ i < j)

Deserved(registrations, method, url) ==
    LET candidates == {i \in DOMAIN registrations : IsFor(registrations[i], method, url)}
    IN IF candidates = {} THEN Nothing
       ELSE registrations[CHOOSE i \in candidates :
                            \A j \in candidates \ {i} : Better(registrations, i, j)].id
=============================================================================
