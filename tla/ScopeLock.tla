----------------------------- MODULE ScopeLock ------------------------------
(***************************************************************************)
(* What ScopeRunner promises (src/xfinal/client.hpp), with no counter and  *)
(* no retried compare-and-swap: any number of handlers may be in the       *)
(* scope, the scope is closed when none is in it, and once it is closed    *)
(* none enters again.                                                      *)
(***************************************************************************)
CONSTANT Handlers

VARIABLES
    holders,    \* the handlers that hold a shared lock
    closed      \* stop() has returned

vars == <<holders, closed>>

Init == holders = {} /\ closed = FALSE

Enter(h) ==
    /\ ~closed
    /\ h \notin holders
    /\ holders' = holders \cup {h}
    /\ UNCHANGED closed

Exit(h) ==
    /\ h \in holders
    /\ holders' = holders \ {h}
    /\ UNCHANGED closed

Close ==
    /\ ~closed
    /\ holders = {}
    /\ closed' = TRUE
    /\ UNCHANGED holders

Next == Close \/ \E h \in Handlers : Enter(h) \/ Exit(h)

Spec == Init /\ [][Next]_vars
=============================================================================
