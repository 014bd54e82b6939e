---------------------------- MODULE MCHttpClient ----------------------------
(* Instances of HttpClient for the model checker. *)
EXTENDS HttpClient

CONSTANTS c1, c2, c3

\* The second of three connections is created while a timeout is configured;
\* the synchronous interface is used without one.
MCTimed == [m \in Modes |-> IF m = "async" THEN {c2} ELSE {}]
=============================================================================
