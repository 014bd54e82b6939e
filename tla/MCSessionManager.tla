-------------------------- MODULE MCSessionManager --------------------------
(***************************************************************************)
(* SessionManager for TLC: the requests, the session objects and the ids   *)
(* are interchangeable.                                                    *)
(***************************************************************************)
EXTENDS SessionManager, TLC

Symmetry == Permutations(Workers) \cup Permutations(Sessions) \cup Permutations(Ids)
=============================================================================
