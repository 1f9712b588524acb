-------------------------- MODULE MCConnectionPool --------------------------
(***************************************************************************)
(* Two requests on a pool of two connections (safety) or of one            *)
(* (liveness, where one request has to wait for the other).                *)
(***************************************************************************)
EXTENDS ConnectionPool, TLC

CONSTANTS r1, r2

MCRequests == {r1, r2}

\* Requests are interchangeable (used for the safety run only).
MCSymmetry == Permutations(MCRequests)
=============================================================================
