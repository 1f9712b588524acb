--------------------------- MODULE MCProviderOpen ---------------------------
(***************************************************************************)
(* Two writer processes publish while one provider opens a pool of two.    *)
(***************************************************************************)
EXTENDS ProviderOpen, TLC

CONSTANTS w1, w2, p1, p2, v1, v2, a, b, r1

MCWriters == {w1, w2}
MCProcesses == {p1, p2}
MCProcessOf == w1 :> p1 @@ w2 :> p2
MCVersions == {v1, v2}
MCSnapshotLogs == {a, b}
MCOpeners == {r1}

\* Version names and logs are interchangeable.
MCSymmetry == Permutations(MCVersions) \cup Permutations(MCSnapshotLogs)
=============================================================================
