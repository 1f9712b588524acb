--------------------------- MODULE MCSnapshotStore ---------------------------
(***************************************************************************)
(* Three writer threads, two of them in one process, so that calls race    *)
(* for a version name within a process and across processes.               *)
(***************************************************************************)
EXTENDS SnapshotStore, TLC

CONSTANTS w1, w2, w3, p1, p2, v1, v2, a, b

MCWriters == {w1, w2, w3}
MCProcesses == {p1, p2}
MCProcessOf == w1 :> p1 @@ w2 :> p1 @@ w3 :> p2
MCVersions == {v1, v2}
MCSnapshotLogs == {a, b}

\* Threads of one process, version names and logs are interchangeable.
MCSymmetry ==
    Permutations({w1, w2}) \cup Permutations(MCVersions) \cup Permutations(MCSnapshotLogs)
=============================================================================
