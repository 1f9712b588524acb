-------------------------- MODULE SnapshotRegistry --------------------------
(***************************************************************************)
(* What the snapshot directory of the DuckDB provider promises to those    *)
(* who open it: versions appear whole and never change, and CURRENT only   *)
(* ever moves to a published version that it has not named before.         *)
(* SnapshotStore, the step-by-step model of the writer, implements it.     *)
(***************************************************************************)
CONSTANTS Versions,     \* version names
          Logs,         \* canonical logs (the contents of a snapshot)
          None          \* "no log", "no version"

VARIABLES published,    \* the log of each version, None when unpublished
          current,      \* the version CURRENT names, None before the first
          retired       \* the versions CURRENT has named and left

registryVars == <<published, current, retired>>

Init ==
    /\ published = [v \in Versions |-> None]
    /\ current = None
    /\ retired = {}

\* A version becomes visible under versions/ in one step, with its whole log.
Publish(v, log) ==
    /\ published[v] = None
    /\ published' = [published EXCEPT ![v] = log]
    /\ UNCHANGED <<current, retired>>

\* CURRENT moves to a published version, and never back to an earlier one.
Advance(v) ==
    /\ published[v] # None
    /\ v \notin retired \cup {current}
    /\ current' = v
    /\ retired' = (retired \cup {current}) \ {None}
    /\ UNCHANGED published

Next ==
    \E v \in Versions :
        \/ \E log \in Logs : Publish(v, log)
        \/ Advance(v)

Spec == Init /\ [][Next]_registryVars
=============================================================================
