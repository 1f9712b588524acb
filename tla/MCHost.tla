------------------------------- MODULE MCHost -------------------------------
(***************************************************************************)
(* What the engine reads from outside, side by side: the opening of a      *)
(* snapshot root that writers change, the result cache of the DuckDB       *)
(* provider, the event summaries of pg_ocpm and the binding capsules. They *)
(* share no state, so a behaviour runs one of them; the others stay where  *)
(* they start, with one input of theirs. MCProviderOpen, MCSummaryCache,   *)
(* MCEventSummary and MCBindingCapsule hold the inputs.                    *)
(***************************************************************************)
EXTENDS MCProviderOpen, MCSummaryCache, MCEventSummary, MCBindingCapsule

VARIABLE which          \* the part that is asked for

hostVars == <<which, allVars, cacheVars, summaryVars, capsuleVars>>

\* What the parts that are not asked for are given.
SomeKey == {"k1"}
SomeWindowLog == {CHOOSE l \in MCWindowLogs : TRUE}
SomeCapsule == {CHOOSE c \in MCCapsules : TRUE}

HostInit ==
    /\ which \in {"open", "cache", "summary", "capsule"}
    /\ OpenInit
    /\ CacheFrom(IF which = "cache" THEN Keys ELSE SomeKey)
    /\ SummaryFrom(IF which = "summary" THEN WindowLogs ELSE SomeWindowLog)
    /\ CapsuleFrom(IF which = "capsule" THEN Capsules ELSE SomeCapsule)

HostNext ==
    \/ /\ which = "open" /\ OpenNext
       /\ UNCHANGED <<which, cacheVars, summaryVars, capsuleVars>>
    \/ /\ which = "cache" /\ CacheNext
       /\ UNCHANGED <<which, allVars, summaryVars, capsuleVars>>
    \/ /\ which = "summary" /\ SummaryNext
       /\ UNCHANGED <<which, allVars, cacheVars, capsuleVars>>
    \/ /\ which = "capsule" /\ CapsuleNext
       /\ UNCHANGED <<which, allVars, cacheVars, summaryVars>>

HostSpec == HostInit /\ [][HostNext]_hostVars
=============================================================================
