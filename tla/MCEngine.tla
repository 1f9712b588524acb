------------------------------ MODULE MCEngine ------------------------------
(***************************************************************************)
(* Engines over local logs and the local provider of one of them, side by  *)
(* side: an engine never changes its log, so they share no state, and a    *)
(* behaviour runs one of them while the other stays where it starts.       *)
(* MCAppendLog and MCLocalExecutions hold the inputs.                      *)
(***************************************************************************)
EXTENDS MCAppendLog, MCLocalExecutions

VARIABLE which          \* the part that is asked for

localVars == <<vars, providerVars>>

\* What the provider is given where only the engines run.
SomeLog == {CHOOSE l \in MCLogs : Valid(l)}
SomeRequest == {CHOOSE r \in MCRequests : r.kind = "connected"}

LocalInit ==
    /\ which \in {"append", "executions"}
    /\ EngineInit
    /\ IF which = "executions" THEN ProviderInit ELSE ProviderFrom(SomeLog, SomeRequest)

LocalNext ==
    \/ which = "append" /\ EngineNext /\ UNCHANGED <<which, localVars>>
    \/ which = "executions" /\ ProviderNext /\ UNCHANGED <<which, engineVars>>

LocalSpec == LocalInit /\ [][LocalNext]_<<which, engineVars, localVars>>
=============================================================================
