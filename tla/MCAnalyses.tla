----------------------------- MODULE MCAnalyses -----------------------------
(***************************************************************************)
(* What is computed from the executions of a log, side by side: the scans  *)
(* of the DuckDB provider, which find and summarize them, and the four     *)
(* analyses that ocpm-engine hands a request to. They share no state, so a *)
(* behaviour runs one of them; the others stay where they start, with one  *)
(* input of theirs. MCExecutionScan, MCBottleneck, MCModelLifecycle,       *)
(* MCPrediction and MCEnhancement hold the inputs.                         *)
(***************************************************************************)
EXTENDS MCExecutionScan, MCBottleneck, MCModelLifecycle, MCPrediction, MCEnhancement

VARIABLE which          \* the part that is asked for

analysesVars == <<which, scanVars, bottleneckVars, modelVars, predictionVars, enhancementVars>>

\* What the parts that are not asked for are given.
SomeLog == {CHOOSE l \in CanonicalLogs : TRUE}
SomeRequest == {CHOOSE r \in MCRequests : r.layout = "canonical_v1"}
SomeInput == {CHOOSE x \in MCInputs : TRUE}
SomeTask == {CHOOSE x \in MCTasks : TRUE}
SomeJob == {CHOOSE x \in MCJobs : TRUE}
SomeStudy == {CHOOSE x \in MCStudies : TRUE}

AnalysesInit ==
    /\ which \in {"scan", "bottleneck", "model", "prediction", "enhancement"}
    /\ IF which = "scan" THEN ScanFrom(Logs, Requests) ELSE ScanFrom(SomeLog, SomeRequest)
    /\ BottleneckFrom(IF which = "bottleneck" THEN Inputs ELSE SomeInput)
    /\ ModelFrom(IF which = "model" THEN Tasks ELSE SomeTask)
    /\ PredictionFrom(IF which = "prediction" THEN Jobs ELSE SomeJob)
    /\ EnhancementFrom(IF which = "enhancement" THEN Studies ELSE SomeStudy)

AnalysesNext ==
    \/ /\ which = "scan" /\ ScanNext
       /\ UNCHANGED <<which, bottleneckVars, modelVars, predictionVars, enhancementVars>>
    \/ /\ which = "bottleneck" /\ BottleneckNext
       /\ UNCHANGED <<which, scanVars, modelVars, predictionVars, enhancementVars>>
    \/ /\ which = "model" /\ ModelNext
       /\ UNCHANGED <<which, scanVars, bottleneckVars, predictionVars, enhancementVars>>
    \/ /\ which = "prediction" /\ PredictionNext
       /\ UNCHANGED <<which, scanVars, bottleneckVars, modelVars, enhancementVars>>
    \/ /\ which = "enhancement" /\ EnhancementNext
       /\ UNCHANGED <<which, scanVars, bottleneckVars, modelVars, predictionVars>>

AnalysesSpec == AnalysesInit /\ [][AnalysesNext]_analysesVars
=============================================================================
