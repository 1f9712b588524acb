----------------------------- MODULE Prediction -----------------------------
(***************************************************************************)
(* Predictive monitoring (crates/ocpm-prediction/src/lib.rs): fit counts   *)
(* what follows every context of the executions, the client keeps the      *)
(* artifact, predict backs off to the longest context it knows, and the    *)
(* temporal holdout fits on the executions that complete first and tests   *)
(* on the others. The provider is external. A share is <<count, total>>;   *)
(* the float metrics of an evaluation are left out, its counts are kept.   *)
(***************************************************************************)
EXTENDS Sorting, SequencesExt, FiniteSetsExt

CONSTANTS Jobs,         \* executions, parameters, and what to predict or hold out
          MaxOrder,     \* 32: the largest maximum_order
          NoValue

VARIABLES job,
          step,
          fitted,       \* the artifact
          forecast      \* the result, with the error code that a call returned

predictionVars == <<job, step, fitted, forecast>>

Targets == {"NextActivity", "RemainingTime", "Outcome", "Risk"}

\* Executions: an id, the number of objects, and the events, with times from some origin.
PathEvents == [activity : Int, at : Nat, outcome : Int \cup {NoValue}]
ExecutionRecords == [id : Int, objects : Nat, events : Seq(PathEvents)]

\* What a request gives: typed values, and executions that the provider names apart.
IsJob(j) ==
    /\ j.executions \in Seq(ExecutionRecords)
    /\ \A m, n \in DOMAIN j.executions : m # n => j.executions[m].id # j.executions[n].id
    /\ j.path \in Seq(Int)
    /\ j.parameters.maximum_order \in Nat
    /\ j.target \in Targets /\ j.asked \in Targets
    /\ j.holdout = NoValue \/ (j.holdout[1] \in Int /\ j.holdout[2] \in Int)

ASSUME JobsAssumption == MaxOrder \in Nat /\ NoValue \notin Int /\ \A j \in Jobs : IsJob(j)

ActivityPath(execution) == [i \in DOMAIN execution.events |-> execution.events[i].activity]
Encodings == {"sequential", "tabular"}

\* feature_key, of the last activities of a prefix.
FeatureKey(values, encoding, length, objects) ==
    IF encoding = "tabular"
    THEN <<IF values = <<>> THEN NoValue ELSE Last(values), Len(values), length, objects>>
    ELSE values

\* The contexts of an execution: a position, and how many activities before it count.
ContextsOf(path, maximumOrder) ==
    UNION {{<<i, order>> : order \in 0 .. Min({maximumOrder, i - 1})} : i \in DOMAIN path}

\* Mutation: the context takes in the activity that it is to predict.
SamplesLeaking(executions, p) ==
    UNION {{[execution |-> n, at |-> c[1],
             key |-> LET path == ActivityPath(executions[n])
                     IN FeatureKey(SubSeq(path, c[1] - c[2] + 1, c[1]), p.feature_encoding,
                                   c[1] - 1, executions[n].objects)] :
                c \in ContextsOf(ActivityPath(executions[n]), p.maximum_order)} : n \in DOMAIN executions}

\* Every context with the position it comes before.
Samples(executions, p) ==
    UNION {{[execution |-> n, at |-> c[1],
             key |-> LET path == ActivityPath(executions[n])
                     IN FeatureKey(SubSeq(path, c[1] - c[2], c[1] - 1), p.feature_encoding,
                                   c[1] - 1, executions[n].objects)] :
                c \in ContextsOf(ActivityPath(executions[n]), p.maximum_order)} : n \in DOMAIN executions}

\* The time from an event to the end of its execution, from 0.
RemainingAt(execution, i) == Max({Last(execution.events).at - execution.events[i].at, 0})

\* Whether the last event has the positive value, if it has the attribute.
OutcomeOf(execution, p) ==
    LET value == Last(execution.events).outcome
    IN IF p.positive_value = NoValue \/ execution.events = <<>> \/ value = NoValue THEN NoValue
       ELSE value = p.positive_value

\* The values of a function in increasing order, one for each element of its domain.
Ascending(value) ==
    LET S == DOMAIN value
        upTo(x) == Cardinality({s \in S : value[s] <= x})
    IN [k \in 1 .. Cardinality(S) |-> Min({value[s] : s \in {t \in S : upTo(value[t]) >= k}})]

\* quantile: the nearest position, for 5 and 95 percent.
Lower(values) == values[(2 * (Len(values) - 1) + 20) \div 40 + 1]
Upper(values) == values[(38 * (Len(values) - 1) + 20) \div 40 + 1]

\* build_artifact. The remaining times are kept whole, their summary is taken from them.
BuildArtifact(executions, p, target) ==
    LET samples == Samples(executions, p)
        withOutcome == {s \in samples : OutcomeOf(executions[s.execution], p) # NoValue}
        keys(S) == {s.key : s \in S}
        of(S, k) == {s \in S : s.key = k}
        next(s) == executions[s.execution].events[s.at].activity
    IN [target |-> target, maximum_order |-> p.maximum_order, feature_encoding |-> p.feature_encoding,
        next_counts |-> [k \in keys(samples) |->
            [a \in {next(s) : s \in of(samples, k)} |->
                Cardinality({s \in of(samples, k) : next(s) = a})]],
        remaining |-> [k \in keys(samples) |->
            Ascending([s \in of(samples, k) |-> RemainingAt(executions[s.execution], s.at)])],
        binary |-> [k \in keys(withOutcome) |->
            <<Cardinality({s \in of(withOutcome, k) : OutcomeOf(executions[s.execution], p)}),
              Cardinality(of(withOutcome, k))>>]]

\* The contexts an artifact can answer a target for.
Known(artifact, target) ==
    CASE target = "NextActivity" -> DOMAIN artifact.next_counts
      [] target = "RemainingTime" -> DOMAIN artifact.remaining
      [] target \in {"Outcome", "Risk"} -> DOMAIN artifact.binary

\* The context of an order at the end of a path.
SuffixKey(path, order, artifact, objects) ==
    FeatureKey(SubSeq(path, Len(path) - order + 1, Len(path)), artifact.feature_encoding,
               Len(path), objects)

\* backoff_key: the longest context that is known.
BackoffOrder(path, objects, artifact, target) ==
    LET orders == {o \in 0 .. Min({artifact.maximum_order, Len(path)}) :
                      SuffixKey(path, o, artifact, objects) \in Known(artifact, target)}
    IN IF orders = {} THEN NoValue ELSE Max(orders)

-----------------------------------------------------------------------------
Sealed(content) == [schema_version |-> "1.0", content |-> content, content_hash |-> content]

PredictionFrom(jobs) ==
    /\ job \in jobs
    /\ step = IF job.holdout = NoValue THEN "fit" ELSE "evaluate"
    /\ fitted = NoValue
    /\ forecast = [code |-> "none", value |-> NoValue]

PredictionInit == PredictionFrom(Jobs)

Answer(value) == forecast' = [code |-> "ok", value |-> value] /\ step' = "done"
Error(code) == forecast' = [code |-> code, value |-> NoValue] /\ step' = "done"

\* json_attribute: a positive value that is no scalar (negative here) is refused.
Scalar(value) == value = NoValue \/ value >= 0

\* fit. The request is looked at before the provider is asked, the value after it.
Fit ==
    /\ step = "fit"
    /\ LET p == job.parameters
           valid == /\ job.fit_version = "1.0"
                    /\ p.maximum_order \in 1 .. MaxOrder /\ p.feature_encoding \in Encodings
       IN \/ ~valid /\ Error("InvalidRequest") /\ UNCHANGED fitted
          \/ valid /\ Error("ProviderError") /\ UNCHANGED fitted
          \/ valid /\ job.executions = <<>> /\ Error("InsufficientData") /\ UNCHANGED fitted
          \/ /\ valid /\ job.executions # <<>>
             /\ IF Scalar(p.positive_value)
                THEN /\ fitted' = Sealed(BuildArtifact(job.executions, p, job.target))
                     /\ step' = "keep" /\ UNCHANGED forecast
                ELSE Error("InvalidRequest") /\ UNCHANGED fitted
    /\ UNCHANGED job

\* The client keeps the artifact, changes it or asks without one.
KeepArtifact ==
    /\ step = "keep"
    /\ fitted' = CASE job.edit = "damage" -> [fitted EXCEPT !.content.maximum_order = @ + 1]
                   [] job.edit = "graph" -> Sealed([fitted.content EXCEPT !.feature_encoding = "graph"])
                   [] job.edit = "drop" -> NoValue
                   [] OTHER -> fitted
    /\ step' = "predict"
    /\ UNCHANGED <<job, forecast>>

\* validate.
Usable(artifact) ==
    /\ artifact.schema_version = "1.0"
    /\ artifact.content_hash = artifact.content
    /\ artifact.content.feature_encoding \in Encodings

\* The candidates with their shares, or the mean and the interval.
Predicted(artifact, target, key) ==
    LET counts == artifact.next_counts[key]
        values == artifact.remaining[key]
    IN CASE target = "NextActivity" ->
                [support |-> SumFunction(counts), candidates |-> counts]
         [] target = "RemainingTime" ->
                [support |-> Len(values), mean |-> <<FoldLeft(+, 0, values), Len(values)>>,
                 interval |-> <<Lower(values), Upper(values)>>]
         [] target \in {"Outcome", "Risk"} ->
                [support |-> artifact.binary[key][2], positive |-> artifact.binary[key]]

\* The artifact of a prediction: without one, predict fits its own, for what is asked.
Used ==
    IF fitted # NoValue THEN fitted
    ELSE Sealed(BuildArtifact(job.executions, job.parameters, job.asked))

\* predict.
Predict ==
    /\ step = "predict"
    /\ LET artifact == Used.content
           order == BackoffOrder(job.path, job.objects, artifact, job.asked)
           key == SuffixKey(job.path, order, artifact, job.objects)
       IN IF job.predict_version # "1.0" THEN Error("InvalidRequest")
          ELSE IF ~Usable(Used) \/ artifact.target # job.asked THEN Error("ArtifactIncompatible")
          ELSE IF order = NoValue THEN Error("InsufficientData")
          ELSE Answer([order |-> order, prediction |-> Predicted(artifact, job.asked, key)])
    /\ UNCHANGED <<job, fitted>>

\* Without an artifact the provider is asked again, and may fail now.
PredictFails ==
    /\ step = "predict" /\ job.predict_version = "1.0" /\ fitted = NoValue
    /\ Error("ProviderError")
    /\ UNCHANGED <<job, fitted>>

-----------------------------------------------------------------------------
\* evaluate_temporal_holdout.

\* The executions by completion, then by id; one without events comes first.
CompletedAt(execution) == IF execution.events = <<>> THEN -1 ELSE Last(execution.events).at

CompletionOrder(executions) ==
    {ij \in (DOMAIN executions) \X (DOMAIN executions) :
        LET first == executions[ij[1]]
            second == executions[ij[2]]
        IN \/ CompletedAt(first) < CompletedAt(second)
           \/ CompletedAt(first) = CompletedAt(second) /\ first.id < second.id}

ByCompletion(executions) ==
    LET order == Ranked(DOMAIN executions, CompletionOrder(executions))
    IN [k \in DOMAIN order |-> executions[order[k]]]

\* The most frequent activity, the first one of equals.
Winner(counts) ==
    CHOOSE a \in DOMAIN counts :
        \A b \in DOMAIN counts \ {a} : counts[a] > counts[b] \/ (counts[a] = counts[b] /\ a < b)

\* The events of executions, each with its execution.
Positions(executions) == UNION {{n} \X DOMAIN executions[n].events : n \in DOMAIN executions}

\* The test prefixes that the artifact can answer, and that have an answer to compare.
Evaluated(tests, artifact, target, p) ==
    {x \in Positions(tests) :
        /\ BackoffOrder(SubSeq(ActivityPath(tests[x[1]]), 1, x[2] - 1), tests[x[1]].objects,
                        artifact, target) # NoValue
        /\ target \in {"Outcome", "Risk"} => OutcomeOf(tests[x[1]], p) # NoValue}

\* Whether the answer for a test prefix is right, or its interval holds the truth.
Hit(tests, artifact, target, n, i) ==
    LET path == SubSeq(ActivityPath(tests[n]), 1, i - 1)
        order == BackoffOrder(path, tests[n].objects, artifact, target)
        key == SuffixKey(path, order, artifact, tests[n].objects)
        actual == Last(tests[n].events).at - tests[n].events[i].at
    IN CASE target = "NextActivity" -> Winner(artifact.next_counts[key]) = tests[n].events[i].activity
         [] target = "RemainingTime" -> /\ actual >= Lower(artifact.remaining[key])
                                        /\ actual <= Upper(artifact.remaining[key])
         [] OTHER -> FALSE

\* How many executions to learn from. The fraction is holdout[1] / holdout[2]; its product
\* with a length, of floats, may fall just short of a whole number.
Splits(n, holdout) ==
    LET exact == n * (holdout[2] - holdout[1])
    IN {k \in 0 .. n : /\ k * holdout[2] <= exact
                       /\ \/ exact < (k + 1) * holdout[2]
                          \/ exact = (k + 1) * holdout[2] /\ holdout[1] # 0}

Evaluate ==
    /\ step = "evaluate"
    /\ LET p == job.parameters
           ordered == ByCompletion(job.executions)
           n == Len(ordered)
           valid == job.holdout[1] \in 0 .. job.holdout[2] - 1
       IN \/ ~valid /\ Error("InvalidRequest") /\ UNCHANGED fitted
          \/ valid /\ Error("ProviderError") /\ UNCHANGED fitted
          \/ /\ valid
             /\ \E split \in Splits(n, job.holdout) :
                  LET tests == SubSeq(ordered, split + 1, n)
                      artifact == BuildArtifact(SubSeq(ordered, 1, split), p, job.target)
                      evaluated == Evaluated(tests, artifact, job.target, p)
                  IN IF split = 0 \/ split >= n THEN Error("InsufficientData") /\ UNCHANGED fitted
                     ELSE IF p.feature_encoding \notin Encodings \/ ~Scalar(p.positive_value)
                     THEN Error("InvalidRequest") /\ UNCHANGED fitted
                     ELSE /\ fitted' = Sealed(artifact)
                          /\ IF evaluated = {} THEN Error("InsufficientData")
                             ELSE Answer([train |-> SubSeq(ordered, 1, split), test |-> tests,
                                          evaluated |-> Cardinality(evaluated),
                                          hits |-> Cardinality({e \in evaluated :
                                             Hit(tests, artifact, job.target, e[1], e[2])})])
    /\ UNCHANGED job

PredictionNext == Fit \/ KeepArtifact \/ Predict \/ PredictFails \/ Evaluate

PredictionSpec == PredictionInit /\ [][PredictionNext]_predictionVars

-----------------------------------------------------------------------------
\* Properties.

\* Where the last activities of the asked path, so many of them, occur in a training path.
Occurrences(j, order) ==
    LET asked == SubSeq(j.path, Len(j.path) - order + 1, Len(j.path))
        matches(e, i) == IF j.parameters.feature_encoding = "sequential"
                         THEN SubSeq(ActivityPath(e), i - order, i - 1) = asked
                         ELSE /\ i = Len(j.path) + 1 /\ e.objects = j.objects
                              /\ order > 0 => ActivityPath(e)[i - 1] = Last(j.path)
    IN {x \in Positions(j.executions) : x[2] > order /\ matches(j.executions[x[1]], x[2])}

\* Those that tell what is asked.
Answering(j, order) ==
    {x \in Occurrences(j, order) :
        j.asked \in {"Outcome", "Risk"} => OutcomeOf(j.executions[x[1]], j.parameters) # NoValue}

\* At most 5 percent of the remaining times lie below an interval, and above it.
CoversRemaining(j, order, prediction) ==
    LET outside(test(_)) == Cardinality({x \in Answering(j, order) :
                                test(RemainingAt(j.executions[x[1]], x[2]))})
        few(k) == 20 * k <= prediction.support + 9
    IN /\ few(outside(LAMBDA t : t < prediction.interval[1]))
       /\ few(outside(LAMBDA t : t > prediction.interval[2]))

\* The provider specification asks for this much support before an answer about the
\* remaining time is used (docs/ocpm-engine-1.0.0-spec.md:714-716).
DocumentedSupport == 20

\* Every activity that followed is a candidate, no candidate is foreign to the executions,
\* and one that followed more often has the larger share.
RanksFollowing(j, positions, candidates) ==
    LET activity(x) == j.executions[x[1]].events[x[2]].activity
        followed(a) == Cardinality({x \in positions : activity(x) = a})
        seen == {activity(x) : x \in positions}
    IN /\ seen \subseteq DOMAIN candidates
       /\ DOMAIN candidates \subseteq {activity(x) : x \in Positions(j.executions)}
       /\ \A a, b \in seen : candidates[a] > candidates[b] <=> followed(a) > followed(b)

\* What is said of a next activity, and of a remaining time with the documented support.
\* An outcome or a risk is not spoken of, nor what is answered without any context.
AnswersContext(j, answer) ==
    LET order == answer.order
        prediction == answer.prediction
        limit == Min({j.parameters.maximum_order, Len(j.path)})
    IN \/ j.asked = "NextActivity"
       \/ j.asked = "RemainingTime" /\ prediction.support >= DocumentedSupport
       =>
       /\ \A o \in order + 1 .. limit : Answering(j, o) = {}
       /\ order > 0 =>
            /\ prediction.support = Cardinality(Answering(j, order))
            /\ j.asked = "NextActivity" =>
                   RanksFollowing(j, Answering(j, order), prediction.candidates)
            /\ j.asked = "RemainingTime" => CoversRemaining(j, order, prediction)

\* A prediction is what the executions show after the longest context, within the limit,
\* that occurs in them: as many positions as it says, none beyond the context, ranked or
\* ordered as they are (fit against predict, through feature_key and backoff_key).
PredictionFromContext ==
    step = "done" /\ forecast.code = "ok" /\ job.holdout = NoValue =>
        AnswersContext(job, forecast.value)

\* When an execution begins; one without events comes first.
BeganAt(execution) == IF execution.events = <<>> THEN -1 ELSE execution.events[1].at

\* The executions follow one another in the same order by their first and last events.
Chronological(executions) ==
    \A m, n \in DOMAIN executions :
        BeganAt(executions[m]) < BeganAt(executions[n]) =>
            CompletedAt(executions[m]) < CompletedAt(executions[n])

TestsLater(j, answer) ==
    LET train == answer.train
        test == answer.test
    IN /\ ToSet(train) \cup ToSet(test) = ToSet(j.executions)
       /\ Len(train) + Len(test) = Len(j.executions)
       /\ Chronological(j.executions) =>
              \A e \in ToSet(train), f \in ToSet(test) :
                  BeganAt(e) <= BeganAt(f) /\ CompletedAt(e) <= CompletedAt(f)
       /\ answer.hits <= answer.evaluated
       /\ j.parameters.feature_encoding = "sequential" /\ j.target = "NextActivity"
            /\ (\E e \in ToSet(train) : e.events # <<>>) =>
              answer.evaluated = SumFunction([n \in DOMAIN test |-> Len(test[n].events)])

\* The holdout keeps every execution on one side, with sequences it answers every test
\* prefix, and where first and last events agree on the order of the executions, it
\* learns from none that begins or completes after one that it is tested on
\* (evaluate_temporal_holdout, "the model is fit only on the earlier partition").
HoldoutIsLater ==
    step = "done" /\ forecast.code = "ok" /\ job.holdout # NoValue =>
        TestsLater(job, forecast.value)

\* What a fitted artifact answers is what the executions show, and what is measured on
\* it comes later.
PredictionSound == PredictionFromContext /\ HoldoutIsLater
=============================================================================
