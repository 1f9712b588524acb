---------------------------- MODULE MCPrediction ----------------------------
EXTENDS Prediction

Sample(a, t, outcome) == [activity |-> a, at |-> t, outcome |-> outcome]
Run(id, path, pace, outcome, objects) ==
    [id |-> id, objects |-> objects,
     events |-> [i \in DOMAIN path |-> Sample(path[i], pace * i, IF i = Len(path) THEN outcome ELSE NoValue)]]

MCPaths == {<<>>, <<1>>, <<1, 2>>, <<1, 2, 1>>, <<2, 1, 2>>, <<1, 1, 2>>}
MCExecutions == {<<Run(1, a, 3, 1, 1), Run(2, b, 1, 2, 1), Run(3, c, 2, NoValue, 2)>> :
                    a, b, c \in MCPaths}

MCParameters == {[maximum_order |-> o, feature_encoding |-> e, positive_value |-> 1] :
                    o \in {1, 2}, e \in Encodings}
MCDefault == [maximum_order |-> 2, feature_encoding |-> "sequential", positive_value |-> 1]

JobFor(executions, p, target, asked, path, edit, holdout) ==
    [executions |-> executions, parameters |-> p, target |-> target, asked |-> asked, path |-> path,
     objects |-> 1, edit |-> edit, holdout |-> holdout, fit_version |-> "1.0", predict_version |-> "1.0"]

MCPredictions ==
    {JobFor(x, p, t, t, path, "none", NoValue) :
        x \in {y \in MCExecutions : y[1].events # <<>>}, p \in MCParameters,
        t \in {"NextActivity", "RemainingTime", "Outcome"}, path \in {<<>>, <<2, 1>>, <<1, 2>>}}
MCHoldouts ==
    {JobFor(x, p, t, t, <<>>, "none", h) :
        x \in MCExecutions, p \in {MCDefault, [MCDefault EXCEPT !.feature_encoding = "tabular"]},
        t \in {"NextActivity", "RemainingTime", "Risk"}, h \in {<<1, 3>>, <<1, 2>>}}
\* Executions enough for a remaining time to have the documented support.
MCMany ==
    LET x == [n \in 1 .. 21 |-> Run(n, <<1, 2, 1>>, n, 1, 1)]
    IN {JobFor(x, [MCDefault EXCEPT !.feature_encoding = e], "RemainingTime", "RemainingTime",
              path, "none", NoValue) : e \in Encodings, path \in {<<>>, <<1>>, <<1, 2>>, <<2, 1>>}}
MCOdd ==
    LET x == <<Run(1, <<1, 2>>, 1, 1, 1), Run(2, <<2>>, 1, 2, 1)>>
        plain == JobFor(x, MCDefault, "Outcome", "Outcome", <<1>>, "none", NoValue)
    IN {[plain EXCEPT !.edit = "damage"], [plain EXCEPT !.edit = "graph"], [plain EXCEPT !.asked = "Risk"],
        [plain EXCEPT !.edit = "drop"], [plain EXCEPT !.edit = "drop", !.asked = "Risk"],
        [plain EXCEPT !.fit_version = "2.0"], [plain EXCEPT !.predict_version = "2.0"],
        [plain EXCEPT !.parameters.positive_value = -1],
        [plain EXCEPT !.parameters.positive_value = -1, !.holdout = <<1, 2>>],
        [plain EXCEPT !.executions = <<>>], [plain EXCEPT !.parameters.maximum_order = 0],
        [plain EXCEPT !.parameters.feature_encoding = "graph"],
        [plain EXCEPT !.parameters.feature_encoding = "graph", !.holdout = <<1, 2>>],
        [plain EXCEPT !.parameters.positive_value = NoValue], [plain EXCEPT !.holdout = <<1, 1>>],
        [plain EXCEPT !.holdout = <<9, 10>>],
        [plain EXCEPT !.parameters.positive_value = NoValue, !.holdout = <<1, 2>>]}

MCJobs == MCPredictions \cup (MCHoldouts \cup (MCMany \cup MCOdd))
=============================================================================
