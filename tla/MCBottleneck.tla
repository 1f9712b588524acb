---------------------------- MODULE MCBottleneck ----------------------------
(***************************************************************************)
(* Three kinds of input. Queues: three jobs of one or two activities on    *)
(* one resource, with waits that overlap in every way. Lifecycles: one     *)
(* object with four events that start, complete or do neither, two of them *)
(* at one instant. Comparisons: two objects of two types that meet in an   *)
(* event, compared with a baseline, and two hypotheses.                    *)
(***************************************************************************)
EXTENDS BottleneckAnalysis

LifeEvent(id, a, t, lifecycle, attributes) ==
    [id |-> id, activity |-> a, at |-> t, lifecycle |-> lifecycle, attributes |-> attributes]
By(name, who) == [n \in {name} |-> who]
NoAttributes == [n \in {} |-> 0]

\* The consecutive events of a trace.
Journey(object, type, trace) ==
    {[object |-> object, object_type |-> type, source |-> trace[i], target |-> trace[i + 1]] :
         i \in 1 .. Len(trace) - 1}

MCQuestion ==
    [semantic_version |-> "1.0", minimum_support |-> 1, tail |-> <<9, 10>>, slow_threshold |-> Nothing,
     tolerance |-> 0, minimum_batch_size |-> 2, resource_attribute |-> "org",
     calendars |-> [x \in {} |-> 0], hypotheses |-> <<>>]

Input(observations, baseline, request, context) ==
    [observations |-> observations, baseline |-> baseline, request |-> request, context |-> context]

-----------------------------------------------------------------------------
\* A job is ready, starts and completes.
Job(k, a, name, times) ==
    Journey(k, 1, <<LifeEvent(3 * k, 9, times[1], Nothing, NoAttributes),
                    LifeEvent(3 * k + 1, a, times[2], "start", By(name, 1)),
                    LifeEvent(3 * k + 2, a, times[3], "complete", NoAttributes)>>)

MCHours == {<<0, 0, 2>>, <<0, 1, 1>>, <<0, 1, 3>>, <<0, 2, 3>>, <<0, 3, 4>>,
            <<1, 1, 2>>, <<1, 2, 4>>, <<1, 3, 3>>, <<2, 2, 3>>}
MCFirst == {<<0, 0, 2>>, <<0, 1, 3>>, <<0, 3, 4>>, <<1, 2, 4>>}

MCOffice == [x \in {1} |-> <<<<0, 1>>, <<2, 4>>, <<3, 5>>>>]
MCQueueRequests == {MCQuestion,
                    [MCQuestion EXCEPT !.tolerance = 1, !.calendars = MCOffice]}

MCQueues ==
    {Input(Job(1, 1, "org", t) \cup Job(2, 1, "resource", u) \cup Job(3, a, "org", v), Nothing, r, FALSE) :
         t \in MCFirst, u \in MCHours, v \in MCHours, a \in {1, 2}, r \in MCQueueRequests}

\* Four jobs, each waiting for the one before: a chain longer than MaxDepth.
MCChains ==
    {Input(Job(1, 1, "org", <<0, 0, 2>>) \cup Job(2, 1, "org", <<0, 1, 3>>)
             \cup Job(3, 2, "org", t) \cup Job(4, 1, "org", u), Nothing, MCQuestion, FALSE) :
         t \in {<<0, 2, 4>>, <<2, 3, 4>>, <<1, 1, 3>>}, u \in {<<2, 3, 5>>, <<3, 4, 5>>, <<0, 4, 4>>}}

-----------------------------------------------------------------------------
MCPoints == {<<1, "start">>, <<1, "complete">>, <<2, "begin">>, <<2, "suspend">>, <<1, Nothing>>}

MCLifecycles ==
    {Input(Journey(1, 1, <<LifeEvent(1, p[1][1], 0, p[1][2], By("org", 2)),
                           LifeEvent(2, p[2][1], 1, p[2][2], NoAttributes),
                           LifeEvent(4, p[3][1], 1, p[3][2], By("resource", 7)),
                           LifeEvent(5, p[4][1], 2, p[4][2], By("org", 1))>>), Nothing, MCQuestion, FALSE) :
         p \in [1 .. 4 -> MCPoints]}

-----------------------------------------------------------------------------
MCCauses == {[cause_activity |-> 1, cause_attribute |-> Nothing, cause_value |-> Nothing,
              effect_source |-> Nothing, effect_target |-> 3, threshold |-> 1,
              minimum_lag |-> 0, maximum_lag |-> 2],
             [cause_activity |-> 1, cause_attribute |-> "org", cause_value |-> 1,
              effect_source |-> 2, effect_target |-> 3, threshold |-> 0,
              minimum_lag |-> 1, maximum_lag |-> Nothing]}

\* Two objects go through 1, 2, 3; they share the last event, or each has its own.
Meeting(d, e, shared, type) ==
    LET last == 1 + Max({d[1] + d[2], e[1] + e[2]})
        trace(k, f, end) == <<LifeEvent(10 * k, 1, 0, Nothing, By("org", k)),
                              LifeEvent(10 * k + 1, 2, f[1], Nothing, NoAttributes),
                              LifeEvent(10 * k + 2, 2, f[1] + f[2], Nothing, NoAttributes), end>>
        end(k) == LifeEvent(IF shared THEN 9 ELSE 10 * k + 3, 3, last, Nothing, NoAttributes)
    IN Journey(1, 1, trace(1, d, end(1))) \cup Journey(2, type, trace(2, e, end(2)))

MCDelays == {<<0, 0>>, <<0, 2>>, <<1, 1>>, <<2, 0>>}
MCHypotheses == {<<>>} \cup {<<h, g>> : h, g \in MCCauses} \cup {<<h>> : h \in MCCauses}

MCComparisons ==
    {Input(Meeting(d, e, s, type), b, [MCQuestion EXCEPT !.hypotheses = hs], FALSE) :
         d \in MCDelays, e \in {<<0, 2>>, <<1, 1>>}, s \in BOOLEAN, type \in {1, 2},
         b \in {Meeting(<<0, 1>>, <<0, 3>>, FALSE, 1), Nothing}, hs \in MCHypotheses}

\* Requests that validate_request refuses, each for one reason.
MCRefused ==
    LET h == CHOOSE g \in MCCauses : g.effect_source = 2
    IN {[MCQuestion EXCEPT !.semantic_version = "2.0"], [MCQuestion EXCEPT !.tail = <<2, 5>>],
        [MCQuestion EXCEPT !.minimum_support = 0], [MCQuestion EXCEPT !.minimum_batch_size = 1],
        [MCQuestion EXCEPT !.tolerance = -1], [MCQuestion EXCEPT !.slow_threshold = -1],
        [MCQuestion EXCEPT !.calendars = [x \in {1} |-> <<<<2, 2>>>>]],
        [MCQuestion EXCEPT !.hypotheses = <<[h EXCEPT !.cause_value = Nothing]>>],
        [MCQuestion EXCEPT !.hypotheses = <<[h EXCEPT !.maximum_lag = 0]>>]}

\* A context that may be stopped, a slow threshold, a support that some groups lack.
MCSpecial ==
    {Input(Meeting(<<0, 2>>, <<1, 1>>, TRUE, 2) \cup Job(5, 1, "org", <<0, 1, 2>>), Nothing, r, TRUE) :
         r \in MCRefused \cup {[MCQuestion EXCEPT !.minimum_support = 2],
                              [MCQuestion EXCEPT !.slow_threshold = 1]}}

MCInputs == MCQueues \cup (MCComparisons \cup (MCLifecycles \cup (MCChains \cup MCSpecial)))
=============================================================================
