---------------------------- MODULE Enhancement -----------------------------
(***************************************************************************)
(* Process enhancement (crates/ocpm-enhancement/src/lib.rs): the process   *)
(* map, the timeline, the histogram of cycle times, the performance        *)
(* measures, rework, handovers and drift of a set of executions. The       *)
(* provider is external and returns the events of an execution in order.   *)
(* A measure is kept as the list of its spans <<start, end>>; a mean is    *)
(* <<total, support>>, a share <<count, total>>. The logarithms of the     *)
(* Jensen-Shannon divergence are left out, the shares it takes are kept.   *)
(***************************************************************************)
EXTENDS Integers, Sequences, SequencesExt, FiniteSets, FiniteSetsExt, Folds, Functions

CONSTANTS Studies,      \* executions, comparison, kind and semantic_version
          Bins,         \* 10: bins of a histogram
          Missing       \* an option that is not given

VARIABLES study,
          gathered,     \* "ask", "compare" or "done"
          measured      \* the result, with the code that enhance returned

enhancementVars == <<study, gathered, measured>>

EnhancementKinds == {"ProcessMap", "Timeline", "Histogram", "Performance", "Rework", "Organizational",
          "WindowComparison", "Drift"}
Comparisons == {"WindowComparison", "Drift"}

Pairs(s) == IF s = <<>> THEN <<>> ELSE [i \in 1 .. Len(s) - 1 |-> <<s[i], s[i + 1]>>]
Count(s) == [x \in ToSet(s) |-> Cardinality({i \in DOMAIN s : s[i] = x})]
Over(executions, list(_)) == FlattenSeq([n \in DOMAIN executions |-> list(executions[n])])
Activities(execution) == [i \in DOMAIN execution.events |-> execution.events[i].activity]

-----------------------------------------------------------------------------
\* duration_seconds: a span that ends before it starts is invalid data.
Backwards(spans) == \E p \in spans : p[2] < p[1]
Lengths(spans) == [i \in DOMAIN spans |-> spans[i][2] - spans[i][1]]
Total(values) == FoldLeft(+, 0, values)

\* metric. The median is doubled.
Metric(values) ==
    LET sorted == SortSeq(values, <)
        n == Len(values)
    IN IF values = <<>> THEN [support |-> 0]
       ELSE [support |-> n, mean |-> <<Total(values), n>>, minimum |-> sorted[1], maximum |-> sorted[n],
             median |-> IF n % 2 = 0 THEN sorted[n \div 2] + sorted[n \div 2 + 1]
                        ELSE 2 * sorted[n \div 2 + 1]]

\* mean: of nothing, there is none.
Mean(values) == IF values = <<>> THEN Missing ELSE <<Total(values), Len(values)>>

\* The spans between the consecutive events of an execution, and from the first to the last.
Steps(execution) ==
    [i \in DOMAIN Pairs(execution.events) |-> <<execution.events[i].at, execution.events[i + 1].at>>]
CycleSpans(execution) ==
    IF execution.events = <<>> THEN <<>>
    ELSE <<<<execution.events[1].at, Last(execution.events).at>>>>

\* The spans of every pair of activities that follow each other.
EdgeSpans(executions) ==
    LET steps == Over(executions, LAMBDA x : Steps(x))
        edges == Over(executions, LAMBDA x : Pairs(Activities(x)))
        at(e) == SetToSortSeq({i \in DOMAIN edges : edges[i] = e}, <)
    IN [e \in ToSet(edges) |-> [k \in DOMAIN at(e) |-> steps[at(e)[k]]]]

\* A result, or the error of a span that runs backwards.
Measures(spans, result) ==
    IF Backwards(spans) THEN [code |-> "InvalidData"] ELSE [code |-> "ok", result |-> result]

\* process_map.
ProcessMap(executions) ==
    LET edges == EdgeSpans(executions)
    IN Measures(ToSet(Over(executions, LAMBDA x : Steps(x))),
                [support |-> Cardinality(DOMAIN edges),
                 edges |-> [e \in DOMAIN edges |->
                     [frequency |-> Len(edges[e]), duration |-> Metric(Lengths(edges[e]))]]])

\* timeline.
Timeline(executions) ==
    LET rows == Over(executions, LAMBDA x : [i \in DOMAIN x.events |->
                    [execution |-> x.id, event |-> x.events[i].id, activity |-> x.events[i].activity,
                     timestamp |-> x.events[i].at, objects |-> x.events[i].objects]])
    IN Measures({}, [support |-> Len(rows), dotted_chart |-> rows])

\* histogram: equal bins, the last one closed; the width is never zero.
BinOf(value, minimum, maximum) ==
    IF maximum = minimum THEN 1
    ELSE Min({((value - minimum) * Bins) \div (maximum - minimum), Bins - 1}) + 1

Histogram(executions) ==
    LET spans == Over(executions, LAMBDA x : CycleSpans(x))
        values == Lengths(spans)
        low == Min(ToSet(values))
        high == Max(ToSet(values))
    IN Measures(ToSet(spans),
           IF values = <<>> THEN [cycle |-> Metric(<<>>), warning |-> TRUE]
           ELSE [cycle |-> Metric(values), warning |-> FALSE,
                 bins |-> [b \in 1 .. Bins |->
                     Cardinality({i \in DOMAIN values : BinOf(values[i], low, high) = b})]])

-----------------------------------------------------------------------------
\* performance: one pass over the events of an execution.

PerformanceStart ==
    [starts |-> <<>>, previous |-> Missing, ready |-> <<>>, service |-> <<>>, waiting |-> <<>>,
     sojourn |-> <<>>, synchronization |-> <<>>, pooling |-> <<>>, lagging |-> <<>>, flow |-> <<>>]

\* event_object_ids, or the objects of the execution when the event is not listed.
Involved(execution, event) == IF event.objects = Missing THEN execution.objects ELSE event.objects

\* How long the objects of an event that took part in an earlier one have been ready.
ObjectSpans(s, involved, at) ==
    LET known == SetToSortSeq({o \in involved : o \in DOMAIN s.ready}, <)
        times == [k \in DOMAIN known |-> s.ready[known[k]]]
        first == Min(ToSet(times))
        last == Max(ToSet(times))
    IN IF times = <<>> THEN s
       ELSE [s EXCEPT !.synchronization = IF Len(times) > 1 THEN Append(@, <<first, last>>) ELSE @,
                      !.pooling = Append(@, <<last, at>>),
                      !.lagging = Append(@, <<first, at>>),
                      !.flow = @ \o [k \in DOMAIN times |-> <<times[k], at>>]]

\* Mutation: an object stays ready from its first event on.
MadeReadyOnce(s, involved, at) ==
    [s EXCEPT !.ready = [o \in DOMAIN s.ready \cup involved |->
                            IF o \in DOMAIN s.ready THEN s.ready[o] ELSE at]]

\* An object is ready again with every event it takes part in.
MadeReady(s, involved, at) ==
    [s EXCEPT !.ready = [o \in DOMAIN s.ready \cup involved |->
                            IF o \in involved THEN at ELSE s.ready[o]]]

\* The starts of an activity that wait for their completion, the oldest first.
Open(s, a) == IF a \in DOMAIN s.starts THEN s.starts[a] ELSE <<>>
WithOpen(s, a, queue) ==
    [s EXCEPT !.starts = [b \in DOMAIN s.starts \cup {a} |-> IF b = a THEN queue ELSE s.starts[b]]]

\* A completion takes the oldest start of its activity, and waited since the completion before it.
Completed(s, event) ==
    LET queue == Open(s, event.activity)
        start == Head(queue)
        taken == WithOpen(s, event.activity, Tail(queue))
        served == [taken EXCEPT !.service = Append(@, <<start, event.at>>)]
        waited == [served EXCEPT !.waiting = Append(@, <<s.previous, start>>),
                                 !.sojourn = Append(@, <<s.previous, event.at>>)]
        matched == IF queue = <<>> THEN s ELSE IF s.previous = Missing THEN served ELSE waited
    IN [matched EXCEPT !.previous = event.at]

Lived(s, event) ==
    CASE event.lifecycle = "start" ->
             WithOpen(s, event.activity, Append(Open(s, event.activity), event.at))
      [] event.lifecycle = "complete" -> Completed(s, event)
      [] OTHER -> s

PerformanceOf(execution) ==
    FoldLeft(LAMBDA s, event :
                LET involved == Involved(execution, event)
                IN Lived(MadeReady(ObjectSpans(s, involved, event.at), involved, event.at), event),
             PerformanceStart, execution.events)

\* The edges by falling mean duration, then by name.
SlowerEdge(edges, e, f) ==
    LET total(x) == Total(Lengths(edges[x]))
        left == total(e) * Len(edges[f])
        right == total(f) * Len(edges[e])
    IN \/ left > right
       \/ left = right /\ (e[1] < f[1] \/ (e[1] = f[1] /\ e[2] < f[2]))

Performance(executions) ==
    LET passes == [n \in DOMAIN executions |-> PerformanceOf(executions[n])]
        measures == {"service", "waiting", "sojourn", "synchronization", "pooling", "lagging", "flow"}
        spans == [m \in measures |-> FlattenSeq([n \in DOMAIN passes |-> passes[n][m]])]
        steps == Over(executions, LAMBDA x : Steps(x))
        cycles == Over(executions, LAMBDA x : CycleSpans(x))
        edges == EdgeSpans(executions)
    IN Measures(ToSet(steps) \cup ToSet(cycles) \cup UNION {ToSet(spans[m]) : m \in measures},
           [directly_follows |-> Metric(Lengths(steps)), cycle |-> Metric(Lengths(cycles)),
            measure |-> [m \in measures |-> Metric(Lengths(spans[m]))],
            edges |-> [e \in DOMAIN edges |-> Metric(Lengths(edges[e]))],
            bottlenecks |-> SetToSortSeq(DOMAIN edges, LAMBDA e, f : SlowerEdge(edges, e, f)),
            warning |-> spans["service"] = <<>>])

-----------------------------------------------------------------------------
\* rework: every occurrence of an activity after its first one in the execution.
Repeated(execution) ==
    LET counts == Count(Activities(execution)) IN [a \in DOMAIN counts |-> counts[a] - 1]

Rework(executions) ==
    LET repeated == [n \in DOMAIN executions |-> Repeated(executions[n])]
        all == UNION {DOMAIN repeated[n] : n \in DOMAIN repeated}
    IN Measures({},
           [per_execution |-> Metric([n \in DOMAIN repeated |->
                                         MapThenSumSet(LAMBDA a : repeated[n][a], DOMAIN repeated[n])]),
            by_activity |-> [a \in all |-> MapThenSumSet(LAMBDA n : repeated[n][a],
                                                {n \in DOMAIN repeated : a \in DOMAIN repeated[n]})]])

\* organizational: the events without a resource drop out of the path.
Staff(execution) == SelectSeq(execution.events, LAMBDA e : e.resource # Missing)
ResourcePath(execution) == [i \in DOMAIN Staff(execution) |-> Staff(execution)[i].resource]

Organizational(executions) ==
    LET staffed == Over(executions, LAMBDA x : Staff(x))
        resources == Count([i \in DOMAIN staffed |-> staffed[i].resource])
    IN Measures({},
           [workload |-> Metric([i \in 1 .. Cardinality(DOMAIN resources) |->
                                    resources[SetToSortSeq(DOMAIN resources, <)[i]]]),
            resources |-> resources,
            handovers |-> Count(Over(executions, LAMBDA x : Pairs(ResourcePath(x)))),
            resource_activities |-> Count([i \in DOMAIN staffed |->
                                              <<staffed[i].resource, staffed[i].activity>>]),
            resource_executions |-> [r \in DOMAIN resources |->
                {executions[n].id : n \in {m \in DOMAIN executions :
                                              r \in ToSet(ResourcePath(executions[m]))}}],
            missing |-> Len(Over(executions, LAMBDA x : x.events)) - Len(staffed)])

-----------------------------------------------------------------------------
\* distribution_drift, over the labels of either side. A side without any has share zero.
Share(counts, label) ==
    <<IF label \in DOMAIN counts THEN counts[label] ELSE 0,
      MapThenSumSet(LAMBDA l : counts[l], DOMAIN counts)>>

DistributionDrift(baseline, comparison) ==
    [support |-> Share(baseline, Missing)[2] + Share(comparison, Missing)[2],
     shares |-> [label \in DOMAIN baseline \cup DOMAIN comparison |->
                    [baseline |-> Share(baseline, label), comparison |-> Share(comparison, label)]]]

\* activity_counts, dfg_counts and variant_counts.
ActivityCounts(executions) == Count(Over(executions, LAMBDA x : Activities(x)))
DfgCounts(executions) == Count(Over(executions, LAMBDA x : Pairs(Activities(x))))
VariantCounts(executions) == Count([n \in DOMAIN executions |-> Activities(executions[n])])

DriftOf(baseline, comparison) ==
    LET cycles(executions) == Over(executions, LAMBDA x : CycleSpans(x))
        before == Lengths(cycles(baseline))
        after == Lengths(cycles(comparison))
    IN Measures(ToSet(cycles(baseline)) \cup ToSet(cycles(comparison)),
           [activity |-> DistributionDrift(ActivityCounts(baseline), ActivityCounts(comparison)),
            dfg |-> DistributionDrift(DfgCounts(baseline), DfgCounts(comparison)),
            variant |-> DistributionDrift(VariantCounts(baseline), VariantCounts(comparison)),
            support |-> Len(before) + Len(after),
            delta |-> IF Missing \in {Mean(before), Mean(after)} THEN Missing
                      ELSE <<Mean(after), Mean(before)>>])

-----------------------------------------------------------------------------
\* enhance.
EnhancementFrom(studies) ==
    /\ study \in studies
    /\ gathered = "ask"
    /\ measured = [code |-> "none"]

EnhancementInit == EnhancementFrom(Studies)

Finished(outcome) == measured' = outcome /\ gathered' = "done" /\ UNCHANGED study
Rejected(code) == Finished([code |-> code])

\* The version is looked at first, then the provider is asked.
RejectVersion == gathered = "ask" /\ study.semantic_version # "1.0" /\ Rejected("InvalidRequest")

ProviderFails ==
    /\ gathered = "ask" => study.semantic_version = "1.0"
    /\ gathered \in {"ask", "compare"}
    /\ Rejected("ProviderError")

Measure ==
    /\ gathered = "ask" /\ study.semantic_version = "1.0" /\ study.kind \notin Comparisons
    /\ Finished(CASE study.kind = "ProcessMap" -> ProcessMap(study.executions)
                  [] study.kind = "Timeline" -> Timeline(study.executions)
                  [] study.kind = "Histogram" -> Histogram(study.executions)
                  [] study.kind = "Performance" -> Performance(study.executions)
                  [] study.kind = "Rework" -> Rework(study.executions)
                  [] study.kind = "Organizational" -> Organizational(study.executions))

\* A comparison asks the provider once more, if there is a second view.
AskComparison ==
    /\ gathered = "ask" /\ study.semantic_version = "1.0" /\ study.kind \in Comparisons
    /\ \/ study.comparison = Missing /\ Rejected("InvalidRequest")
       \/ study.comparison # Missing /\ gathered' = "compare" /\ UNCHANGED <<study, measured>>

MeasureDrift == gathered = "compare" /\ Finished(DriftOf(study.executions, study.comparison))

EnhancementNext == RejectVersion \/ ProviderFails \/ Measure \/ AskComparison \/ MeasureDrift

EnhancementSpec == EnhancementInit /\ [][EnhancementNext]_enhancementVars

-----------------------------------------------------------------------------
\* Properties.

Events(executions) == Over(executions, LAMBDA x : x.events)
SumOver(f) == MapThenSumSet(LAMBDA x : f[x], DOMAIN f)
TotalOf(metric) == IF metric.support = 0 THEN 0 ELSE metric.mean[1]

\* A number summed over all events, each as its execution and its position.
SumOverEvents(executions, value(_, _)) ==
    MapThenSumSet(LAMBDA e : value(executions[e[1]], e[2]),
                  UNION {{n} \X DOMAIN executions[n].events : n \in DOMAIN executions})

\* When the objects of an event arrived: at their last event before it, if there is one.
Arrivals(x, i) ==
    LET takes(o) == {k \in 1 .. i - 1 : o \in Involved(x, x.events[k])}
    IN [o \in {p \in Involved(x, x.events[i]) : takes(p) # {}} |-> x.events[Max(takes(o))].at]

FirstArrival(x, i) == Min({Arrivals(x, i)[o] : o \in DOMAIN Arrivals(x, i)})
LastArrival(x, i) == Max({Arrivals(x, i)[o] : o \in DOMAIN Arrivals(x, i)})
Gathers(x, i) == Cardinality(DOMAIN Arrivals(x, i)) > 1

\* The events of an activity with a lifecycle, up to a position.
Marked(x, a, lifecycle, p) ==
    {i \in 1 .. p : x.events[i].activity = a /\ x.events[i].lifecycle = lifecycle}

\* How many starts of an activity are completed up to a position. A completion without an
\* open start is lost: the starts up to any position, and the completions after it, are as
\* many as there can be.
Ended(x, a, p) ==
    Min({Cardinality(Marked(x, a, "start", m)) + Cardinality(Marked(x, a, "complete", p))
           - Cardinality(Marked(x, a, "complete", m)) : m \in 0 .. p})

\* Whether an event ends an instance, and the start of that one: the oldest that is open.
Ends(x, p) == Ended(x, x.events[p].activity, p) > Ended(x, x.events[p].activity, p - 1)
StartOf(x, p) ==
    LET a == x.events[p].activity
    IN CHOOSE i \in 1 .. p : /\ i \in Marked(x, a, "start", p)
                             /\ Cardinality(Marked(x, a, "start", i)) = Ended(x, a, p)

Completions(x, p) == {k \in 1 .. p - 1 : x.events[k].lifecycle = "complete"}
Follows(x, p) == Ends(x, p) /\ Completions(x, p) # {}
Previous(x, p) == Max(Completions(x, p))

\* The measures of one pass are what the documentation defines (section 22.6) from the
\* events: service from the start to the end of an instance, waiting from the completion
\* before it to its start, sojourn from there, where it is enabled, to its end,
\* synchronization from the first to the last arrival of its objects. The steps of an
\* execution make up its cycle time, those of the edges make up all steps. Pooling, lagging
\* and flow are not among them (performance).
PerformanceAddsUp ==
    LET r == measured.result
        x == study.executions
        total(m) == TotalOf(r.measure[m])
        support(m) == r.measure[m].support
        at(y, i) == y.events[i].at
        sumWhen(test(_, _), value(_, _)) ==
            SumOverEvents(x, LAMBDA y, i : IF test(y, i) THEN value(y, i) ELSE 0)
        one(y, i) == 1
    IN /\ TotalOf(r.cycle) = TotalOf(r.directly_follows)
       /\ SumOver([e \in DOMAIN r.edges |-> TotalOf(r.edges[e])]) = TotalOf(r.directly_follows)
       /\ support("service") = sumWhen(Ends, one)
       /\ support("waiting") = sumWhen(Follows, one) /\ support("sojourn") = support("waiting")
       /\ total("service") = sumWhen(Ends, LAMBDA y, i : at(y, i) - at(y, StartOf(y, i)))
       /\ total("waiting") = sumWhen(Follows, LAMBDA y, i : at(y, StartOf(y, i)) - at(y, Previous(y, i)))
       /\ total("sojourn") = sumWhen(Follows, LAMBDA y, i : at(y, i) - at(y, Previous(y, i)))
       /\ support("synchronization") = sumWhen(Gathers, one)
       /\ total("synchronization") = sumWhen(Gathers, LAMBDA y, i : LastArrival(y, i) - FirstArrival(y, i))

\* docs/ocpm-engine-1.0.0-spec.md, section 22.6: "pooling is time from first related-object
\* arrival to activity start". In a log of atomic events an activity starts with its event
\* (performance).
PoolingFromFirstArrival ==
    LET x == study.executions
        arrived(y, i) == DOMAIN Arrivals(y, i) # {}
    IN /\ measured.code = "ok" /\ study.kind = "Performance"
       /\ \A e \in ToSet(Events(x)) : e.lifecycle = Missing
       => TotalOf(measured.result.measure["pooling"])
            = SumOverEvents(x, LAMBDA y, i : IF arrived(y, i) THEN y.events[i].at - FirstArrival(y, i)
                                             ELSE 0)

\* An instance that is overtaken: another one completes after its start, before its end.
Overtaken(x, p) ==
    Ends(x, p) /\ \E k \in StartOf(x, p) .. p - 1 : /\ x.events[k].lifecycle = "complete"
                                                   /\ x.events[k].at > x.events[StartOf(x, p)].at

\* What enhance reports adds up: the histogram holds every execution, the timeline every
\* event, handovers and missing resources account for every event, rework is the same by
\* execution and by activity, shares are of a whole, and a negative duration is refused
\* only where an instance is overtaken (performance, histogram, organizational, drift).
MeasuresAddUp ==
    LET r == measured.result
        x == study.executions
        kind == study.kind
        whole(d, side(_)) == \/ \A l \in DOMAIN d.shares : side(d.shares[l])[2] = 0
                             \/ SumOver([l \in DOMAIN d.shares |-> side(d.shares[l])[1]])
                                  = side(d.shares[CHOOSE l \in DOMAIN d.shares : TRUE])[2]
    IN /\ measured.code = "InvalidData" =>
              /\ kind = "Performance"
              /\ \E n \in DOMAIN x : \E p \in DOMAIN x[n].events : Overtaken(x[n], p)
       /\ measured.code = "ok" =>
              /\ kind = "ProcessMap" =>
                     SumOver([e \in DOMAIN r.edges |-> r.edges[e].frequency])
                       + Cardinality({n \in DOMAIN x : x[n].events # <<>>}) = Len(Events(x))
              /\ kind = "Timeline" => r.support = Len(Events(x))
              /\ kind = "Histogram" /\ ~r.warning => SumOver(r.bins) = r.cycle.support /\ r.bins[1] > 0
              /\ kind = "Performance" => PerformanceAddsUp
              /\ kind = "Rework" => TotalOf(r.per_execution) = SumOver(r.by_activity)
              /\ kind = "Organizational" =>
                     /\ SumOver(r.handovers) + r.missing
                          + Cardinality({n \in DOMAIN x : ResourcePath(x[n]) # <<>>}) = Len(Events(x))
                     /\ TotalOf(r.workload) = SumOver(r.resource_activities)
              /\ kind \in Comparisons =>
                     /\ \A name \in {"activity", "dfg", "variant"} :
                            /\ whole(r[name], LAMBDA s : s.baseline)
                            /\ whole(r[name], LAMBDA s : s.comparison)
                     /\ r.variant.support = Len(x) + Len(study.comparison)
                     /\ r.dfg.support + r.support = r.activity.support
=============================================================================
