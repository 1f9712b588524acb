------------------------- MODULE BottleneckAnalysis -------------------------
(***************************************************************************)
(* A call of analyze or analyze_with_context                               *)
(* (crates/ocpm-bottleneck/src/lib.rs): the request is validated, the      *)
(* provider delivers the observations of the view and of the comparison    *)
(* view, and nine phases compute the result. With a context every phase    *)
(* ends with a look at it. The provider is external: it may fail. So are   *)
(* the distributions that turn statistics into p-values.                   *)
(***************************************************************************)
EXTENDS BottleneckKernels

CONSTANTS Inputs,       \* observations, baseline (or Nothing), request, context
          PValues       \* what a p-value may be

\* The observations of a view are finitely many, of events at times that the log has, each
\* with its own id.
EventsIn(observations) == UNION {{o.source, o.target} : o \in observations}
Observed(observations) ==
    /\ IsFiniteSet(observations)
    /\ \A e \in EventsIn(observations) : e.at \in Int /\ e.id \in Int
    /\ \A e, f \in EventsIn(observations) : e.id = f.id => e = f

ASSUME InputsAssumption == \A x \in Inputs : Observed(x.observations)

VARIABLES input,
          phase,
          result,       \* what the phases have computed
          stopped,      \* the context was cancelled or its deadline has passed
          analysis      \* "running", or how the call ended

bottleneckVars == <<input, phase, result, stopped, analysis>>

NoResult ==
    [signals |-> <<>>, distributions |-> <<>>, synchronization |-> <<>>, instances |-> <<>>,
     warnings |-> {}, waiting_causes |-> <<>>, resource_pressure |-> <<>>, patterns |-> <<>>,
     cascades |-> <<>>, changes |-> <<>>, hypotheses |-> <<>>, diagnostics |-> Nothing]

BottleneckFrom(inputs) ==
    /\ input \in inputs
    /\ phase = "validate"
    /\ result = NoResult
    /\ stopped = FALSE
    /\ analysis = "running"

BottleneckInit == BottleneckFrom(Inputs)

\* check: the phase is over; a stopped call returns the context's error.
Advance(next) ==
    IF input.context /\ stopped
    THEN analysis' = "Stopped" /\ UNCHANGED phase
    ELSE phase' = next /\ UNCHANGED analysis

During(name) == analysis = "running" /\ phase = name

\* The context is stopped from outside, at any moment.
StopContext ==
    /\ analysis = "running" /\ input.context /\ ~stopped
    /\ stopped' = TRUE
    /\ UNCHANGED <<input, phase, result, analysis>>

\* validate_request, before anything is asked of the provider.
Validate ==
    /\ During("validate")
    /\ IF RequestValid(input.request)
       THEN phase' = "observe" /\ UNCHANGED analysis
       ELSE analysis' = "InvalidRequest" /\ UNCHANGED phase
    /\ UNCHANGED <<input, result, stopped>>

\* The provider's observations of the view, then of the comparison view.
Observe ==
    /\ During("observe") \/ During("compare")
    /\ \/ Advance(IF phase = "observe" THEN "compare" ELSE "signals")
       \/ (phase = "observe" \/ input.baseline # Nothing) /\ analysis' = "ProviderError" /\ UNCHANGED phase
    /\ UNCHANGED <<input, result, stopped>>

Signals ==
    /\ During("signals")
    /\ result' = [result EXCEPT !.distributions = EdgeDistributions(input.observations),
                                !.signals = EdgeSignals(input.observations, input.request)]
    /\ Advance("synchronization")
    /\ UNCHANGED <<input, stopped>>

Synchronize ==
    /\ During("synchronization")
    /\ result' = [result EXCEPT !.synchronization = Synchronization(input.observations, input.request)]
    /\ Advance("instances")
    /\ UNCHANGED <<input, stopped>>

\* Warnings tell that a part of the result will be empty for want of evidence.
PairLifecycles ==
    /\ During("instances")
    /\ LET instances == LifecycleInstances(input.observations, input.request.resource_attribute)
       IN result' = [result EXCEPT
              !.instances = instances,
              !.warnings = (IF instances = <<>> THEN {"no_lifecycle"} ELSE {})
                  \cup (IF instances # <<>> /\ Staffed(instances) = {} THEN {"no_resource"} ELSE {})
                  \cup (IF DOMAIN input.request.calendars = {} THEN {"no_calendar"} ELSE {})]
    /\ Advance("waiting_causes")
    /\ UNCHANGED <<input, stopped>>

AttributeWaits ==
    /\ During("waiting_causes")
    /\ result' = [result EXCEPT !.waiting_causes = WaitingCauses(result.instances, input.request)]
    /\ Advance("resource_pressure")
    /\ UNCHANGED <<input, stopped>>

MeasurePressure ==
    /\ During("resource_pressure")
    /\ result' = [result EXCEPT !.resource_pressure = ResourcePressure(result.instances, input.request)]
    /\ Advance("patterns")
    /\ UNCHANGED <<input, stopped>>

FindPatterns ==
    /\ During("patterns")
    /\ result' = [result EXCEPT !.patterns = PerformancePatterns(result.instances, input.request)]
    /\ Advance("cascades")
    /\ UNCHANGED <<input, stopped>>

FindCascades ==
    /\ During("cascades")
    /\ result' = [result EXCEPT !.cascades = BlockingCascades(result.instances, input.request)]
    /\ Advance("changes")
    /\ UNCHANGED <<input, stopped>>

\* kolmogorov_survival: equal distributions have the p-value 1.
KolmogorovPValues(left, right) == IF KsStatistic(left, right) = 0 THEN {PScale} ELSE PValues

CompareBaseline ==
    /\ During("changes")
    /\ IF input.baseline = Nothing THEN UNCHANGED result
       ELSE LET baseline == EdgeDistributions(input.baseline)
                current == result.distributions
                edges == ComparedEdges(baseline, current, input.request)
            IN \E p \in [edges -> PValues \cup {PScale}] :
                   /\ \A k \in edges : p[k] \in KolmogorovPValues(baseline[k], current[k])
                   /\ result' = [result EXCEPT
                          !.changes = DriftChanges(baseline, current, input.request, p)]
    /\ Advance("hypotheses")
    /\ UNCHANGED <<input, stopped>>

\* chi_square_p_value: a table with an empty margin has the p-value 1.
ChiSquarePValues(t) ==
    IF \/ t.exposed_effect + t.exposed_no_effect = 0
       \/ t.unexposed_effect + t.unexposed_no_effect = 0
       \/ t.exposed_effect + t.unexposed_effect = 0
       \/ t.exposed_no_effect + t.unexposed_no_effect = 0
    THEN {PScale} ELSE PValues

TestHypotheses ==
    /\ During("hypotheses")
    /\ \E p \in [DOMAIN input.request.hypotheses -> PValues \cup {PScale}] :
           /\ \A i \in DOMAIN p :
                  p[i] \in ChiSquarePValues(Contingency(input.observations, input.request.hypotheses[i]))
           /\ result' = [result EXCEPT
                  !.hypotheses = TemporalHypotheses(input.observations, input.request, p)]
    /\ Advance("finish")
    /\ UNCHANGED <<input, stopped>>

\* The result is put together; a last look at the context.
FinishAnalysis ==
    /\ During("finish")
    /\ result' = [result EXCEPT !.diagnostics =
           [observation_count |-> Cardinality(input.observations),
            lifecycle_instance_count |-> Len(result.instances),
            synchronized_event_count |-> Cardinality(SynchronizedEvents(input.observations))]]
    /\ analysis' = IF input.context /\ stopped THEN "Stopped" ELSE "ok"
    /\ UNCHANGED <<input, phase, stopped>>

BottleneckNext ==
    \/ StopContext \/ Validate \/ Observe
    \/ Signals \/ Synchronize \/ PairLifecycles \/ AttributeWaits \/ MeasurePressure
    \/ FindPatterns \/ FindCascades \/ CompareBaseline \/ TestHypotheses \/ FinishAnalysis

BottleneckSpec == BottleneckInit /\ [][BottleneckNext]_bottleneckVars

-----------------------------------------------------------------------------
\* Properties.

Inst(i) == result.instances[i]
Busy(S, t) == \E i \in S : t \in Inst(i).start .. Inst(i).complete - 1
Waiting(i) == Inst(i).ready .. Inst(i).start - 1

\* What each cause could explain of a wait, counted instant by instant.
CauseShares(i) ==
    LET peers == {j \in DOMAIN result.instances : Inst(j).resource = Inst(i).resource}
        overtakers == {j \in peers : Inst(j).ready > Inst(i).ready /\ Inst(j).start < Inst(i).start}
        calendars == input.request.calendars
        open(t) == \E k \in DOMAIN calendars[Inst(i).resource] :
                       t \in calendars[Inst(i).resource][k][1] .. calendars[Inst(i).resource][k][2] - 1
    IN [contention |-> Cardinality({t \in Waiting(i) : Busy(peers, t)}),
        overtaking |-> IF overtakers = {} THEN 0
                       ELSE Inst(i).start - Min({Inst(j).start : j \in overtakers}),
        unavailable |-> IF Inst(i).resource \notin DOMAIN calendars THEN 0
                        ELSE Cardinality({t \in Waiting(i) : ~open(t)})]

\* Every wait is explained once: the causes of an activity and resource add up to its
\* waits, and none takes more than the time its evidence covers (waiting_causes,
\* through the merged timelines, the tree of minima and the clipped calendars).
WaitsExplained ==
    phase = "resource_pressure" =>
        \A k \in DOMAIN result.waiting_causes :
            LET w == result.waiting_causes[k]
                S == {i \in DOMAIN result.instances : GroupKey(Inst(i)) = k}
                upTo(part(_)) == MapThenSumSet(part, S)
            IN /\ w.total = upTo(LAMBDA i : Cardinality(Waiting(i)))
               /\ w.total = w.batching + w.contention + w.prioritization
                              + w.unavailability + w.extraneous
               /\ \A cause \in Causes : w[cause] >= 0
               /\ w.contention <= upTo(LAMBDA i : CauseShares(i).contention)
               /\ w.prioritization <= upTo(LAMBDA i : CauseShares(i).overtaking)
               /\ w.unavailability <= upTo(LAMBDA i : CauseShares(i).unavailable)
               /\ w.batching = 0 =>
                      w.contention = upTo(LAMBDA i : CauseShares(i).contention)
               /\ w.batching + w.contention = 0 =>
                      w.prioritization = upTo(LAMBDA i : Min({CauseShares(i).overtaking,
                                                             Cardinality(Waiting(i))}))

\* Queues and utilization are what an observer of every instant would count, and
\* overtakes are the pairs in which the one ready later is served first
\* (resource_pressure, performance_patterns).
PressureExact ==
    phase = "cascades" =>
        \A k \in DOMAIN result.resource_pressure :
            LET p == result.resource_pressure[k]
                S == {i \in DOMAIN result.instances : GroupKey(Inst(i)) = k}
                instants == UNION {Inst(i).ready .. Inst(i).complete : i \in S}
                present(t) == Cardinality({i \in S : t \in Inst(i).ready .. Inst(i).start})
                served(i, j) == Inst(i).start < Inst(j).start \/ (Inst(i).start = Inst(j).start /\ i < j)
            IN /\ p.maximum_queue = Max({present(t) : t \in instants})
               /\ p.busy = Cardinality({t \in instants : Busy(S, t)})
               /\ p.busy <= p.span
               /\ result.patterns[k].overtakes =
                      Cardinality({ij \in S \X S : /\ served(ij[1], ij[2])
                                             /\ Inst(ij[1]).ready > Inst(ij[2]).ready})
               /\ result.patterns[k].batched # 1

\* A chain of blockers goes back in time, so it ends by itself: no instance comes
\* twice, and what an instance waits for its blocker is a part of its wait
\* (blocking_cascades).
CascadesDescend ==
    phase = "changes" =>
        \A id \in DOMAIN result.instances :
            LET chain == Chain(result.instances, id)
            IN /\ Len(chain) <= MaxDepth
               /\ \A k \in 1 .. Len(chain) - 1 : Inst(chain[k + 1]).start < Inst(chain[k]).start
               /\ \A k \in 1 .. Len(chain) - 1 :
                      Shared(result.instances, chain[k], chain[k + 1])
                          \in 1 .. Cardinality(Waiting(chain[k]))

\* How often an activity starts, or completes, among the first n events of an object, and
\* how many of its completions there find no start and are skipped.
Occurred(points, a, lifecycles, n) ==
    Cardinality({i \in 1 .. n : points[i].activity = a /\ points[i].lifecycle \in lifecycles})
Skipped(points, a, n) ==
    Max({0} \cup {Occurred(points, a, Completes, m) - Occurred(points, a, Starts, m) : m \in 1 .. n})

Timely(instance) == instance.ready <= instance.start /\ instance.start <= instance.complete

PairedInOrder(points, done) ==
    /\ \A a \in Performed(points) :
           Cardinality({i \in DOMAIN done : done[i].activity = a})
               = Occurred(points, a, Completes, Len(points)) - Skipped(points, a, Len(points))
    /\ \A i, j \in DOMAIN done : i < j /\ done[i].activity = done[j].activity =>
           done[i].start <= done[j].start /\ done[i].complete <= done[j].complete

\* A completion goes with the oldest start that is open: of one activity of an object,
\* who starts first completes first, no start or completion is used twice and none is lost
\* but for completions without a start; an instance is ready before it starts and starts
\* before it completes (lifecycle_instances).
PairsInOrder ==
    phase = "waiting_causes" =>
        /\ \A o \in input.observations :
               LET points == PointsOf(input.observations, <<o.object, o.object_type>>)
               IN PairedInOrder(points, InstancesOf(points, input.request.resource_attribute))
        /\ \A i \in DOMAIN result.instances : Timely(Inst(i))

\* The corrected p-values accept what the step-up procedure accepts at every level,
\* the drift statistic is the largest distance between the two distributions, and an
\* effect is exposed iff a cause lies in its window (temporal_hypotheses, drift_changes).
StepUp(p, alpha) ==
    LET n == Cardinality(DOMAIN p)
        within(x) == Cardinality({i \in DOMAIN p : p[i] <= x})
        passing == {x \in {p[i] : i \in DOMAIN p} : x * n <= alpha * within(x)}
    IN {i \in DOMAIN p : \E x \in passing : p[i] <= x}

StatisticsSound ==
    phase \in {"hypotheses", "finish"} =>
        LET changes == result.changes
            tests == result.hypotheses
            accepted(s, alpha) == {i \in DOMAIN s : s[i].q <= alpha}
            p(s) == [i \in DOMAIN s |-> s[i].p]
            base == IF input.baseline = Nothing THEN <<>> ELSE EdgeDistributions(input.baseline)
            upTo(s, x) == Cardinality({i \in DOMAIN s : s[i] <= x})
            gap(k, x) == upTo(base[k], x) * Len(result.distributions[k])
                           - upTo(result.distributions[k], x) * Len(base[k])
        IN /\ \A alpha \in 1 .. PScale - 1 : /\ accepted(changes, alpha) = StepUp(p(changes), alpha)
                                             /\ accepted(tests, alpha) = StepUp(p(tests), alpha)
           /\ \A i \in DOMAIN changes :
                  LET k == changes[i].key
                      values == ToSet(base[k]) \cup ToSet(result.distributions[k])
                  IN changes[i].ks = Max({Max({gap(k, x), -gap(k, x)}) : x \in values})
           /\ \A i \in DOMAIN tests :
                  LET h == input.request.hypotheses[i]
                      exposed == {o \in EffectsOf(input.observations, h) :
                                     \E c \in CausesOf(input.observations, h) :
                                         LET lag == o.source.at - c.source.at
                                         IN /\ c.object = o.object
                                            /\ lag >= h.minimum_lag
                                            /\ h.maximum_lag = Nothing \/ lag <= h.maximum_lag}
                  IN tests[i].exposed = Cardinality(exposed)

\* What the later parts of a report state agrees with the instances and the
\* observations it was taken from.
MeasurementsExact == PressureExact /\ CascadesDescend /\ StatisticsSound
=============================================================================
