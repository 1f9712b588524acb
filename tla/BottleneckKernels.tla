-------------------------- MODULE BottleneckKernels --------------------------
(***************************************************************************)
(* What the phases of the bottleneck analysis compute                      *)
(* (crates/ocpm-bottleneck/src/lib.rs), from a set of observations: pairs  *)
(* of consecutive events of an object. Names are numbers in the order of   *)
(* the strings, 0 is the empty one. Times and durations are integers; a    *)
(* mean is kept as its total, a quantile over a denominator. The p-values  *)
(* come from floating-point distributions and are arguments here.          *)
(***************************************************************************)
EXTENDS Intervals, Sorting, Functions

CONSTANTS Strings,      \* the attribute values that are strings
          PScale,       \* a p-value is a number of units of 1 / PScale
          MaxDepth,     \* 32: the longest cascade
          Nothing

LexBefore(x, y) ==
    \E i \in DOMAIN x : x[i] < y[i] /\ \A j \in 1 .. i - 1 : x[j] = y[j]

Sum(s) == FoldLeft(+, 0, s)

-----------------------------------------------------------------------------
\* Requests.

HypothesisValid(h) ==
    /\ h.cause_activity # 0 /\ h.effect_target # 0
    /\ h.threshold >= 0 /\ h.minimum_lag >= 0
    /\ h.maximum_lag = Nothing \/ h.maximum_lag >= h.minimum_lag
    /\ (h.cause_attribute = Nothing) = (h.cause_value = Nothing)

\* validate_request.
RequestValid(r) ==
    /\ r.semantic_version = "1.0"
    /\ r.tail[1] * 2 >= r.tail[2] /\ r.tail[1] < r.tail[2]
    /\ r.minimum_support > 0 /\ r.minimum_batch_size >= 2
    /\ r.tolerance >= 0
    /\ r.slow_threshold = Nothing \/ r.slow_threshold >= 0
    /\ \A c \in DOMAIN r.calendars : \A i \in DOMAIN r.calendars[c] :
           r.calendars[c][i][2] > r.calendars[c][i][1]
    /\ \A h \in ToSet(r.hypotheses) : HypothesisValid(h)

-----------------------------------------------------------------------------
\* Signals.

DurationOf(o) == o.target.at - o.source.at
EdgeKey(o) == <<o.object_type, o.source.activity, o.target.activity>>

\* The values of the observations in S, in order.
Sorted(S, value(_)) ==
    LET id(o) == <<value(o), o.object, o.source.id, o.target.id>>
        order == Listed(S, LAMBDA o, p : LexBefore(id(o), id(p)))
    IN [i \in DOMAIN order |-> value(order[i])]

\* edge_distributions.
EdgeDistributions(observations) ==
    LET timed == {o \in observations : DurationOf(o) >= 0}
    IN [k \in {EdgeKey(o) : o \in timed} |->
           Sorted({o \in timed : EdgeKey(o) = k}, DurationOf)]

\* quantile, times den, for the probability num / den.
Quantile(values, num, den) ==
    LET position == (Len(values) - 1) * num
        lower == position \div den
        upper == IF position % den = 0 THEN lower ELSE lower + 1
    IN IF values = <<>> THEN 0
       ELSE values[lower + 1] * den
              + (values[upper + 1] - values[lower + 1]) * (position % den)

\* Eight times the threshold above which a duration is slow.
Threshold(values, r) ==
    LET q1 == Quantile(values, 1, 4)
        q3 == Quantile(values, 3, 4)
    IN IF r.slow_threshold # Nothing THEN 8 * r.slow_threshold
                                  ELSE 2 * q3 + 3 * Positive(q3 - q1)

\* Eight times the time beyond the threshold.
Impact(values, threshold) ==
    MapThenSumSet(LAMBDA i : Positive(8 * values[i] - threshold), DOMAIN values)

Signal(key, values, r) ==
    LET threshold == Threshold(values, r)
        tailStart == PartitionPoint(values,
                         LAMBDA v : v * r.tail[2] < Quantile(values, r.tail[1], r.tail[2]))
    IN [key |-> key, support |-> Len(values), total |-> Sum(values),
        median |-> Quantile(values, 1, 2), p95 |-> Quantile(values, 19, 20),
        tail |-> SubSeq(values, tailStart + 1, Len(values)),
        threshold |-> threshold,
        affected |-> Cardinality({i \in DOMAIN values : 8 * values[i] > threshold}),
        impact |-> Impact(values, threshold)]

\* The order of the signals: impact, p95, affected rate and support, then the key.
SignalBefore(s, t) ==
    LexBefore(<<t.impact, t.p95, t.affected * s.support, t.support>> \o s.key,
              <<s.impact, s.p95, s.affected * t.support, s.support>> \o t.key)

EdgeSignals(observations, r) ==
    LET distributions == EdgeDistributions(observations)
        supported == {k \in DOMAIN distributions : Len(distributions[k]) >= r.minimum_support}
    IN Listed({Signal(k, distributions[k], r) : k \in supported}, SignalBefore)

-----------------------------------------------------------------------------
\* Synchronization.

IntoEvent(observations, id) == {o \in observations : o.target.id = id}

\* The events that objects of more than one type come to.
SynchronizedEvents(observations) ==
    {id \in {o.target.id : o \in observations} :
         Cardinality({o.object_type : o \in IntoEvent(observations, id)}) > 1}

Lag(observations, o) ==
    Max({p.source.at : p \in IntoEvent(observations, o.target.id)}) - o.source.at

\* synchronization.
Synchronization(observations, r) ==
    LET shared == {o \in observations : o.target.id \in SynchronizedEvents(observations)}
        key(o) == <<o.target.activity, o.object_type>>
        lags == [k \in {key(o) : o \in shared} |->
                    Sorted({o \in shared : key(o) = k}, LAMBDA o : Lag(observations, o))]
        kept == {k \in DOMAIN lags : Len(lags[k]) >= r.minimum_support}
    IN [k \in kept |-> [support |-> Len(lags[k]), lags |-> lags[k],
                        lagging |-> Cardinality({i \in DOMAIN lags[k] : lags[k][i] = 0})]]

-----------------------------------------------------------------------------
\* Activity instances.

Starts == {"start", "begin", "resume"}
Completes == {"complete", "end", "suspend"}

\* resource: the first of the two attributes that is a string.
ResourceOf(e, requested) ==
    LET isString(name) == name \in DOMAIN e.attributes /\ e.attributes[name] \in Strings
    IN IF isString(requested) THEN e.attributes[requested]
       ELSE IF isString("resource") THEN e.attributes["resource"] ELSE 0

\* The events of an object, ordered by time and then by event id.
EventsOf(observations, object) ==
    LET own == {o \in observations : o.object = object[1] /\ o.object_type = object[2]}
    IN {o.source : o \in own} \cup {o.target : o \in own}

PointOrder(events) ==
    {ef \in events \X events :
         ef[1].at < ef[2].at \/ (ef[1].at = ef[2].at /\ ef[1].id < ef[2].id)}

PointsOf(observations, object) ==
    LET events == EventsOf(observations, object) IN Ranked(events, PointOrder(events))

\* A start that waits for its completion, and what the two make.
Begun(points, i, requested) ==
    [ready |-> points[IF i = 1 THEN 1 ELSE i - 1].at, start |-> points[i].at,
     resource |-> ResourceOf(points[i], requested)]
Instance(begun, e, requested) ==
    [activity |-> e.activity, ready |-> begun.ready, start |-> begun.start, complete |-> e.at,
     resource |-> IF ResourceOf(e, requested) = 0 THEN begun.resource ELSE ResourceOf(e, requested)]

\* Mutation: the last start that is open is completed.
PairPointLast(state, points, i, requested) ==
    LET e == points[i]
        queue == state.open[e.activity]
    IN IF e.lifecycle \in Starts
       THEN [state EXCEPT !.open[e.activity] = Append(@, Begun(points, i, requested))]
       ELSE IF e.lifecycle \in Completes /\ queue # <<>>
       THEN [open |-> [state.open EXCEPT ![e.activity] = Front(@)],
             done |-> Append(state.done, Instance(Last(queue), e, requested))]
       ELSE state

\* The event at position i opens an instance, completes the oldest open one of its
\* activity, or does nothing. The starts of an activity are kept in a queue.
PairPoint(state, points, i, requested) ==
    LET e == points[i]
        queue == state.open[e.activity]
    IN IF e.lifecycle \in Starts
       THEN [state EXCEPT !.open[e.activity] = Append(@, Begun(points, i, requested))]
       ELSE IF e.lifecycle \in Completes /\ queue # <<>>
       THEN [open |-> [state.open EXCEPT ![e.activity] = Tail(@)],
             done |-> IF e.at < Head(queue).start THEN state.done
                      ELSE Append(state.done, Instance(Head(queue), e, requested))]
       ELSE state

Performed(points) == {points[i].activity : i \in DOMAIN points}

NothingPaired(points) == [open |-> [a \in Performed(points) |-> <<>>], done |-> <<>>]

InstancesOf(points, requested) ==
    LET paired[i \in 0 .. Len(points)] ==
            IF i = 0 THEN NothingPaired(points)
            ELSE PairPoint(paired[i - 1], points, i, requested)
    IN paired[Len(points)].done

\* lifecycle_instances: object by object; an instance's id is its position. Without
\* any lifecycle the list is empty at once, which is what the loop would find too.
LifecycleInstances(observations, requested) ==
    LET objects == Listed({<<o.object, o.object_type>> : o \in observations}, LexBefore)
    IN FlattenSeq([k \in DOMAIN objects |->
                      InstancesOf(PointsOf(observations, objects[k]), requested)])

\* The ids of the instances that have a resource.
Staffed(instances) == {i \in DOMAIN instances : instances[i].resource # 0}
GroupKey(instance) == <<instance.activity, instance.resource>>
GroupKeys(instances) == {GroupKey(instances[i]) : i \in Staffed(instances)}

\* The ids of the instances in S, ordered by start and then by id.
ByStart(instances, S) ==
    Listed(S, LAMBDA i, j : LexBefore(<<instances[i].start, i>>, <<instances[j].start, j>>))

GroupOf(instances, key) ==
    ByStart(instances, {i \in Staffed(instances) : GroupKey(instances[i]) = key})

-----------------------------------------------------------------------------
\* Waiting causes.

\* The positions that run together with position i: no start is later than the one
\* before it by more than the tolerance.
ClusterOf(instances, group, tolerance, i) ==
    LET near(k) == instances[group[k]].start - instances[group[k - 1]].start <= tolerance
    IN {j \in DOMAIN group : \A k \in Min({i, j}) + 1 .. Max({i, j}) : near(k)}

\* batch_delay: what an instance waits for the last of its batch to be ready.
BatchDelay(instances, r, id) ==
    LET group == GroupOf(instances, GroupKey(instances[id]))
        at == CHOOSE i \in DOMAIN group : group[i] = id
        cluster == ClusterOf(instances, group, r.tolerance, at)
        release == Max({instances[group[i]].ready : i \in cluster})
    IN IF Cardinality(cluster) >= r.minimum_batch_size
       THEN Positive(release - instances[id].ready) ELSE 0

OfResource(instances, resource) ==
    {i \in Staffed(instances) : instances[i].resource = resource}

\* busy_timelines, for one resource.
BusyTimeline(instances, S) ==
    LET order == ByStart(instances, S)
    IN MergedIntervals([k \in DOMAIN order |-> <<instances[order[k]].start, instances[order[k]].complete>>])

\* overtaking_delays: how long ago the first one that was ready later has started.
\* The tree holds the starts before this one, by decreasing time of readiness.
OvertakingDelay(instances, id) ==
    LET i == instances[id]
        peers == OfResource(instances, i.resource)
        readies == Listed({instances[j].ready : j \in peers}, <)
        absent == 1 + Max({instances[j].start : j \in peers})
        slot(ready) == Len(readies) - PartitionPoint(readies, LAMBDA x : x < ready)
        tree == MinimumTree(Len(readies),
                    {<<slot(instances[j].ready), instances[j].start>> :
                         j \in {k \in peers : instances[k].start < i.start}}, absent)
        laterCount == Len(readies) - PartitionPoint(readies, LAMBDA x : x <= i.ready)
        earliest == Minimum(tree, laterCount, absent)
    IN IF earliest = absent THEN 0 ELSE Positive(i.start - earliest)

\* The total wait less what the resource's calendar has of it.
Unavailable(instance, r) ==
    IF instance.resource \notin DOMAIN r.calendars THEN 0
    ELSE Positive(instance.start - instance.ready
                    - UnionOverlap(instance.ready, instance.start, r.calendars[instance.resource]))

\* Mutation: contention may take again what batching took.
SplitOverlapping(total, batching, contention, overtaking, unavailable) ==
    LET b == Min({batching, total})
        c == Min({contention, total})
        o == Min({overtaking, Positive(total - b - c)})
        u == Min({unavailable, Positive(total - b - c - o)})
    IN [total |-> total, batching |-> b, contention |-> c, prioritization |-> o,
        unavailability |-> u, extraneous |-> Positive(total - b - c - o - u)]

\* A wait of the given length split among causes, each taking what is left at most.
Split(total, batching, contention, overtaking, unavailable) ==
    LET b == Min({batching, total})
        c == Min({contention, total - b})
        o == Min({overtaking, total - b - c})
        u == Min({unavailable, total - b - c - o})
    IN [total |-> total, batching |-> b, contention |-> c, prioritization |-> o,
        unavailability |-> u, extraneous |-> Positive(total - b - c - o - u)]

WaitOf(instances, r, id) ==
    LET i == instances[id]
        busy == BusyTimeline(instances, OfResource(instances, i.resource))
    IN Split(Positive(i.start - i.ready),
             BatchDelay(instances, r, id),
             Overlap(busy, i.ready, i.start),
             OvertakingDelay(instances, id),
             Unavailable(i, r))

Causes == {"total", "batching", "contention", "prioritization", "unavailability", "extraneous"}

\* waiting_causes: the waits of each activity and resource, cause by cause.
WaitingCauses(instances, r) ==
    LET waits == [id \in Staffed(instances) |-> WaitOf(instances, r, id)]
        members(k) == ToSet(GroupOf(instances, k))
        kept == {k \in GroupKeys(instances) : Cardinality(members(k)) >= r.minimum_support}
    IN [k \in kept |-> [cause \in Causes |->
                           MapThenSumSet(LAMBDA id : waits[id][cause], members(k))]]

-----------------------------------------------------------------------------
\* Resource pressure.

\* resource_pressure, for the instances of one activity and resource. The rates are
\* counts over the second half of the span, which has the same length for both.
PressureOf(instances, S) ==
    LET values == {instances[i] : i \in S}
        first == Min({v.ready : v \in values})
        last == Max({v.complete : v \in values})
        span == last - first
        order == ByStart(instances, S)
        waiting(t) == Cardinality({i \in S : instances[i].ready <= t /\ instances[i].start > t})
        midpoint == first + span \div 2
        arrival == Cardinality({i \in S : instances[i].ready >= midpoint})
        throughput == Cardinality({i \in S : instances[i].complete \in midpoint .. last})
        backlog == waiting(first + (span * 3) \div 4) - waiting(first + span \div 4)
    IN [support |-> Cardinality(S), span |-> span,
        busy |-> Overlap(BusyTimeline(instances, S), first, last),
        waited |-> MapThenSumSet(LAMBDA i : Positive(instances[i].start - instances[i].ready), S),
        served |-> MapThenSumSet(LAMBDA i : instances[i].complete - instances[i].start, S),
        maximum_queue |-> MaximumQueue([k \in DOMAIN order |-> instances[order[k]]]),
        arrival |-> arrival, throughput |-> throughput, backlog_delta |-> backlog,
        unstable |-> arrival * 100 > throughput * 101 \/ backlog > 0]

Supported(instances, r) ==
    {k \in GroupKeys(instances) : Len(GroupOf(instances, k)) >= r.minimum_support}

ResourcePressure(instances, r) ==
    [k \in Supported(instances, r) |-> PressureOf(instances, ToSet(GroupOf(instances, k)))]

-----------------------------------------------------------------------------
\* Patterns: batches and overtaking. The burstiness, a quotient of roots, is left out.

PatternOf(instances, group, r) ==
    LET clusters == {ClusterOf(instances, group, r.tolerance, i) : i \in DOMAIN group}
        batches == {c \in clusters : Cardinality(c) >= r.minimum_batch_size}
    IN [support |-> Len(group),
        batched |-> Cardinality(UNION batches),
        pairs |-> (Len(group) * (Len(group) - 1)) \div 2,
        overtakes |-> InversionCount([i \in DOMAIN group |-> instances[group[i]].ready])]

\* performance_patterns.
PerformancePatterns(instances, r) ==
    [k \in Supported(instances, r) |-> PatternOf(instances, GroupOf(instances, k), r)]

-----------------------------------------------------------------------------
\* Cascades.

\* The part of the wait in which the other one holds the resource.
Shared(instances, waiting, other) ==
    Positive(Min({instances[waiting].start, instances[other].complete})
               - Max({instances[waiting].ready, instances[other].start}))

\* Who holds the resource while the instance waits.
Candidates(instances, waiting) ==
    {other \in DOMAIN instances :
         /\ other # waiting
         /\ instances[other].resource = instances[waiting].resource
         /\ instances[other].start < instances[waiting].start
         /\ instances[other].complete > instances[waiting].ready}

\* blocker: the candidate that shares most of the wait, the last one if several do.
Blocker(instances, waiting) ==
    LET i == instances[waiting]
        candidates == Candidates(instances, waiting)
        most == Max({Shared(instances, waiting, o) : o \in candidates})
    IN IF i.resource = 0 \/ i.start <= i.ready \/ candidates = {} THEN Nothing
       ELSE IF most = 0 THEN Nothing
       ELSE Max({o \in candidates : Shared(instances, waiting, o) = most})

\* The ids from an instance to its blocker, the blocker's blocker and so on: until
\* there is none, an instance comes again, or the chain has its full length.
Chain(instances, id) ==
    LET step(chain) ==
            LET next == Blocker(instances, Last(chain))
            IN IF \/ Len(chain) >= MaxDepth /\ Len(chain) > 1
                  \/ next = Nothing
                  \/ Last(chain) \in ToSet(Front(chain))
               THEN chain ELSE Append(chain, next)
        chains[n \in 0 .. Len(instances) + 1] ==
            IF n = 0 THEN <<id>> ELSE step(chains[n - 1])
    IN chains[Len(instances) + 1]

\* What the chain's instances wait for their blockers, in all.
ChainDelay(instances, chain) ==
    MapThenSumSet(LAMBDA k : Shared(instances, chain[k], chain[k + 1]), 1 .. Len(chain) - 1)

\* blocking_cascades: chains with the same activities and resources are one cascade.
BlockingCascades(instances, r) ==
    LET chains == [id \in DOMAIN instances |-> Chain(instances, id)]
        key(id) == [k \in DOMAIN chains[id] |-> GroupKey(instances[chains[id][k]])]
        blocked == {id \in DOMAIN instances : Len(chains[id]) >= 2}
        members(path) == {id \in blocked : key(id) = path}
        kept == {path \in {key(id) : id \in blocked} :
                     Cardinality(members(path)) >= r.minimum_support}
    IN [path \in kept |->
           [support |-> Cardinality(members(path)), maximum_depth |-> Len(path) - 1,
            delay |-> MapThenSumSet(LAMBDA id : ChainDelay(instances, chains[id]), members(path))]]

-----------------------------------------------------------------------------
\* Changes against a baseline, and hypotheses.

\* ks_statistic, times both lengths: two cursors move past every value up to the
\* smaller of the two next ones.
KsStatistic(left, right) ==
    LET next(c) == Min({left[i] : i \in {c.i + 1} \cap DOMAIN left}
                         \cup {right[j] : j \in {c.j + 1} \cap DOMAIN right})
        past(s, x) == PartitionPoint(s, LAMBDA v : v <= x)
        moved(c, x) == [i |-> past(left, x), j |-> past(right, x), maximum |-> c.maximum]
        apart(c) == c.i * Len(right) - c.j * Len(left)
        step(c) == IF c.i = Len(left) /\ c.j = Len(right) THEN c
                   ELSE LET d == moved(c, next(c))
                        IN [d EXCEPT !.maximum = Max({@, apart(d), -apart(d)})]
        cursors[n \in 0 .. Len(left) + Len(right)] ==
            IF n = 0 THEN [i |-> 0, j |-> 0, maximum |-> 0] ELSE step(cursors[n - 1])
    IN cursors[Len(left) + Len(right)].maximum

\* benjamini_hochberg: from the largest p-value down, p * n / rank, and never more
\* than the one before.
BenjaminiHochberg(values) ==
    LET n == Len(values)
        rank(i) == Cardinality({j \in DOMAIN values : \/ values[j] < values[i]
                                                      \/ values[j] = values[i] /\ j <= i})
        ranked == [k \in DOMAIN values |-> CHOOSE i \in DOMAIN values : rank(i) = k]
        adjusted[k \in 1 .. n + 1] ==
            IF k = n + 1 THEN PScale
            ELSE Min({(values[ranked[k]] * n) \div k, adjusted[k + 1], PScale})
    IN [i \in DOMAIN values |-> adjusted[rank(i)]]

\* The edges that both sides have often enough.
ComparedEdges(baseline, current, r) ==
    {k \in DOMAIN baseline \cap DOMAIN current :
         /\ Len(baseline[k]) >= r.minimum_support
         /\ Len(current[k]) >= r.minimum_support}

\* drift_changes; p gives the p-value of each compared edge.
DriftChanges(baseline, current, r, p) ==
    LET keys == Listed(DOMAIN p, LexBefore)
        q == BenjaminiHochberg([i \in DOMAIN keys |-> p[keys[i]]])
        change(i) ==
            LET left == baseline[keys[i]]
                right == current[keys[i]]
                threshold == Threshold(left, r)
            IN [key |-> keys[i], baseline_support |-> Len(left), current_support |-> Len(right),
                median_delta |-> Quantile(right, 1, 2) - Quantile(left, 1, 2),
                impact_delta |-> Impact(right, threshold) - Impact(left, threshold),
                ks |-> KsStatistic(left, right), p |-> p[keys[i]], q |-> q[i]]
        size(x) == Max({x, -x})
        before(c, d) == LexBefore(<<c.q, size(d.impact_delta)>> \o c.key,
                                  <<d.q, size(c.impact_delta)>> \o d.key)
    IN Listed({change(i) : i \in DOMAIN keys}, before)

\* The observations that a hypothesis says are caused.
EffectsOf(observations, h) ==
    {o \in observations : /\ o.target.activity = h.effect_target
                          /\ h.effect_source = Nothing \/ o.source.activity = h.effect_source}

CausesOf(observations, h) ==
    {o \in observations :
         /\ o.source.activity = h.cause_activity
         /\ \/ h.cause_attribute = Nothing
            \/ /\ h.cause_attribute \in DOMAIN o.source.attributes
               /\ o.source.attributes[h.cause_attribute] = h.cause_value}

\* A cause of the same object lies between the earliest and the latest moment.
Exposed(observations, h, effect) ==
    LET times == Sorted({c \in CausesOf(observations, h) : c.object = effect.object},
                        LAMBDA c : c.source.at)
        latest == effect.source.at - h.minimum_lag
        before == IF h.maximum_lag = Nothing THEN 0
                  ELSE PartitionPoint(times, LAMBDA t : t < effect.source.at - h.maximum_lag)
    IN before < PartitionPoint(times, LAMBDA t : t <= latest)

\* The four counts of a hypothesis.
Contingency(observations, h) ==
    LET effects == EffectsOf(observations, h)
        exposed == {o \in effects : Exposed(observations, h, o)}
        present == {o \in effects : DurationOf(o) > h.threshold}
    IN [exposed_effect |-> Cardinality(exposed \cap present),
        exposed_no_effect |-> Cardinality(exposed \ present),
        unexposed_effect |-> Cardinality((effects \ exposed) \cap present),
        unexposed_no_effect |-> Cardinality((effects \ exposed) \ present)]

\* ratio(a, b) > ratio(c, d), where a ratio to nothing is 0.
RatioAbove(a, b, c, d) == b > 0 /\ (IF d = 0 THEN a > 0 ELSE a * d > c * b)

\* temporal_hypotheses; p gives the p-value of each.
TemporalHypotheses(observations, r, p) ==
    LET q == BenjaminiHochberg(p)
    IN [i \in DOMAIN r.hypotheses |->
           LET t == Contingency(observations, r.hypotheses[i])
               exposed == t.exposed_effect + t.exposed_no_effect
               unexposed == t.unexposed_effect + t.unexposed_no_effect
           IN [table |-> t, exposed |-> exposed, unexposed |-> unexposed, p |-> p[i], q |-> q[i],
               supported |-> /\ q[i] * 20 <= PScale
                             /\ RatioAbove(t.exposed_effect, exposed,
                                           t.unexposed_effect, unexposed)
                             /\ exposed >= r.minimum_support
                             /\ unexposed >= r.minimum_support]]
=============================================================================
