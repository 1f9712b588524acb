--------------------------- MODULE ExecutionScan ----------------------------
(***************************************************************************)
(* How the DuckDB provider (crates/ocpm-duckdb/src/provider.rs) answers    *)
(* requests about the executions of single objects: one ordered stream of  *)
(* rows, an object's events one after the other, is folded by              *)
(* scan_executions, by summarize_projected or by                           *)
(* scan_projected_bottleneck_observations, or one statement aggregates the *)
(* rows inside DuckDB. A behaviour is one request, a step takes one row.   *)
(*                                                                         *)
(* The canonical layout stores instants. The entity-link layout stores     *)
(* wall-clock times, which a policy turns into instants: clocks are put    *)
(* back and forward, so that a wall-clock time has two instants or none.   *)
(* It may also repeat an event under another sequence number, when two     *)
(* groups list it. Results are sets of executions, since their order is    *)
(* the order of the objects; the mean durations of summaries are left out. *)
(***************************************************************************)
EXTENDS Executions, FiniteSetsExt

CONSTANTS Logs, Requests,
          Clock,            \* the wall-clock time of each instant
          NanosPerMicro     \* 1_000

EventRecords == [id : Int, external_id : STRING, activity : STRING, at : Int, sequence : Int,
                 status : STRING \cup {None}]
RowRecords == [object_id : Int, event : EventRecords, start : Int, end : Int]

\* The absent value is none of the others.
ASSUME AbsenceAssumption ==
    /\ None \notin Int /\ None \notin EventRecords /\ None \notin Seq(RowRecords)
    /\ None \notin [object_id : Int, events : Seq(EventRecords)]
    /\ None \notin [object_id : Int, previous : EventRecords \cup {None}]

\* Clocks are put back and forward, but of two times of day that are ever shown the
\* earlier one is first shown first and last shown first.
ASSUME ClockAssumption ==
    /\ DOMAIN Clock \subseteq Int /\ \A u \in DOMAIN Clock : Clock[u] \in Int
    /\ \A u \in DOMAIN Clock : IsFiniteSet({v \in DOMAIN Clock : Clock[v] = Clock[u]})
    /\ \A u, v \in DOMAIN Clock : Clock[u] < Clock[v] =>
           /\ \E w \in DOMAIN Clock : Clock[w] = Clock[u] /\ w < v
           /\ \E w \in DOMAIN Clock : Clock[w] = Clock[v] /\ u < w

\* Tables are finite. The entity-link layout has attributes without a time, which its
\* views date after everything else.
ASSUME ScannedAssumption ==
    \A l \in Logs :
        /\ l.events \subseteq EventRecords
        /\ IsFiniteSet(l.events) /\ IsFiniteSet(l.objects) /\ IsFiniteSet(l.repeats)
        /\ \A o \in l.objects : o.id \in Int
        /\ \A s \in l.repeats : s.sequence \in Int
        /\ l.layout = "entity_link" => \A c \in l.history :
               /\ \A u \in DOMAIN Clock : ~(c.valid_from < Clock[u])
               /\ \A r \in Requests : r.view.end # None => ~(c.valid_from < r.view.end)

\* Only summaries can ask for complete lifecycles.
ASSUME AskedAssumption ==
    \A r \in Requests :
        /\ r.view \in Views /\ IsFiniteSet(r.view.object_types)
        /\ r.kind \in {"executions", "summary", "observations", "projected"}
        /\ r.complete \in BOOLEAN /\ (r.complete => r.kind = "summary")
        /\ r.layout = "entity_link" /\ r.view.end # None => r.view.end \in DOMAIN Clock

VARIABLES log, request,
          path,             \* how the request is answered
          leads,            \* the object types still to scan
          rows,             \* the rest of the open stream, None without one
          current,          \* what is kept of the object being read
          bounds,           \* lifecycle_bounds
          out,              \* what the stream gave so far
          answer

scanVars == <<log, request, path, leads, rows, current, bounds, out, answer>>

-----------------------------------------------------------------------------
\* Time.

Zoned(r) == r.layout = "entity_link" /\ r.policy # "utc"

\* source_timestamp_to_utc; None is an error. A fixed offset is a clock that never changes.
ToUtc(r, t) ==
    LET instants == {u \in DOMAIN Clock : Clock[u] = t}
    IN IF ~Zoned(r) THEN t
       ELSE IF instants = {} \/ (Cardinality(instants) > 1 /\ r.policy = "reject") THEN None
       ELSE IF r.policy = "latest" THEN Max(instants) ELSE Min(instants)

\* utc_nanos_to_source_nanos
ToSource(r, t) == IF Zoned(r) THEN Clock[t] ELSE t

AfterStart(view, t) == view.start = None \/ t >= view.start
BeforeEnd(view, t) == view.end = None \/ t < view.end

\* matches_utc_window
MatchesWindow(view, t) == AfterStart(view, t) /\ BeforeEnd(view, t)

-----------------------------------------------------------------------------
\* The statement.

\* The view whose limits the statement sees.
SourceView(r) ==
    [r.view EXCEPT !.start = IF @ = None THEN None ELSE ToSource(r, @),
                   !.end = IF @ = None THEN None ELSE ToSource(r, @)]

\* Mutation: the time window is always part of the statement.
PushesWindowAlways(r) == ~r.complete

\* requires_interpreted_time_filter: a wall-clock window is not the window of instants.
PushesWindow(r) == ~r.complete /\ ~Zoned(r)

\* ocpm_events repeats an event of the entity-link layout for each group that lists it.
Sequences(l, e) == {e.sequence} \cup {s.sequence : s \in {t \in l.repeats : t.event_id = e.id}}

\* lifecycle_start and lifecycle_end are taken over all events of the object.
Lifecycle(l, id) ==
    {e.at : e \in {f \in l.events : \E s \in l.e2o : s.event_id = f.id /\ s.object_id = id}}

RowBefore(a, b) ==
    \/ a.object_id < b.object_id
    \/ a.object_id = b.object_id /\ EventBefore(a.event, b.event)

\* ORDER BY object_id, timestamp_nanos_utc, sequence, external_event_id
InOrder(selection) ==
    Ranked(selection, {p \in selection \X selection : RowBefore(p[1], p[2])})

\* build_execution_sql and build_entity_link_execution_sql. The qualifier is not selected,
\* so that DISTINCT leaves one row of an event that has several.
Selection(l, r, lead) ==
    LET view == SourceView(r)
        objects == {o \in KeptObjects(l, view) : lead = None \/ o.object_type = lead}
        Linked(o, e) == \E s \in l.e2o : /\ s.event_id = e.id /\ s.object_id = o.id
                                         /\ Allows(view.qualifiers, s.qualifier)
        Wanted(e) == /\ Allows(view.activities, e.activity)
                     /\ Allows(view.event_ids, e.id)
                     /\ PushesWindow(r) => MatchesWindow(view, e.at)
    IN UNION {UNION {{[object_id |-> o.id, event |-> [e EXCEPT !.sequence = n],
                       start |-> Min(Lifecycle(l, o.id)), end |-> Max(Lifecycle(l, o.id))] :
                          n \in Sequences(l, e)} :
                     e \in {f \in l.events : Linked(o, f) /\ Wanted(f)}} :
              o \in objects}

-----------------------------------------------------------------------------
\* What is made of executions.

\* EventSummaryBuilder, without the totals of durations. A case is an object and its path.
Summary(cases) ==
    LET steps == UNION {{<<c.object_id, i, c.path[i], c.path[i + 1]>> : i \in 1 .. Len(c.path) - 1} :
                            c \in cases}
        Count(P(_)) == Cardinality({c \in cases : P(c)})
    IN [case_count |-> Cardinality(cases),
        event_count |-> MapThenSumSet(LAMBDA c : Len(c.path), cases),
        variants |-> [p \in {c.path : c \in cases} |-> Count(LAMBDA c : c.path = p)],
        dfg |-> [edge \in {<<s[3], s[4]>> : s \in steps} |->
                    Cardinality({s \in steps : <<s[3], s[4]>> = edge})],
        activities |-> [a \in UNION {ToSet(c.path) : c \in cases} |->
                           [cases |-> Count(LAMBDA c : a \in ToSet(c.path)),
                            occurrences |-> MapThenSumSet(
                                LAMBDA c : Cardinality({i \in DOMAIN c.path : c.path[i] = a}), cases),
                            starts |-> Count(LAMBDA c : Head(c.path) = a),
                            ends |-> Count(LAMBDA c : Last(c.path) = a)]]]

\* ProcessExecution::activity_path
Case(x) == [object_id |-> x.object_id, path |-> [i \in DOMAIN x.events |-> x.events[i].activity]]

\* aggregated_summary_sql: position, path_length and previous_activity are window functions.
Aggregated(r, selection) ==
    LET deduplicated == {a \in selection : \A b \in selection :
                            a.object_id = b.object_id /\ a.event.id = b.event.id => ~RowBefore(b, a)}
        Of(id) == {a \in deduplicated : a.object_id = id}
        Eligible(id) ==
            LET times == {a.event.at : a \in Of(id)}
                duration == Max(times) - Min(times)
            IN /\ r.complete => /\ AfterStart(r.view, Min({a.start : a \in Of(id)}))
                                /\ BeforeEnd(r.view, Max({a.end : a \in Of(id)}))
               /\ r.view.minimum_duration = None \/ duration >= r.view.minimum_duration
               /\ r.view.maximum_duration = None \/ duration <= r.view.maximum_duration
        ordered == {a \in deduplicated : Eligible(a.object_id)}
        ids == {a.object_id : a \in ordered}
        Position(a) == Cardinality({b \in Of(a.object_id) : ~RowBefore(a, b)})
        Previous(a) == CHOOSE b \in Of(a.object_id) : Position(b) = Position(a) - 1
        Edge(a) == <<Previous(a).event.activity, a.event.activity>>
        later == {a \in ordered : Position(a) > 1}
        paths == [id \in ids |-> LET sorted == InOrder(Of(id))
                                 IN [i \in DOMAIN sorted |-> sorted[i].event.activity]]
        Doing(act) == {a \in ordered : a.event.activity = act}
    IN [case_count |-> Cardinality(ids),
        event_count |-> Cardinality(ordered),
        variants |-> [p \in {paths[id] : id \in ids} |-> Cardinality({id \in ids : paths[id] = p})],
        dfg |-> [edge \in {Edge(a) : a \in later} |-> Cardinality({a \in later : Edge(a) = edge})],
        activities |-> [act \in {a.event.activity : a \in ordered} |->
                           [cases |-> Cardinality({a.object_id : a \in Doing(act)}),
                            occurrences |-> Cardinality(Doing(act)),
                            starts |-> Cardinality({a \in Doing(act) : Position(a) = 1}),
                            ends |-> Cardinality({a \in Doing(act) :
                                                     Position(a) = Cardinality(Of(a.object_id))})]]]

\* observation_from_event_pair
Observation(id, e, f) ==
    LET Seen(x) == [id |-> x.id, activity |-> x.activity, at |-> x.at, status |-> x.status]
    IN [object_id |-> id, source |-> Seen(e), target |-> Seen(f)]

\* observations_from_executions, of one execution.
Observations(x) ==
    {Observation(x.object_id, x.events[i], x.events[i + 1]) : i \in 1 .. Len(x.events) - 1}

\* The attributes of an event that a projection keeps.
Projected(r, e) == IF r.status_wanted THEN e ELSE [e EXCEPT !.status = None]

\* retain_projected_attributes
Retained(r, observations) ==
    {[o EXCEPT !.source = Projected(r, @), !.target = Projected(r, @)] : o \in observations}

-----------------------------------------------------------------------------
\* bottleneck_leading_types
ObservationLeads(r) ==
    IF r.lead # None THEN <<r.lead>>
    ELSE IF r.view.object_types = {} THEN <<None>> ELSE SetToSeq(r.view.object_types)

\* process_executions, summarize and the two requests for observations choose their way.
PathOf(r) ==
    CASE r.kind = "summary" /\ r.view.statuses = {} ->
             IF r.layout = "canonical_v1" THEN "aggregate" ELSE "project"
      [] r.kind = "projected" /\ r.view.minimum_duration = None /\ r.view.maximum_duration = None ->
             "pair"
      [] OTHER -> "scan"

\* The object types to scan, one after the other.
LeadsOf(r) ==
    IF r.kind \in {"observations", "projected"} THEN ObservationLeads(r) ELSE <<LeadingType(r)>>

ScanFrom(logs, requests) ==
    /\ log \in {l \in logs : Valid(l)}
    /\ request \in {r \in requests : r.layout = log.layout}
    /\ path = PathOf(request)
    /\ leads = LeadsOf(request)
    /\ rows = None
    /\ current = None
    /\ bounds = None
    /\ out = {}
    /\ answer = None

ScanInit == ScanFrom(Logs, Requests)

Aggregate ==
    /\ path = "aggregate"
    /\ path' = "done"
    /\ answer' = Aggregated(request, Selection(log, request, Head(leads)))
    /\ UNCHANGED <<log, request, leads, rows, current, bounds, out>>

OpenStream ==
    /\ path \in {"scan", "project", "pair"} /\ rows = None /\ leads # <<>>
    /\ rows' = InOrder(Selection(log, request, Head(leads)))
    /\ leads' = Tail(leads)
    /\ UNCHANGED <<log, request, path, current, bounds, out, answer>>

HasRow == rows # None /\ rows # <<>>
Row == Head(rows)

\* A row of another object than the one before.
Fresh == current = None \/ current.object_id # Row.object_id

Instant == ToUtc(request, Row.event.at)
RowBounds == [start |-> ToUtc(request, Row.start), end |-> ToUtc(request, Row.end)]

LifecycleMatches ==
    request.complete /\ bounds # None =>
        AfterStart(request.view, bounds.start) /\ BeforeEnd(request.view, bounds.end)

\* source_epoch_nanos_to_utc and row_event: the times that are read have an instant.
Readable ==
    /\ Instant # None
    /\ request.complete /\ (path = "project" => MatchesWindow(request.view, Instant)) =>
           None \notin {RowBounds.start, RowBounds.end}

\* A row that cannot be read ends the request with an error.
RowFails ==
    /\ HasRow /\ ~Readable
    /\ path' = "failed"
    /\ rows' = None /\ current' = None /\ bounds' = None /\ out' = {}
    /\ UNCHANGED <<log, request, leads, answer>>

-----------------------------------------------------------------------------
\* scan_executions.

\* execution_matches
ExecutionMatches(x) == x.events # <<>> /\ LifecycleMatches /\ DurationMatches(request.view, x.events)

Consumed == IF current # None /\ ExecutionMatches(current) THEN out \cup {current} ELSE out

\* event_matches_post_scan
MatchesPostScan(view, e) == MatchesWindow(view, e.at) /\ Allows(view.statuses, e.status)

\* Mutation: the bounds of an object are kept for the next one.
ScanRowStaleBounds ==
    /\ path = "scan" /\ HasRow /\ Readable
    /\ LET event == [Row.event EXCEPT !.at = Instant]
           open == IF Fresh THEN [object_id |-> Row.object_id, events |-> <<>>] ELSE current
           keep == /\ MatchesPostScan(request.view, event)
                   /\ open.events = <<>> \/ Last(open.events).id # event.id
       IN /\ out' = IF Fresh THEN Consumed ELSE out
          /\ current' = IF keep THEN [open EXCEPT !.events = Append(@, event)] ELSE open
          /\ bounds' = IF request.complete /\ bounds = None THEN RowBounds ELSE bounds
    /\ rows' = Tail(rows)
    /\ UNCHANGED <<log, request, path, leads, answer>>

ScanRow ==
    /\ path = "scan" /\ HasRow /\ Readable
    /\ LET event == [Row.event EXCEPT !.at = Instant]
           open == IF Fresh THEN [object_id |-> Row.object_id, events |-> <<>>] ELSE current
           keep == /\ MatchesPostScan(request.view, event)
                   /\ open.events = <<>> \/ Last(open.events).id # event.id
       IN /\ out' = IF Fresh THEN Consumed ELSE out
          /\ current' = IF keep THEN [open EXCEPT !.events = Append(@, event)] ELSE open
          /\ bounds' = IF request.complete /\ (Fresh \/ bounds = None) THEN RowBounds ELSE bounds
    /\ rows' = Tail(rows)
    /\ UNCHANGED <<log, request, path, leads, answer>>

CloseScan ==
    /\ path = "scan" /\ rows = <<>>
    /\ out' = Consumed
    /\ rows' = None /\ current' = None /\ bounds' = None
    /\ UNCHANGED <<log, request, path, leads, answer>>

-----------------------------------------------------------------------------
\* summarize_projected. Times are kept in microseconds, which the duration then comes from.

Flushed ==
    IF current = None \/ current.events = <<>> THEN out
    ELSE LET duration == (Last(current.events).micros - Head(current.events).micros) * NanosPerMicro
         IN IF /\ LifecycleMatches
               /\ request.view.minimum_duration = None \/ duration >= request.view.minimum_duration
               /\ request.view.maximum_duration = None \/ duration <= request.view.maximum_duration
            THEN out \cup {Case(current)} ELSE out

ProjectRow ==
    /\ path = "project" /\ HasRow /\ Readable
    /\ LET open == IF Fresh THEN [object_id |-> Row.object_id, last |-> None, events |-> <<>>]
                   ELSE current
           keep == open.last # Row.event.id /\ MatchesWindow(request.view, Instant)
           event == [activity |-> Row.event.activity, micros |-> Instant \div NanosPerMicro]
           held == IF Fresh THEN None ELSE bounds
       IN /\ out' = IF Fresh THEN Flushed ELSE out
          /\ current' = [open EXCEPT !.last = Row.event.id,
                                     !.events = IF keep THEN Append(@, event) ELSE @]
          /\ bounds' = IF keep /\ request.complete /\ held = None THEN RowBounds ELSE held
    /\ rows' = Tail(rows)
    /\ UNCHANGED <<log, request, path, leads, answer>>

CloseProject ==
    /\ path = "project" /\ rows = <<>>
    /\ out' = Flushed
    /\ rows' = None /\ current' = None /\ bounds' = None
    /\ UNCHANGED <<log, request, path, leads, answer>>

-----------------------------------------------------------------------------
\* scan_projected_bottleneck_observations.

\* Mutation: the attributes are dropped before the filter reads them.
PairRowEarly ==
    /\ path = "pair" /\ HasRow /\ Readable
    /\ LET event == Projected(request, [Row.event EXCEPT !.at = Instant])
           previous == IF Fresh THEN None ELSE current.previous
           keep == /\ MatchesPostScan(request.view, event)
                   /\ previous = None \/ previous.id # event.id
       IN /\ out' = IF keep /\ previous # None
                    THEN out \cup {Observation(Row.object_id, previous, event)} ELSE out
          /\ current' = [object_id |-> Row.object_id, previous |-> IF keep THEN event ELSE previous]
    /\ rows' = Tail(rows)
    /\ UNCHANGED <<log, request, path, leads, bounds, answer>>

PairRow ==
    /\ path = "pair" /\ HasRow /\ Readable
    /\ LET event == [Row.event EXCEPT !.at = Instant]
           kept == Projected(request, event)
           previous == IF Fresh THEN None ELSE current.previous
           keep == /\ MatchesPostScan(request.view, event)
                   /\ previous = None \/ previous.id # event.id
       IN /\ out' = IF keep /\ previous # None
                    THEN out \cup {Observation(Row.object_id, previous, kept)} ELSE out
          /\ current' = [object_id |-> Row.object_id, previous |-> IF keep THEN kept ELSE previous]
    /\ rows' = Tail(rows)
    /\ UNCHANGED <<log, request, path, leads, bounds, answer>>

ClosePairs ==
    /\ path = "pair" /\ rows = <<>>
    /\ rows' = None /\ current' = None
    /\ UNCHANGED <<log, request, path, leads, bounds, out, answer>>

-----------------------------------------------------------------------------
\* event_object_ids has the events that are in the view.
Found(x) ==
    [object_ids |-> {x.object_id}, events |-> x.events,
     links |-> {<<x.events[i].id, x.object_id>> : i \in DOMAIN x.events}]

Finish ==
    /\ path \in {"scan", "project", "pair"} /\ rows = None /\ leads = <<>>
    /\ answer' = CASE request.kind = "executions" -> {Found(x) : x \in out}
                   [] request.kind = "summary" ->
                          Summary(IF path = "scan" THEN {Case(x) : x \in out} ELSE out)
                   [] request.kind = "observations" -> UNION {Observations(x) : x \in out}
                   [] request.kind = "projected" ->
                          IF path = "scan" THEN Retained(request, UNION {Observations(x) : x \in out})
                          ELSE out
    /\ path' = "done"
    /\ out' = {}
    /\ UNCHANGED <<log, request, leads, rows, current, bounds>>

ScanNext ==
    \/ Aggregate \/ OpenStream \/ RowFails
    \/ ScanRow \/ CloseScan \/ ProjectRow \/ CloseProject \/ PairRow \/ ClosePairs
    \/ Finish

ScanSpec == ScanInit /\ [][ScanNext]_scanVars

-----------------------------------------------------------------------------
\* An event as it is read.
Read(r, e) == [e EXCEPT !.at = ToUtc(r, e.at)]

\* What load_log makes of the snapshot for the fallback: the rows of ocpm_events at their
\* instants. It fails at one without, and LocalProvider::new refuses a repeated event.
Loaded(l, r) ==
    [events |-> UNION {{Read(r, [e EXCEPT !.sequence = n]) : n \in Sequences(l, e)} :
                           e \in {f \in l.events : ToUtc(r, f.at) # None}},
     objects |-> l.objects, e2o |-> l.e2o, o2o |-> l.o2o, history |-> l.history]

\* Engine::execution_summary without a provider's own: the lifecycle of the filtered events.
Fallback ==
    LET view == IF request.complete THEN [request.view EXCEPT !.start = None, !.end = None]
                ELSE request.view
    IN {x \in Leading(Loaded(log, request), view, LeadingType(request)) :
            request.complete => /\ AfterStart(request.view, Head(x.events).at)
                                /\ BeforeEnd(request.view, Last(x.events).at)}

-----------------------------------------------------------------------------
\* Properties.

Done(kind) == path = "done" /\ request.kind = kind

Single(x) == [object_id |-> Min(x.object_ids), events |-> x.events]

\* The rows of an event that follow each other are one event of the execution; a row
\* after another event's is an event again.
Merged(events) ==
    SortedEvents({events[i] : i \in {j \in DOMAIN events : j = 1 \/ events[j - 1].id # events[j].id}})

\* The executions that the local provider would find in the rows.
Streamed(l, r, type) ==
    {[x EXCEPT !.events = Merged(@)] : x \in Leading(Loaded(l, r), r.view, type)}

\* The executions of the request: those of the view, and if whole lifecycles are asked
\* for those of objects all of whose events lie in its window.
Asked ==
    {x \in Streamed(log, request, LeadingType(request)) :
        request.complete => \A id \in x.object_ids : \A t \in Lifecycle(Loaded(log, request), id) :
                                MatchesWindow(request.view, t)}

\* Folding the stream gives every execution of the view, with the events the local
\* provider would give it, whatever the layout, the time zone and the repeated rows.
ScanFindsExecutions ==
    Done("executions") =>
        {<<x.object_ids, x.events>> : x \in answer} = {<<x.object_ids, x.events>> : x \in Asked}

\* The three ways to a summary count the same executions, each exactly once.
SummaryCountsExecutions ==
    Done("summary") => answer = Summary({Case(Single(x)) : x \in Asked})

\* Observations are the pairs of neighbours in the executions of every type in the view,
\* and the projection drops attributes, never observations.
ObservationsExact ==
    Done("observations") \/ Done("projected") =>
        LET r == request
            executions == UNION {Streamed(log, r, t) : t \in ToSet(ObservationLeads(r))}
            pairs == UNION {Observations(Single(x)) : x \in executions}
        IN answer = IF r.kind = "projected" THEN Retained(r, pairs) ELSE pairs

\* A provider's summary is the one the engine computes without its help
\* (docs/duckdb-parquet-provider-spec.md: "Result hashes match across providers").
SummariesMatch ==
    Done("summary") => answer = Summary({Case(Single(x)) : x \in Fallback})

-----------------------------------------------------------------------------
\* The parts of the inductive invariant of the folds that keep executions or pairs, for
\* a log and a request.

Stream(l, r, type) == InOrder(Selection(l, r, type))

\* The rows of an object that the view lets through, and those of them that are among
\* the first k of the stream.
InView(l, r, id) ==
    {e \in Loaded(l, r).events :
        /\ \E s \in l.e2o : /\ s.event_id = e.id /\ s.object_id = id
                            /\ Allows(r.view.qualifiers, s.qualifier)
        /\ EventMatches(r.view, e)}

Reached(l, r, stream, k, id) ==
    {e \in InView(l, r, id) :
        \E i \in 1 .. k : stream[i].object_id = id /\ e = Read(r, stream[i].event)}

\* What an object with these events adds to the result, and what is kept of them.
Added(r, id, events) ==
    IF PathOf(r) = "pair"
    THEN {Observation(id, Projected(r, events[i]), Projected(r, events[i + 1])) :
              i \in 1 .. Len(events) - 1}
    ELSE IF events # <<>> /\ DurationMatches(r.view, events)
         THEN {[object_id |-> id, events |-> events]} ELSE {}

Held(r, id, events) ==
    IF PathOf(r) = "pair"
    THEN [object_id |-> id,
          previous |-> IF events = <<>> THEN None ELSE Projected(r, Last(events))]
    ELSE [object_id |-> id, events |-> events]

AddedBy(l, r, ids) == UNION {Added(r, id, Merged(SortedEvents(InView(l, r, id)))) : id \in ids}

OfType(l, r, type) ==
    {o.id : o \in {p \in KeptObjects(l, SourceView(r)) : type = None \/ p.object_type = type}}

Gathered(l, r, m) == UNION {AddedBy(l, r, OfType(l, r, LeadsOf(r)[i])) : i \in 1 .. m}

After(s, k) == [i \in 1 .. Len(s) - k |-> s[k + i]]

IdsOf(stream, k) == {stream[i].object_id : i \in 1 .. k}

\* The first k rows of a stream are taken.
Progress(l, r, stream, k, before) ==
    /\ rows = After(stream, k)
    /\ IF k = 0 THEN current = None /\ out = before
       ELSE LET id == stream[k].object_id
                events == Merged(SortedEvents(Reached(l, r, stream, k, id)))
            IN /\ current = Held(r, id, events)
               /\ out = before \cup AddedBy(l, r, IdsOf(stream, k) \ {id})
                               \cup (IF PathOf(r) = "pair" THEN Added(r, id, events) ELSE {})

\* The first m types are scanned, or being scanned.
Folding(l, r) ==
    \E m \in 0 .. Len(LeadsOf(r)) :
        /\ leads = After(LeadsOf(r), m)
        /\ IF rows = None THEN current = None /\ out = Gathered(l, r, m)
           ELSE /\ m > 0
                /\ LET stream == Stream(l, r, LeadsOf(r)[m])
                   IN \E k \in 0 .. Len(stream) : Progress(l, r, stream, k, Gathered(l, r, m - 1))

ScanTypeOK ==
    /\ log \in Logs /\ Valid(log)
    /\ request \in Requests /\ request.layout = log.layout
    /\ path \in {PathOf(request), "done", "failed"}
    /\ path \in {"aggregate", "done", "failed"} => rows = None
    /\ ~request.complete => bounds = None

ScanInv ==
    /\ ScanTypeOK
    /\ path \in {"scan", "pair"} /\ ~request.complete => Folding(log, request)
    /\ ScanFindsExecutions /\ ObservationsExact
=============================================================================
