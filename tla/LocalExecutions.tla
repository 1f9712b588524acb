-------------------------- MODULE LocalExecutions ---------------------------
(***************************************************************************)
(* Requests to the local provider: leading_executions and                  *)
(* connected_executions (crates/ocpm-local/src/lib.rs), the latter with    *)
(* every step of its UnionFind, and resolve_population                     *)
(* (crates/ocpm-provider/src/lib.rs). A behaviour is one request. Objects  *)
(* are the elements of the forest; the code's indexes number them. Results *)
(* are sets: their order, by root or by object, is left out.               *)
(***************************************************************************)
EXTENDS UnionFind, Executions

CONSTANTS Logs, Requests

\* Tables are finite, ids and times are numbers.
ASSUME TablesAssumption ==
    /\ Elements \subseteq Int
    /\ \A l \in Logs :
           /\ IsFiniteSet(l.events) /\ IsFiniteSet(l.objects)
           /\ IsFiniteSet(l.e2o) /\ IsFiniteSet(l.o2o)
           /\ \A e \in l.events : e.id \in Int /\ e.at \in Int /\ e.sequence \in Int
           /\ \A o \in l.objects : o.id \in Elements
           /\ \A r \in l.o2o : r.relation_id \in Int

ASSUME RequestsAssumption ==
    /\ None \notin Views
    /\ \A r \in Requests :
           /\ r.kind \in {"connected", "leading", "population"}
           /\ r.view \in Views
           /\ r.kind = "population" =>
                  /\ r.selector.kind \in {"event_time", "start", "contained", "cases"}
                  /\ r.selector.start \in Int /\ r.selector.end \in Int
                  /\ r.selector.ids \subseteq Int

VARIABLES log, request,
          phase,        \* what the request is doing
          pending,      \* the pairs still to join
          todo,         \* the objects still to group
          groups,       \* the objects found under each root
          answer

providerVars == <<log, request, phase, pending, todo, groups, answer>>

-----------------------------------------------------------------------------
\* The pairs that connected_executions joins: the first object of an event with the
\* others, event by event, then the ends of the object relations.
ObjectsOf(l, id) == {r.object_id : r \in {s \in l.e2o : s.event_id = id}}

\* Mutation: the last object of an event is left out.
EventJoinsButLast(l, id) ==
    LET ids == SortedIds(ObjectsOf(l, id))
    IN IF Len(ids) < 2 THEN <<>> ELSE [i \in 1 .. Len(ids) - 2 |-> <<ids[1], ids[i + 1]>>]

EventJoins(l, id) ==
    LET ids == SortedIds(ObjectsOf(l, id))
    IN IF ids = <<>> THEN <<>> ELSE [i \in 1 .. Len(ids) - 1 |-> <<ids[1], ids[i + 1]>>]

RelationEnds(l, id) ==
    LET r == CHOOSE s \in l.o2o : s.relation_id = id IN <<r.source, r.target>>

Joins(l) ==
    LET ids == SortedIds({e.id : e \in l.events})
        relations == SortedIds({r.relation_id : r \in l.o2o})
        upTo[n \in 0 .. Len(ids)] ==
            IF n = 0 THEN <<>> ELSE upTo[n - 1] \o EventJoins(l, ids[n])
    IN upTo[Len(ids)] \o [i \in 1 .. Len(relations) |-> RelationEnds(l, relations[i])]

-----------------------------------------------------------------------------
\* resolve_population.

InWindow(selector, e) == selector.start <= e.at /\ e.at < selector.end

PopulationRefused(r) ==
    \/ r.lead = None
    \/ r.selector.kind # "cases" /\ r.selector.start >= r.selector.end

\* The view whose executions are looked at.
PopulationView(r) ==
    CASE r.selector.kind = "event_time" ->
             [r.view EXCEPT !.start = r.selector.start, !.end = r.selector.end]
      [] r.selector.kind \in {"start", "contained"} ->
             [r.view EXCEPT !.start = None, !.end = None]
      [] r.selector.kind = "cases" ->
             [r.view EXCEPT !.object_ids = IF @ = {} THEN r.selector.ids ELSE @ \cap r.selector.ids]

\* The executions that the selector keeps, each named by its object. A case set that
\* leaves no object selects nothing, although a view without object ids means any.
Selected(l, r) ==
    {x.object_ids : x \in {y \in Leading(l, PopulationView(r), r.lead) :
        /\ r.selector.kind = "cases" => PopulationView(r).object_ids # {}
        /\ r.selector.kind \in {"start", "contained"} => InWindow(r.selector, Head(y.events))
        /\ r.selector.kind = "contained" => InWindow(r.selector, Last(y.events))}}

\* Mutation: an empty population keeps its view, whose empty filter means any object.
ResolvedAlways(l, r) ==
    LET ids == UNION Selected(l, r)
    IN [view |-> IF r.selector.kind = "event_time" THEN PopulationView(r)
                 ELSE [PopulationView(r) EXCEPT !.object_ids = ids],
        count |-> Cardinality(ids)]

Resolved(l, r) ==
    LET ids == UNION Selected(l, r)
    IN [view |-> IF ids = {} THEN None
                 ELSE IF r.selector.kind = "event_time" THEN PopulationView(r)
                 ELSE [PopulationView(r) EXCEPT !.object_ids = ids],
        count |-> Cardinality(ids)]

-----------------------------------------------------------------------------
ProviderFrom(logs, requests) ==
    /\ Init
    /\ log \in {l \in logs : Valid(l)}
    /\ request \in requests
    /\ phase = request.kind
    /\ pending = Joins(log)
    /\ todo = <<>>
    /\ groups = [x \in Elements |-> {}]
    /\ answer = None

ProviderInit == ProviderFrom(Logs, Requests)

\* Mutation: the right element is put under the left one, whatever their roots.
NextJoinDirectly ==
    /\ phase = "connected" /\ pending # <<>>
    /\ parent' = [parent EXCEPT ![Head(pending)[2]] = Head(pending)[1]]
    /\ pending' = Tail(pending)
    /\ UNCHANGED <<rank, pc, call, stack, found, left, class>>
    /\ UNCHANGED <<log, request, phase, todo, groups, answer>>

\* connected_executions: union.join of the next pair.
NextJoin ==
    /\ phase = "connected" /\ pending # <<>>
    /\ Join(Head(pending)[1], Head(pending)[2])
    /\ pending' = Tail(pending)
    /\ UNCHANGED <<log, request, phase, todo, groups, answer>>

\* The calls of the forest run; a root that is returned names a group.
RunForest ==
    /\ Descend \/ AtRoot \/ Return \/ LeftRoot \/ Link
    /\ UNCHANGED providerVars

StartGrouping ==
    /\ phase = "connected" /\ pending = <<>> /\ pc = "idle"
    /\ phase' = "grouping"
    /\ todo' = SortedIds({o.id : o \in KeptObjects(log, request.view)})
    /\ UNCHANGED <<log, request, pending, groups, answer, vars>>

NextRoot ==
    /\ phase = "grouping" /\ todo # <<>>
    /\ Root(Head(todo))
    /\ UNCHANGED providerVars

GroupObject ==
    /\ phase = "grouping"
    /\ Found
    /\ groups' = [groups EXCEPT ![found] = @ \cup {Head(todo)}]
    /\ todo' = Tail(todo)
    /\ UNCHANGED <<log, request, phase, pending, answer>>

AnswerConnected ==
    /\ phase = "grouping" /\ todo = <<>>
    /\ phase' = "answered"
    /\ answer' = Wanting(request.view, {Execution(log, request.view, groups[x]) :
                                            x \in {y \in Elements : groups[y] # {}}})
    /\ UNCHANGED <<log, request, pending, todo, groups, vars>>

AnswerLeading ==
    /\ phase = "leading"
    /\ phase' = "answered"
    /\ answer' = Leading(log, request.view, LeadingType(request))
    /\ UNCHANGED <<log, request, pending, todo, groups, vars>>

AnswerPopulation ==
    /\ phase = "population"
    /\ phase' = IF PopulationRefused(request) THEN "refused" ELSE "answered"
    /\ answer' = IF PopulationRefused(request) THEN None ELSE Resolved(log, request)
    /\ UNCHANGED <<log, request, pending, todo, groups, vars>>

ProviderNext ==
    \/ NextJoin \/ RunForest \/ StartGrouping \/ NextRoot \/ GroupObject
    \/ AnswerConnected \/ AnswerLeading \/ AnswerPopulation

ProviderSpec == ProviderInit /\ [][ProviderNext]_<<vars, providerVars>>

-----------------------------------------------------------------------------
\* Properties.

Answered(kind) == phase = "answered" /\ request.kind = kind

\* A set of objects that no event and no relation leads out of.
Closed(ids) ==
    /\ \A e \in log.events : ObjectsOf(log, e.id) \subseteq ids \/ ObjectsOf(log, e.id) \cap ids = {}
    /\ \A r \in log.o2o : r.source \in ids <=> r.target \in ids

\* What is connected to an object: the least such set.
Component(id) == {x \in Elements : \A ids \in SUBSET Elements : id \in ids /\ Closed(ids) => x \in ids}

\* Connected executions are the components of the graph of events, objects and object
\* relations, seen through the view: none is split, none is mixed with another.
ComponentsExact ==
    Answered("connected") =>
        LET kept == {o.id : o \in KeptObjects(log, request.view)}
        IN answer = Wanting(request.view,
                        {Execution(log, request.view, Component(id) \cap kept) : id \in kept})

\* The callers of the forest use it as UnionFind's specification allows, so that what
\* is proved of any sequence of joins and lookups holds for this one.
UsesForest == Init /\ [][Next]_vars

\* The executions of an exported view are the executions of the view: filtering the
\* tables first and looking then gives what looking through the filter gives.
ExportKeepsExecutions ==
    Answered("leading") =>
        LET direct == {<<x.object_ids, x.events>> : x \in answer}
            view == [DefaultView EXCEPT !.minimum_duration = request.view.minimum_duration,
                                        !.maximum_duration = request.view.maximum_duration]
            exported == Leading(Snapshot(log, request.view), view, LeadingType(request))
        IN direct = {<<x.object_ids, x.events>> : x \in exported}

\* The executions that the selector describes, from the base view.
Described ==
    LET r == request
        s == r.selector
        untimed == [r.view EXCEPT !.start = None, !.end = None]
    IN CASE s.kind = "event_time" ->
                Leading(log, [r.view EXCEPT !.start = s.start, !.end = s.end], r.lead)
         [] s.kind = "start" ->
                {x \in Leading(log, untimed, r.lead) : InWindow(s, Head(x.events))}
         [] s.kind = "contained" ->
                {x \in Leading(log, untimed, r.lead) :
                     \A i \in DOMAIN x.events : InWindow(s, x.events[i])}
         [] s.kind = "cases" -> {x \in Leading(log, r.view, r.lead) : x.object_ids \subseteq s.ids}

\* Analysing the resolved view finds exactly the executions that the selector
\* describes, whole and as many as reported, and there is no view when there are none.
PopulationFaithful ==
    Answered("population") =>
        /\ answer.count = Cardinality(Described)
        /\ IF answer.view = None THEN Described = {}
           ELSE Leading(log, answer.view, request.lead) = Described

-----------------------------------------------------------------------------
\* The parts of the inductive invariant, besides that of the forest.

ProviderTypeOK ==
    /\ log \in Logs /\ Valid(log)
    /\ request \in Requests
    /\ phase \in {"connected", "grouping", "leading", "population", "answered", "refused"}
    /\ pending \in Seq(Elements \X Elements)
    /\ todo \in Seq(Elements)
    /\ groups \in [Elements -> SUBSET Elements]

Joining == pc \in {"left", "right"}

KeptIds == {o.id : o \in KeptObjects(log, request.view)}

\* What the forest is doing for which phase.
PhasesMatch ==
    /\ phase \in {"connected", "grouping"} => request.kind = "connected"
    /\ phase \in {"leading", "population"} => request.kind = phase
    /\ Joining => phase = "connected"
    /\ pc = "find" => phase = "grouping" /\ todo # <<>> /\ call[1] = Head(todo)
    /\ phase = "grouping" => pending = <<>>
    /\ phase = "connected" => groups = [x \in Elements |-> {}]

\* The set does not separate the ends of the pair.
Together(ids, pair) == pair[1] \in ids <=> pair[2] \in ids

\* No pair is forgotten: it waits, is being joined, or its ends are in one class.
JoinsComplete ==
    phase \in {"connected", "grouping"} =>
        \A i \in 1 .. Len(Joins(log)) :
            \/ \E j \in 1 .. Len(pending) : pending[j] = Joins(log)[i]
            \/ Joining /\ call = Joins(log)[i]
            \/ class[Joins(log)[i][1]] = class[Joins(log)[i][2]]

\* Nothing is joined that a closed set of objects separates.
JoinsSound ==
    phase \in {"connected", "grouping"} =>
        \A ids \in SUBSET Elements : Closed(ids) =>
            /\ \A i \in 1 .. Len(pending) : Together(ids, pending[i])
            /\ Joining => Together(ids, call)
            /\ \A x, y \in Elements : class[x] = class[y] => (x \in ids <=> y \in ids)

\* The objects looked at so far are under the roots of their classes.
GroupsFollowRoots ==
    phase = "grouping" =>
        /\ \A x \in Elements : groups[x] # {} => parent[x] = x
        /\ \A x \in Elements : \A y \in groups[x] : class[y] = class[x] /\ y \in KeptIds
        /\ \A y \in KeptIds : \/ \E x \in Elements : y \in groups[x]
                             \/ \E i \in 1 .. Len(todo) : todo[i] = y
        /\ \A i \in 1 .. Len(todo) : todo[i] \in KeptIds

\* An answer is the one that the request's action gave.
AnswersMatch ==
    /\ Answered("leading") => answer = Leading(log, request.view, LeadingType(request))
    /\ Answered("population") => ~PopulationRefused(request) /\ answer = Resolved(log, request)

ProviderInv ==
    /\ ForestInv
    /\ ProviderTypeOK /\ PhasesMatch /\ JoinsComplete /\ JoinsSound /\ GroupsFollowRoots
    /\ ComponentsExact /\ AnswersMatch
=============================================================================
