--------------------------- MODULE ModelLifecycle ---------------------------
(***************************************************************************)
(* The life of a model artifact: discover (crates/ocpm-discovery) makes it *)
(* from the executions of a view, the client keeps it and may edit it, and *)
(* check (crates/ocpm-conformance) measures executions against it. The     *)
(* alignment search runs step by step, one popped entry at a time. The     *)
(* provider that delivers the executions is external: it may fail.         *)
(***************************************************************************)
EXTENDS Conformance

CONSTANT Tasks  \* request, discovery executions, edit; method, version and executions of the check

VARIABLES task,
          stage,
          artifact,
          report,       \* of the check, with the error code that a call returned
          search,       \* of the execution that is aligned now
          tally         \* of the executions that are aligned

modelVars == <<task, stage, artifact, report, search, tally>>

NoSearch == [heap |-> {}, distance |-> <<>>, expanded |-> 0]
NoTally == [next |-> 1, costs |-> <<>>, expanded |-> 0]

\* An artifact whose hash covers its model (finalize_hash).
Finalized(model) == [schema_version |-> "1.0", model |-> model, content_hash |-> model]

ModelFrom(tasks) ==
    /\ task \in tasks
    /\ stage = "discover"
    /\ artifact = Finalized(Model("none", NoType))
    /\ report = [code |-> "none", value |-> NoType]
    /\ search = NoSearch
    /\ tally = NoTally

ModelInit == ModelFrom(Tasks)

Return(value) == report' = [code |-> "ok", value |-> value] /\ stage' = "done"
Fail(code) == report' = [code |-> code, value |-> NoType] /\ stage' = "done"

\* discover.
Discover ==
    /\ stage = "discover"
    /\ LET model == Discovered(task.request, task.discovery)
       IN \/ /\ model.kind # "error"
             /\ artifact' = Finalized(model) /\ stage' = "keep" /\ UNCHANGED report
          \/ model.kind = "error" /\ Fail(model.content) /\ UNCHANGED artifact
          \/ Fail("ProviderError") /\ UNCHANGED artifact
    /\ UNCHANGED <<task, search, tally>>

\* What a client may do to a directly-follows graph.
Edited(dfg) ==
    CASE task.edit = "ends" -> [dfg EXCEPT !.end_activities = <<>>]
      [] task.edit = "edges" -> [dfg EXCEPT !.edges = <<>>]
      [] task.edit = "activities" -> [dfg EXCEPT !.activities = {}]
      [] OTHER -> dfg

\* The client keeps the artifact: as it is, edited and finalized again, or damaged.
Keep ==
    /\ stage = "keep"
    /\ stage' = "check"
    /\ artifact' = CASE task.edit = "version" -> [artifact EXCEPT !.schema_version = "2.0"]
                     [] task.edit = "damage" -> [artifact EXCEPT !.model = Model("none", NoType)]
                     [] artifact.model.kind = "dfg" ->
                            Finalized([artifact.model EXCEPT !.content = Edited(@)])
                     [] OTHER -> artifact
    /\ UNCHANGED <<task, report, search, tally>>

\* validate_artifact.
ArtifactValid == /\ artifact.schema_version = "1.0"
                 /\ artifact.content_hash = artifact.model

\* The models a method takes. Alignment of a net is a replay.
Takes(method, kind) ==
    CASE method = "FrequencyCoverage" -> kind = "dfg"
      [] method = "TokenReplay" -> kind \in {"petri_net", "ocpn"}
      [] method = "Alignment" -> kind \in {"dfg", "petri_net", "ocpn"}
      [] method = "OcpnQuality" -> kind = "ocpn"
      [] method \in {"OcDeclare", "Constraints"} -> kind = "declare"

\* The report of a method that needs no search.
Checked(executions, model) ==
    CASE model.kind = "dfg" -> FrequencyCoverage(executions, model.content)
      [] model.kind \in {"petri_net", "ocpn"} -> TokenReplay(executions, model.content)
      [] model.kind = "declare" -> Declarative(executions, model.content)

\* check.
Check ==
    /\ stage = "check"
    /\ \/ task.check_version # "1.0" /\ Fail("InvalidRequest")
       \/ task.check_version = "1.0" /\ ~ArtifactValid /\ Fail("ArtifactIncompatible")
       \/ task.check_version = "1.0" /\ ArtifactValid /\ Fail("ProviderError")
       \/ /\ task.check_version = "1.0" /\ ArtifactValid
          /\ IF task.method = "Alignment" /\ artifact.model.kind = "dfg"
             THEN stage' = "align" /\ UNCHANGED report
             ELSE IF Takes(task.method, artifact.model.kind)
             THEN Return(Checked(task.checked, artifact.model))
             ELSE Fail("InvalidRequest")
    /\ UNCHANGED <<task, artifact, search, tally>>

-----------------------------------------------------------------------------
\* alignment, over the executions in order.

Dfg == artifact.model.content
Aligned == task.checked[tally.next].events

\* align_dfg begins, unless all executions are done.
Align ==
    /\ stage = "align"
    /\ LET events(i) == Len(task.checked[i].events)
           within(i) == events(i) - Min({tally.costs[i], events(i)})
           conforming == OverAll(task.checked, within)
           moves == OverAll(task.checked, LAMBDA i : tally.costs[i])
       IN IF tally.next > Len(task.checked)
          THEN /\ Return(Report(Ratio(conforming, conforming + moves), NoType, conforming, moves,
                                {i \in DOMAIN task.checked : tally.costs[i] > 0}))
               /\ UNCHANGED search
          ELSE IF DOMAIN Dfg.start_activities = {} \/ DOMAIN Dfg.end_activities = {}
          THEN Fail("InsufficientData") /\ UNCHANGED search
          ELSE /\ search' = SearchStart(Dfg, Aligned)
               /\ stage' = "search" /\ UNCHANGED report
    /\ UNCHANGED <<task, artifact, tally>>

\* An entry that a cheaper one has replaced is dropped.
PopStale ==
    /\ stage = "search" /\ search.heap # {}
    /\ LET e == Popped(search.heap)
       IN /\ search.distance[<<e[2], e[3]>>] # e[1]
          /\ search' = [search EXCEPT !.heap = @ \ {e}]
    /\ UNCHANGED <<task, stage, artifact, report, tally>>

\* An entry is expanded, within the bound, unless it ends the search.
Pop ==
    /\ stage = "search" /\ search.heap # {}
    /\ LET e == Popped(search.heap)
           counted == [search EXCEPT !.heap = @ \ {e}, !.expanded = @ + 1]
       IN /\ search.distance[<<e[2], e[3]>>] = e[1]
          /\ IF counted.expanded > StateBound(Dfg, Aligned)
             THEN Fail("SearchTruncated") /\ search' = counted /\ UNCHANGED tally
             ELSE IF e[2] = Len(Aligned) /\ e[3] \in DOMAIN Dfg.end_activities
             THEN /\ tally' = [next |-> tally.next + 1, costs |-> Append(tally.costs, e[1]),
                               expanded |-> tally.expanded + counted.expanded]
                  /\ search' = NoSearch
                  /\ stage' = "align" /\ UNCHANGED report
             ELSE /\ search' = RelaxAll(counted, Offers(Dfg, Aligned, e))
                  /\ UNCHANGED <<stage, report, tally>>
    /\ UNCHANGED <<task, artifact>>

\* The heap is empty: no path of the graph ends in an end activity.
SearchFails ==
    /\ stage = "search" /\ search.heap = {}
    /\ Fail("InsufficientData")
    /\ UNCHANGED <<task, artifact, search, tally>>

ModelNext == Discover \/ Keep \/ Check \/ Align \/ PopStale \/ Pop \/ SearchFails

ModelSpec == ModelInit /\ [][ModelNext]_modelVars

-----------------------------------------------------------------------------
\* Properties.

\* A model describes the executions it was discovered from: a graph covers them, all of
\* it is used and they align at no cost; a net has a transition for every event, and its
\* replay neither loses nor invents a token; a constraint fails exactly in the executions
\* that its support does not count (discover against check).
DiscoveredModelFits ==
    stage = "done" /\ report.code = "ok" /\ task.edit = "none" /\ task.checked = task.discovery =>
        LET executions == task.checked
            value == report.value
            kind == artifact.model.kind
            model == artifact.model.content
            events == OverAll(executions, LAMBDA i : Len(executions[i].events))
        IN CASE kind = "dfg" ->
                    /\ value.deviations = 0
                    /\ IF task.method = "Alignment" THEN value.conforming = events
                       ELSE value.precision[1] = value.precision[2]
             [] kind \in {"petri_net", "ocpn"} ->
                    /\ value.conforming = events
                    /\ \A i \in DOMAIN executions :
                           LET replay == ReplayTrace(model, executions[i].events)
                           IN replay.tokens = 1 + replay.produced + replay.missing - replay.consumed
             [] kind = "declare" ->
                    value.deviations = MapThenSumSet(LAMBDA c : c.support[2] - c.support[1], model)

-----------------------------------------------------------------------------
\* Alignments by their definition, over the paths of a graph.

PathsUpTo(dfg, n) ==
    {path \in BoundedSeq(dfg.activities, n) :
        /\ path # <<>>
        /\ path[1] \in DOMAIN dfg.start_activities
        /\ Last(path) \in DOMAIN dfg.end_activities
        /\ Windows(path) \subseteq {<<e[1], e[2]>> : e \in DOMAIN dfg.edges}}

\* The cheapest way to go through the trace and the path together. An event or an activity
\* alone costs 1, but the first activity costs enter, and an event with an activity what
\* pair gives their positions.
CostAlong(trace, path, enter, pair(_, _)) ==
    LET cost[i \in 0 .. Len(trace), j \in 0 .. Len(path)] ==
            IF i = 0 /\ j = 0 THEN 0
            ELSE Min((IF i > 0 THEN {cost[i - 1, j] + 1} ELSE {})
                       \cup (IF j > 0 THEN {cost[i, j - 1] + (IF j = 1 THEN enter ELSE 1)} ELSE {})
                       \cup (IF i > 0 /\ j > 0 THEN {cost[i - 1, j - 1] + pair(i, j)} ELSE {}))
    IN cost[Len(trace), Len(path)]

PathsFor(trace) == PathsUpTo(Dfg, Len(trace) + Cardinality(Dfg.activities))

\* The documented cost: an event only goes with its own activity, or else is a log move
\* beside a model move.
UnitCost(trace) ==
    Min({CostAlong(trace, p, 1, LAMBDA i, j : 2 * Mismatch(trace[i], p[j])) : p \in PathsFor(trace)})

\* The cost of the moves that align_dfg offers: the graph is entered for free, before the
\* first event or with it, and an event goes with another activity for 1.
OfferedCost(trace) ==
    Min({CostAlong(trace, p, 0, LAMBDA i, j : IF i > 1 /\ j = 1 THEN 1 ELSE Mismatch(trace[i], p[j])) :
            p \in PathsFor(trace)})

\* docs/ocpm-engine-1.0.0-spec.md, Alignment: "A* over synchronous/log/model moves; unit
\* log/model cost, zero synchronous cost" (align_dfg).
AlignmentHasUnitCost ==
    stage = "align" =>
        \A i \in DOMAIN tally.costs : tally.costs[i] = UnitCost(task.checked[i].events)

\* Where the moves of the code make no difference, an alignment has the documented cost;
\* anywhere else it misses that by what its entry costs (one move either way) and what
\* replaced activities save (half of it). The search fails only if the graph has no path,
\* and it never meets its state bound unless a client removed activities from the graph
\* (align_dfg: outdated entries are dropped before they are counted).
AlignmentOptimal ==
    /\ stage = "align" =>
           \A i \in DOMAIN tally.costs :
               LET unit == UnitCost(task.checked[i].events)
               IN /\ OfferedCost(task.checked[i].events) = unit => tally.costs[i] = unit
                  /\ tally.costs[i] <= unit + 1 /\ unit <= 2 * tally.costs[i] + 1
    /\ artifact.model.kind = "dfg" /\ stage = "done" =>
           /\ report.code = "InsufficientData" => PathsUpTo(Dfg, 4) = {}
           /\ report.code = "SearchTruncated" => task.edit = "activities"

-----------------------------------------------------------------------------
\* The places of a net are the largest pairs of causes and effects that the footprint of
\* the log allows, whatever order the candidates were joined in (discover_alpha). This is
\* "Classic Alpha relations on one explicit flattened object-type view": of one object
\* type, and without an activity that follows itself, which the classic pairs leave out
\* and the code keeps.
AlphaPlacesMaximal ==
    LET traces == [i \in DOMAIN task.discovery |-> task.discovery[i].events]
        follows == DirectRelations(traces)
        causes(a, b) == <<a, b>> \in follows /\ <<b, a>> \notin follows
        apart(S) == \A a, b \in S : <<a, b>> \notin follows
        sides == SUBSET ActivitiesOf(task.discovery) \ {{}}
        pairs == {<<A, B>> \in sides \X sides : /\ apart(A) /\ apart(B)
                                               /\ \A a \in A, b \in B : causes(a, b)}
        larger(p, q) == p[1] \subseteq q[1] /\ p[2] \subseteq q[2] /\ p # q
    IN /\ stage = "keep" /\ artifact.model.kind = "petri_net"
       /\ Cardinality(TypesOf(task.discovery)) = 1
       /\ \A a \in ActivitiesOf(task.discovery) : <<a, a>> \notin follows
       => artifact.model.content.places
            = {SourcePlace, SinkPlace}
              \cup {PlaceFor(p) : p \in {q \in pairs : ~\E r \in pairs : larger(q, r)}}

\* Without noise every activity of the log is in the tree, and no other: only a loop or
\* the depth limit, which keep one trace, lose some. The cut panics only if a trace is
\* used up by what the traces have in common (process_tree_cut).
TreeKeepsActivities ==
    LET nodes == NodesOf(artifact.model.content)
        named == {n.activity : n \in {m \in nodes : m.op = "activity"}}
        limited == artifact.model.content # TreeFrom(task.discovery, 0 - 2 * MaxCutDepth)
        traces == {task.discovery[i].events : i \in DOMAIN task.discovery}
        \* t is what remains of u when a middle part is left out.
        spans(t, u) == \E k \in 0 .. Len(t) : /\ IsPrefix(SubSeq(t, 1, k), u)
                                             /\ IsSuffix(SubSeq(t, k + 1, Len(t)), u)
                                             /\ Len(t) < Len(u)
    IN /\ stage = "keep" /\ artifact.model.kind = "process_tree" =>
              /\ named \subseteq ActivitiesOf(task.discovery)
              /\ (\A n \in nodes : n.op # "loop") /\ ~limited => named = ActivitiesOf(task.discovery)
       /\ report.code = "Panic" => \E t, u \in traces : spans(t, u)

\* docs/ocpm-engine-1.0.0-spec.md: "Panics may not cross FFI. Python receives stable
\* typed exceptions." A discovery ends with an artifact or an error, whatever traces the
\* view has (process_tree_cut).
DiscoveryReturns == report.code # "Panic"

\* A discovered Petri net, of one object type, or process tree is the one its definition
\* asks for.
DiscoveryFaithful == AlphaPlacesMaximal /\ TreeKeepsActivities
=============================================================================
