------------------------------ MODULE Discovery ------------------------------
(***************************************************************************)
(* Process models discovered from a sequence of executions                 *)
(* (crates/ocpm-discovery/src/lib.rs). An execution has an object type and *)
(* its events, of which only the activity matters here. Activities and     *)
(* object types are numbers in the order of their names. A share is a pair *)
(* <<count, total>>; artifacts are compared by content, as their hash does.*)
(***************************************************************************)
EXTENDS Integers, Sequences, SequencesExt, FiniteSets, FiniteSetsExt, Functions

CONSTANTS MaxAlphaCandidates,   \* MAX_ALPHA_CANDIDATES
          MaxCutDepth,          \* 128: the deepest cut of a process tree
          NoType                \* no object type, no target

ActivitiesOf(executions) == UNION {ToSet(executions[i].events) : i \in DOMAIN executions}
TypesOf(executions) == {executions[i].object_type : i \in DOMAIN executions}

\* windows(2).
Windows(trace) == {<<trace[k], trace[k + 1]>> : k \in 1 .. Len(trace) - 1}

\* How many elements of S have each key.
CountBy(S, key(_)) == [k \in {key(x) : x \in S} |-> Cardinality({x \in S : key(x) = k})]

-----------------------------------------------------------------------------
\* Mutation: the last window of an execution is not counted.
WindowsAtShort(executions) ==
    UNION {{<<i, k>> : k \in 1 .. Len(executions[i].events) - 2} : i \in DOMAIN executions}

\* The windows of all executions, as <<execution, position>>.
WindowsAt(executions) ==
    UNION {{<<i, k>> : k \in 1 .. Len(executions[i].events) - 1} : i \in DOMAIN executions}

\* discover_dfg. Boundaries are counted by type and activity and then added up.
DiscoverDfg(executions, objectCentric) ==
    LET type(i) == IF objectCentric THEN executions[i].object_type ELSE 0
        events(i) == executions[i].events
        nonempty == {i \in DOMAIN executions : events(i) # <<>>}
        decoded(counts) == [a \in {key[2] : key \in DOMAIN counts} |->
                               MapThenSumSet(LAMBDA key : counts[key],
                                             {key \in DOMAIN counts : key[2] = a})]
    IN [activities |-> ActivitiesOf(executions),
        start_activities |-> decoded(CountBy(nonempty, LAMBDA i : <<type(i), events(i)[1]>>)),
        end_activities |-> decoded(CountBy(nonempty, LAMBDA i : <<type(i), Last(events(i))>>)),
        edges |-> CountBy(WindowsAt(executions),
                          LAMBDA s : <<events(s[1])[s[2]], events(s[1])[s[2] + 1], type(s[1])>>)]

-----------------------------------------------------------------------------
\* Alpha. A place is named by its sources and targets, a transition by its activity.

SourcePlace == <<"source", {}, {}>>
SinkPlace == <<"sink", {}, {}>>
PlaceFor(pair) == <<"p", pair[1], pair[2]>>
TransitionFor(a) == <<"t", {a}, {}>>

\* pairwise_unrelated: an activity may follow itself.
PairwiseUnrelated(values, follows) ==
    \A a, b \in values : a = b \/ (<<a, b>> \notin follows /\ <<b, a>> \notin follows)

\* valid_alpha_pair.
ValidAlphaPair(sources, targets, causal, follows) ==
    /\ sources \X targets \subseteq causal
    /\ PairwiseUnrelated(sources, follows)
    /\ PairwiseUnrelated(targets, follows)

\* Mutation: pairs with the same targets are not joined.
AlphaRoundOneSided(candidates, causal, follows) ==
    candidates \cup
        {<<pq[1][1], pq[1][2] \cup pq[2][2]>> : pq \in
            {<<p, q>> \in candidates \X candidates :
                /\ p[1] = q[1]
                /\ ValidAlphaPair(p[1], p[2] \cup q[2], causal, follows)}}

\* One round of the loop: any two candidates with a side in common are joined.
AlphaRound(candidates, causal, follows) ==
    LET pairs == candidates \X candidates
    IN candidates
         \cup {<<pq[1][1], pq[1][2] \cup pq[2][2]>> : pq \in
                  {<<p, q>> \in pairs : /\ p[1] = q[1]
                                        /\ ValidAlphaPair(p[1], p[2] \cup q[2], causal, follows)}}
         \cup {<<pq[1][1] \cup pq[2][1], pq[1][2]>> : pq \in
                  {<<p, q>> \in pairs : /\ p[2] = q[2]
                                        /\ ValidAlphaPair(p[1] \cup q[1], p[2], causal, follows)}}

\* The candidates when the loop ends: at a fixed point, or past the bound.
AlphaCandidates(activities, causal, follows) ==
    LET grow[c \in SUBSET ((SUBSET activities) \X (SUBSET activities))] ==
            LET next == AlphaRound(c, causal, follows)
            IN IF next = c \/ Cardinality(next) > MaxAlphaCandidates THEN next ELSE grow[next]
    IN grow[{<<{pair[1]}, {pair[2]}>> : pair \in causal}]

\* The candidates that no other one contains.
Maximal(candidates) ==
    {c \in candidates : \A d \in candidates : c # d => ~(c[1] \subseteq d[1] /\ c[2] \subseteq d[2])}

\* The arcs of the net: from the source, to the sink, and to and from every place.
ArcsOf(dfg, places) ==
    {<<SourcePlace, TransitionFor(a)>> : a \in DOMAIN dfg.start_activities}
      \cup {<<TransitionFor(a), SinkPlace>> : a \in DOMAIN dfg.end_activities}
      \cup UNION {{<<TransitionFor(a), PlaceFor(c)>> : a \in c[1]} : c \in places}
      \cup UNION {{<<PlaceFor(c), TransitionFor(a)>> : a \in c[2]} : c \in places}

\* Arcs have the weight 1; an arc is annotated by OCPN discovery only.
NetOf(dfg, places) ==
    [places |-> {SourcePlace, SinkPlace} \cup {PlaceFor(c) : c \in places},
     transitions |-> dfg.activities,
     arcs |-> [arc \in ArcsOf(dfg, places) |-> [object_type |-> NoType, variable |-> FALSE]]]

FollowsIn(dfg) == {<<e[1], e[2]>> : e \in DOMAIN dfg.edges}
CausalIn(follows) == {pair \in follows : <<pair[2], pair[1]>> \notin follows}

AlphaFrom(dfg, candidates) ==
    [exceeded |-> Cardinality(candidates) > MaxAlphaCandidates, net |-> NetOf(dfg, Maximal(candidates))]
AlphaOf(dfg) ==
    AlphaFrom(dfg, AlphaCandidates(dfg.activities, CausalIn(FollowsIn(dfg)), FollowsIn(dfg)))

\* discover_alpha.
DiscoverAlpha(executions) == AlphaOf(DiscoverDfg(executions, FALSE))

\* An arc takes the types of its transition's events.
Annotated(alpha, executions) ==
    LET transitionOf(arc) == CHOOSE a \in alpha.net.transitions : TransitionFor(a) \in {arc[1], arc[2]}
        typesOf(a) == {executions[i].object_type :
                           i \in {j \in DOMAIN executions : a \in ToSet(executions[j].events)}}
        annotation(types) == [object_type |-> IF Cardinality(types) = 1 THEN Max(types) ELSE NoType,
                              variable |-> Cardinality(types) > 1]
    IN [alpha EXCEPT !.net.arcs = [arc \in DOMAIN alpha.net.arcs |-> annotation(typesOf(transitionOf(arc)))]]

\* discover_object_centric_petri_net.
DiscoverOcpn(executions) == Annotated(DiscoverAlpha(executions), executions)

-----------------------------------------------------------------------------
\* Process trees. The cut is recursive; a panic of the code is a node of its own.

Node(op, activity, children) == [op |-> op, activity |-> activity, children |-> children]
Leaf(a) == Node("activity", a, <<>>)
Leaves(s) == [i \in DOMAIN s |-> Leaf(s[i])]
Tau == Node("tau", 0, <<>>)
Panic == Node("panic", 0, <<>>)

\* common_boundary: NoType if the traces do not begin (end) with one activity.
CommonBoundary(traces, first) ==
    LET boundary(t) == IF t = <<>> THEN NoType ELSE IF first THEN t[1] ELSE Last(t)
    IN IF \A t \in ToSet(traces) : t # <<>> /\ boundary(t) = boundary(traces[1])
       THEN boundary(traces[1]) ELSE NoType

\* compact_sequence.
CompactSequence(children) ==
    LET kept == SelectSeq(children, LAMBDA c : c # Tau)
    IN IF kept = <<>> THEN Tau ELSE IF Len(kept) = 1 THEN kept[1] ELSE Node("sequence", 0, kept)

\* The order of Vec<String>.
TraceBefore(s, t) ==
    \/ Len(s) < Len(t) /\ s = SubSeq(t, 1, Len(s))
    \/ \E i \in DOMAIN s \cap DOMAIN t : s[i] < t[i] /\ \A j \in 1 .. i - 1 : s[j] = t[j]

\* most_frequent_trace: the first of the most frequent ones.
MostFrequentTrace(traces) ==
    LET frequency(t) == Cardinality({i \in DOMAIN traces : traces[i] = t})
    IN CHOOSE t \in ToSet(traces) :
           \A u \in ToSet(traces) \ {t} : \/ frequency(u) < frequency(t)
                                          \/ frequency(u) = frequency(t) /\ TraceBefore(t, u)

\* direct_relations.
DirectRelations(traces) == UNION {Windows(traces[i]) : i \in DOMAIN traces}

\* topological_activity_order: the queue is kept sorted, so the smallest activity whose
\* predecessors are all out comes next. Activities on a cycle never come.
TopologicalOrder(activities, follows) ==
    LET directed == {pair \in follows : <<pair[2], pair[1]>> \notin follows}
        ready(order) == {a \in activities \ ToSet(order) :
                            \A pair \in directed : pair[2] = a => pair[1] \in ToSet(order)}
        next(order, k) == IF ready(order) = {} THEN order ELSE Append(order, Min(ready(order)))
    IN FoldLeft(next, <<>>, [k \in 1 .. Cardinality(activities) |-> k])

Heads(traces) == [i \in DOMAIN traces |-> Front(traces[i])]
Tails(traces) == [i \in DOMAIN traces |-> Tail(traces[i])]

\* by_first: the traces that begin with each activity.
ByFirst(traces) ==
    [a \in {traces[i][1] : i \in DOMAIN traces} |-> SelectSeq(traces, LAMBDA t : t[1] = a)]

\* The fall-through: an order of the activities, or a loop around the first one.
FallThrough(traces, activities) ==
    LET follows == DirectRelations(traces)
        order == TopologicalOrder(activities, follows)
        representative == MostFrequentTrace(traces)
    IN IF \A a, b \in activities : a = b \/ {<<a, b>>, <<b, a>>} \subseteq follows
       THEN Node("parallel", 0, Leaves(SetToSortSeq(activities, <)))
       ELSE IF Len(order) = Cardinality(activities) THEN Node("sequence", 0, Leaves(order))
       ELSE IF representative = <<>> THEN Node("loop", 0, <<Tau, Tau>>)
       ELSE Node("loop", 0, <<Leaf(representative[1]), CompactSequence(Leaves(Tail(representative)))>>)

\* process_tree_cut. The grouping by first activity indexes every trace at 0, which
\* panics on an empty one.
RECURSIVE ProcessTreeCut(_, _)
ProcessTreeCut(traces, depth) ==
    LET activities == UNION {ToSet(traces[i]) : i \in DOMAIN traces}
        first == CommonBoundary(traces, TRUE)
        last == CommonBoundary(traces, FALSE)
        groups == ByFirst(traces)
        alphabet(a) == UNION {ToSet(t) : t \in ToSet(groups[a])}
        order == SetToSortSeq(DOMAIN groups, <)
    IN CASE traces = <<>> -> Tau
         [] traces # <<>> /\ Cardinality(activities) = 1 -> Leaf(Max(activities))
         [] Cardinality(activities) # 1 /\ depth >= MaxCutDepth ->
                Node("sequence", 0, Leaves(MostFrequentTrace(traces)))
         [] OTHER ->
            IF first # NoType
            THEN CompactSequence(<<Leaf(first), ProcessTreeCut(Tails(traces), depth + 1)>>)
            ELSE IF last # NoType
            THEN CompactSequence(<<ProcessTreeCut(Heads(traces), depth + 1), Leaf(last)>>)
            ELSE IF <<>> \in ToSet(traces) THEN Panic
            ELSE IF /\ Len(order) > 1
                    /\ \A a, b \in DOMAIN groups : a = b \/ alphabet(a) \cap alphabet(b) = {}
            THEN Node("exclusive", 0, [i \in DOMAIN order |-> ProcessTreeCut(groups[order[i]], depth + 1)])
            ELSE FallThrough(traces, activities)

RECURSIVE NodesOf(_)
NodesOf(tree) == {tree} \cup UNION {NodesOf(tree.children[i]) : i \in DOMAIN tree.children}

\* discover_process_tree, with the cut at a depth.
TreeFrom(executions, depth) ==
    ProcessTreeCut(SelectSeq([i \in DOMAIN executions |-> executions[i].events],
                             LAMBDA t : t # <<>>), depth)
DiscoverProcessTree(executions) == TreeFrom(executions, 0)

-----------------------------------------------------------------------------
\* Declarative constraints.

\* response_holds.
ResponseHolds(trace, activation, target) ==
    \A i \in DOMAIN trace : trace[i] = activation =>
        \E j \in i + 1 .. Len(trace) : trace[j] = target

\* common_object_type.
CommonObjectType(executions) ==
    IF Cardinality(TypesOf(executions)) = 1 THEN Max(TypesOf(executions)) ELSE NoType

\* discover_declare: existence of activities, response between two of them.
DiscoverDeclare(executions, minimumSupport) ==
    LET activities == ActivitiesOf(executions)
        total == Len(executions)
        containing(a) == Cardinality({i \in DOMAIN executions : a \in ToSet(executions[i].events)})
        responding(a, b) == Cardinality({i \in DOMAIN executions :
                                            ResponseHolds(executions[i].events, a, b)})
        supported(n) == n * minimumSupport[2] >= minimumSupport[1] * total
        constraint(template, a, b, n, confidence) ==
            [template |-> template, activation |-> a, target |-> b,
             object_type |-> CommonObjectType(executions),
             support |-> <<n, total>>, confidence |-> confidence]
    IN {constraint("Existence", a, NoType, containing(a), <<containing(a), total>>) :
            a \in {b \in activities : supported(containing(b))}}
       \cup {constraint("Response", p[1], p[2], responding(p[1], p[2]),
                        <<responding(p[1], p[2]), containing(p[1])>>) :
            p \in {q \in activities \X activities : q[1] # q[2] /\ supported(responding(q[1], q[2]))}}

-----------------------------------------------------------------------------
\* The model of an algorithm, or the error code of the call.
Model(kind, content) == [kind |-> kind, content |-> content]

\* discover, once the provider has delivered the executions.
Discovered(request, executions) ==
    LET alpha == DiscoverAlpha(executions)
        tree == DiscoverProcessTree(executions)
        failed(code) == Model("error", code)
        support == request.minimum_support
    IN CASE request.semantic_version # "1.0" -> failed("InvalidRequest")
         [] request.execution_mode \notin {"connected_component", "leading_object"} ->
                failed("InvalidRequest")
         [] OTHER ->
            IF executions = <<>> THEN failed("InsufficientData")
            ELSE CASE request.algorithm = "Dfg" -> Model("dfg", DiscoverDfg(executions, FALSE))
                   [] request.algorithm = "OcDfg" -> Model("dfg", DiscoverDfg(executions, TRUE))
                   [] request.algorithm \in {"Alpha", "PetriNet"} ->
                          IF alpha.exceeded THEN failed("ResourceLimit") ELSE Model("petri_net", alpha.net)
                   [] request.algorithm = "InductiveProcessTree" ->
                          IF Panic \in NodesOf(tree) THEN failed("Panic") ELSE Model("process_tree", tree)
                   [] request.algorithm = "ObjectCentricPetriNet" ->
                          IF alpha.exceeded THEN failed("ResourceLimit")
                          ELSE Model("ocpn", DiscoverOcpn(executions).net)
                   [] request.algorithm = "OcDeclare" ->
                          IF support[1] \notin 0 .. support[2] THEN failed("InvalidRequest")
                          ELSE Model("declare", DiscoverDeclare(executions, support))
=============================================================================
