-------------------------- MODULE MCModelLifecycle --------------------------
EXTENDS ModelLifecycle

RunOf(type, trace) == [object_type |-> type, events |-> trace]
OneType(traces) == [i \in DOMAIN traces |-> RunOf(1, traces[i])]
TwoTypes(traces) == [i \in DOMAIN traces |-> RunOf(1 + (i % 2), traces[i])]

MCRequest == [semantic_version |-> "1.0", execution_mode |-> "leading_object",
              algorithm |-> "Dfg", minimum_support |-> <<4, 5>>]
Using(algorithm) == [MCRequest EXCEPT !.algorithm = algorithm]

Task(request, discovery, edit, method, checked) ==
    [request |-> request, discovery |-> discovery, edit |-> edit, method |-> method,
     checked |-> checked, check_version |-> "1.0"]
Own(request, log, method) == Task(request, log, "none", method, log)

\* All traces of up to three events over three activities, and some longer ones.
MCTraces == BoundedSeq(1 .. 3, 3) \ {<<>>}
MCLong == {<<1, 2, 3, 4>>, <<1, 3, 2, 4>>, <<1, 4>>, <<1, 2, 4, 1>>, <<1, 2, 2, 4>>, <<3, 1, 2, 4>>}

\* Discovery, two traces in any order of traces.
MCPairs == {<<t, u>> : t, u \in MCTraces}
MCTriples == {<<t, u, v>> : t, u, v \in MCLong \cup {<<1>>, <<1, 2>>, <<2, 1>>, <<1, 3>>}}

MCTrees == {Own(Using("InductiveProcessTree"), OneType(log), "TokenReplay") : log \in MCPairs \cup MCTriples}
MCNets == {Own(Using("Alpha"), OneType(log), "TokenReplay") :
              log \in {<<t, u, v>> : t, u \in MCLong, v \in MCLong \cup {<<1>>, <<2, 1>>}}}
            \cup {Own(Using("PetriNet"), OneType(log), "TokenReplay") :
                     log \in [1 .. 4 -> {<<1, 3>>, <<2, 3>>, <<1, 4>>, <<2, 4>>}]}
            \cup {Own(Using("ObjectCentricPetriNet"), TwoTypes(log), m) :
                     log \in {<<t, u>> : t, u \in MCLong}, m \in {"OcpnQuality", "Alignment", "OcDeclare"}}
MCDeclarative == {Own([Using("OcDeclare") EXCEPT !.minimum_support = s], TwoTypes(log), "Constraints") :
                     log \in {<<t, u, v>> : t, u, v \in {<<1, 2>>, <<2, 1>>, <<1>>, <<1, 2, 1>>}},
                     s \in {<<1, 1>>, <<1, 2>>, <<3, 2>>, <<-1, 2>>}}
MCGraphs == {Own(Using(a), TwoTypes(log), m) :
                log \in {<<t, u>> : t \in MCTraces, u \in {<<2>>, <<2, 1>>, <<1, 3, 1>>, <<2, 3, 3>>}},
                a \in {"Dfg", "OcDfg"}, m \in {"FrequencyCoverage", "Alignment"}}

\* Another trace aligned with the graph of two.
MCAlignments ==
    {Task(Using("Dfg"), OneType(log), "none", "Alignment", OneType(<<t>>)) :
        log \in {<<u, v>> : u, v \in {<<1, 2, 3>>, <<2>>, <<1, 3, 1>>, <<3, 2>>}},
        t \in MCTraces \cup {<<4, 1>>}}
MCEdits ==
    {Task(Using(a), OneType(log), e, m, OneType(<<<<2, 1>>, <<1, 2>>>>)) :
        log \in {<<<<1, 2>>, <<1, 2, 3>>>>}, a \in {"OcDfg", "Alpha"},
        e \in {"ends", "edges", "activities", "version", "damage"}, m \in {"Alignment", "FrequencyCoverage"}}
MCBad == {Own([MCRequest EXCEPT !.semantic_version = "2.0"], OneType(<<<<1>>>>), "Alignment"),
          Own([MCRequest EXCEPT !.execution_mode = "other"], OneType(<<<<1>>>>), "Alignment"),
          [Own(MCRequest, OneType(<<<<1>>>>), "Alignment") EXCEPT !.check_version = "2.0"],
          Own(Using("Alpha"), <<>>, "TokenReplay")}

MCTasks ==
    MCTrees \cup (MCNets \cup (MCDeclarative \cup (MCGraphs \cup (MCAlignments \cup (MCEdits \cup MCBad)))))
=============================================================================
