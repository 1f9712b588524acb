----------------------------- MODULE Conformance -----------------------------
(***************************************************************************)
(* Executions checked against a model                                      *)
(* (crates/ocpm-conformance/src/lib.rs): coverage by a directly-follows    *)
(* graph, token replay, the declarative templates, and the steps of the    *)
(* alignment search. A violation is the number of its execution.           *)
(***************************************************************************)
EXTENDS Discovery

\* ratio: nothing to compare is a perfect score.
Ratio(n, d) == IF d = 0 THEN <<1, 1>> ELSE <<n, d>>

Report(fitness, precision, conforming, deviations, violations) ==
    [fitness |-> fitness, precision |-> precision, conforming |-> conforming,
     deviations |-> deviations, violations |-> violations]

\* The sum of a number over the executions.
OverAll(executions, value(_)) == MapThenSumSet(value, DOMAIN executions)

-----------------------------------------------------------------------------
\* frequency_coverage.
FrequencyCoverage(executions, dfg) ==
    LET allowed == {<<e[1], e[2]>> : e \in DOMAIN dfg.edges}
        step(i, k) == <<executions[i].events[k], executions[i].events[k + 1]>>
        deviating(i) == {k \in 1 .. Len(executions[i].events) - 1 : step(i, k) \notin allowed}
        observed == {step(s[1], s[2]) : s \in WindowsAt(executions)}
        deviations == OverAll(executions, LAMBDA i : Cardinality(deviating(i)))
        total == Cardinality(WindowsAt(executions))
    IN Report(Ratio(total - deviations, total),
              Ratio(Cardinality(observed \cap allowed), Cardinality(allowed)),
              total - deviations, deviations, {i \in DOMAIN executions : deviating(i) # {}})

-----------------------------------------------------------------------------
\* Token replay.

InitialTokens(p) == IF p = SourcePlace THEN 1 ELSE 0
FinalTokens(p) == IF p = SinkPlace THEN 1 ELSE 0

\* The transition of an activity fires; missing tokens are put in first.
Fire(net, replay, a) ==
    LET t == TransitionFor(a)
        incoming == {p \in net.places : <<p, t>> \in DOMAIN net.arcs}
        outgoing == {p \in net.places : <<t, p>> \in DOMAIN net.arcs}
        lacking == {p \in incoming : replay.tokens[p] = 0}
        taken(p) == IF p \in incoming \ lacking THEN replay.tokens[p] - 1 ELSE replay.tokens[p]
    IN [replay EXCEPT
           !.tokens = [p \in net.places |-> IF p \in outgoing THEN taken(p) + 1 ELSE taken(p)],
           !.missing = @ + Cardinality(lacking),
           !.consumed = @ + Cardinality(incoming), !.produced = @ + Cardinality(outgoing)]

\* An activity without a transition is a log move.
ReplayEvent(net, replay, a) ==
    IF a \in net.transitions THEN Fire(net, replay, a) ELSE [replay EXCEPT !.log_moves = @ + 1]

\* replay_trace.
ReplayTrace(net, trace) ==
    LET start == [tokens |-> [p \in net.places |-> InitialTokens(p)],
                  missing |-> 0, consumed |-> 0, produced |-> 0, log_moves |-> 0]
        end == FoldLeft(LAMBDA replay, a : ReplayEvent(net, replay, a), start, trace)
        apart(p) == IF end.tokens[p] >= FinalTokens(p) THEN end.tokens[p] - FinalTokens(p)
                                                       ELSE FinalTokens(p) - end.tokens[p]
    IN [end EXCEPT !.tokens = MapThenSumSet(LAMBDA p : end.tokens[p], net.places)]
         @@ ("remaining" :> MapThenSumSet(apart, net.places))

\* token_replay. The fitness is clamped at 0.
TokenReplay(executions, net) ==
    LET replay == [i \in DOMAIN executions |-> ReplayTrace(net, executions[i].events)]
        faults(i) == replay[i].log_moves + replay[i].missing + replay[i].remaining
        consumed == Max({OverAll(executions, LAMBDA i : replay[i].consumed), 1})
        produced == Max({OverAll(executions, LAMBDA i : replay[i].produced), 1})
        missing == OverAll(executions, LAMBDA i : replay[i].missing)
        remaining == OverAll(executions, LAMBDA i : replay[i].remaining)
        penalty == missing * produced + remaining * consumed
        scale == 2 * consumed * produced
    IN Report(<<IF penalty > scale THEN 0 ELSE scale - penalty, scale>>, NoType,
              OverAll(executions, LAMBDA i : Len(executions[i].events) - replay[i].log_moves),
              OverAll(executions, faults), {i \in DOMAIN executions : faults(i) > 0})

-----------------------------------------------------------------------------
\* Declarative constraints.

PositionsOf(trace, a) == {i \in DOMAIN trace : trace[i] = a}
Answered(activation, target) == \A i \in activation : \E j \in target : j > i
Preceded(activation, target) == \A j \in target : \E i \in activation : i < j

\* declare_holds.
DeclareHolds(trace, c) ==
    LET activation == PositionsOf(trace, c.activation)
        target == PositionsOf(trace, c.target)
    IN CASE c.template = "Existence" -> activation # {}
         [] c.template = "Absence" -> activation = {}
         [] c.template = "Exactly" -> Cardinality(activation) = 1
         [] c.template = "Init" -> 1 \in activation
         [] c.template = "End" -> Len(trace) \in activation
         [] c.template = "Response" -> Answered(activation, target)
         [] c.template = "Precedence" -> Preceded(activation, target)
         [] c.template = "Succession" -> Answered(activation, target) /\ Preceded(activation, target)
         [] c.template = "Coexistence" -> (activation = {}) = (target = {})
         [] c.template = "NotCoexistence" -> activation = {} \/ target = {}
         [] c.template = "Choice" -> activation # {} \/ target # {}
         [] c.template = "ExclusiveChoice" -> (activation = {}) # (target = {})

\* declarative.
Declarative(executions, constraints) ==
    LET failed(i) == Cardinality({c \in constraints : ~DeclareHolds(executions[i].events, c)})
        total == Cardinality(constraints) * Len(executions)
        deviations == OverAll(executions, failed)
    IN Report(Ratio(total - deviations, total), NoType, total - deviations, deviations,
              {i \in DOMAIN executions : failed(i) > 0})

-----------------------------------------------------------------------------
\* The alignment search: heap entries are <<cost, index, activity>>, where index events
\* of the trace and a path of the graph that ends in the activity are aligned.

\* relax.
Relax(search, entry) ==
    LET key == <<entry[2], entry[3]>>
    IN IF key \in DOMAIN search.distance /\ search.distance[key] <= entry[1] THEN search
       ELSE [search EXCEPT !.distance = (key :> entry[1]) @@ @, !.heap = @ \cup {entry}]

RelaxAll(search, entries) == FoldLeft(Relax, search, entries)

Mismatch(a, b) == IF a = b THEN 0 ELSE 1

\* The start activities of the graph, with no event or with the first one.
SearchStart(dfg, trace) ==
    LET starts == SetToSortSeq(DOMAIN dfg.start_activities, <)
        offers(a) == <<<<0, 0, a>>>> \o
                        (IF trace = <<>> THEN <<>> ELSE <<<<Mismatch(trace[1], a), 1, a>>>>)
        none == [heap |-> {}, distance |-> <<>>, expanded |-> 0]
    IN RelaxAll(none, FlattenSeq([k \in DOMAIN starts |-> offers(starts[k])]))

\* The entry that is popped: the smallest cost, then index, then activity.
Popped(heap) ==
    CHOOSE e \in heap : \A f \in heap \ {e} :
        \/ e[1] < f[1]
        \/ e[1] = f[1] /\ e[2] < f[2]
        \/ e[1] = f[1] /\ e[2] = f[2] /\ e[3] < f[3]

\* Mutation: an event the graph does not allow is skipped for free.
OffersFree(dfg, trace, e) ==
    LET targets == SetToSortSeq({edge[2] : edge \in {d \in DOMAIN dfg.edges : d[1] = e[3]}}, <)
        more == e[2] < Len(trace)
        along(b) == <<<<e[1] + 1, e[2], b>>>> \o
                        (IF more THEN <<<<e[1] + Mismatch(trace[e[2] + 1], b), e[2] + 1, b>>>> ELSE <<>>)
    IN (IF more THEN <<<<e[1], e[2] + 1, e[3]>>>> ELSE <<>>)
         \o FlattenSeq([k \in DOMAIN targets |-> along(targets[k])])

\* What an expanded entry offers: the event alone, an edge alone, both together.
Offers(dfg, trace, e) ==
    LET targets == SetToSortSeq({edge[2] : edge \in {d \in DOMAIN dfg.edges : d[1] = e[3]}}, <)
        more == e[2] < Len(trace)
        along(b) == <<<<e[1] + 1, e[2], b>>>> \o
                        (IF more THEN <<<<e[1] + Mismatch(trace[e[2] + 1], b), e[2] + 1, b>>>> ELSE <<>>)
    IN (IF more THEN <<<<e[1] + 1, e[2] + 1, e[3]>>>> ELSE <<>>)
         \o FlattenSeq([k \in DOMAIN targets |-> along(targets[k])])

\* state_bound.
StateBound(dfg, trace) == (Len(trace) + 1) * Max({Cardinality(dfg.activities), 1}) + 1
=============================================================================
