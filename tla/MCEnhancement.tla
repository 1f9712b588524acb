--------------------------- MODULE MCEnhancement ----------------------------
(***************************************************************************)
(* One execution of up to four events at three instants, with every        *)
(* lifecycle and set of objects, and pairs of shorter ones, one of them    *)
(* possibly empty.                                                         *)
(***************************************************************************)
EXTENDS Enhancement

Mark(id, a, t, lifecycle, resource, objects) ==
    [id |-> id, activity |-> a, at |-> t, lifecycle |-> lifecycle, resource |-> resource, objects |-> objects]

MCTimes == {<<0, 1, 1, 5>>, <<0, 2, 3, 4>>}
MCObjects == {<<{1}, {2}, {1, 2}, {1}>>, <<{1}, Missing, {3}, {1, 2, 3}>>}
MCLived ==
    {<<[id |-> 1, objects |-> {1, 2},
        events |-> [i \in 1 .. 4 |-> Mark(i, a[i], t[i], l[i], Missing, o[i])]]>> :
        a \in [1 .. 4 -> {1, 2}], l \in [1 .. 4 -> {"start", "complete", Missing}],
        t \in MCTimes, o \in MCObjects}

Plain(id, path, pace, staff) ==
    [id |-> id, objects |-> {id},
     events |-> [i \in DOMAIN path |-> Mark(10 * id + i, path[i], pace * i, "complete",
                                            IF i \in DOMAIN staff THEN staff[i] ELSE Missing, Missing)]]
MCRunsOf(paces, staffs) ==
    {<<Plain(1, a, p, s), Plain(2, b, 2, s)>> :
        a, b \in BoundedSeq({1, 2}, 3), p \in paces, s \in staffs}

Study(x, y, kind) == [executions |-> x, comparison |-> y, kind |-> kind, semantic_version |-> "1.0"]
MCPerformances == {Study(x, Missing, "Performance") : x \in MCLived}
MCMeasures == {Study(x, Missing, kind) : x \in MCRunsOf({0, 3}, {<<>>, <<1>>, <<2, Missing, 1>>}),
                                       kind \in EnhancementKinds \ Comparisons}
MCDrifts == {Study(x, y, "Drift") : x \in MCRunsOf({3}, {<<>>}),
                                  y \in {<<>>, <<Plain(1, <<1, 2>>, 1, <<>>), Plain(2, <<>>, 1, <<>>)>>}}
MCEmpty == {Study(<<>>, Missing, kind) : kind \in EnhancementKinds}
             \cup {[Study(<<>>, Missing, "Rework") EXCEPT !.semantic_version = "2.0"],
                   Study(<<>>, <<>>, "WindowComparison")}
MCStudies == MCMeasures \cup (MCPerformances \cup (MCDrifts \cup MCEmpty))
=============================================================================
