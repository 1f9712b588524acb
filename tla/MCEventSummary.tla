--------------------------- MODULE MCEventSummary ---------------------------
(***************************************************************************)
(* Two windows, three cases of two case ids, five traces: repeated         *)
(* activities, equal and different paths, a path of four, whose header     *)
(* reads the same in both byte orders, and totals on both sides of the     *)
(* largest count.                                                          *)
(***************************************************************************)
EXTENDS EventSummary

At(a, t) == [activity |-> a, at |-> t]
MCTraces == {<<At("a", 1)>>,
             <<At("a", 1), At("b", 2)>>,
             <<At("a", 2), At("b", 5)>>,
             <<At("b", 0), At("b", 1), At("a", 1)>>,
             <<At("a", 0), At("b", 0), At("a", 1), At("b", 4)>>}
MCCases == {1, 2}
MCCaseLogs == UNION {[cases -> MCTraces] : cases \in SUBSET MCCases}
MCWindowLogs ==
    {log \in [1 .. NWindows -> MCCaseLogs] : Cardinality(DOMAIN log[1]) + Cardinality(DOMAIN log[2]) <= 3}
=============================================================================
