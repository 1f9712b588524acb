------------------------- MODULE MCLocalExecutions --------------------------
(***************************************************************************)
(* Four objects of two types and three events, two of them at one instant. *)
(* Two events are related to any of the objects, the third to one or none; *)
(* relations join objects that share no event.                             *)
(***************************************************************************)
EXTENDS LocalExecutions

MCElements == 1 .. 4

Event(id, activity, at, seq) ==
    [id |-> id, external_id |-> ToString(id), activity |-> activity, at |-> at,
     sequence |-> seq, status |-> "s"]
Object(id, type) == [id |-> id, external_id |-> ToString(id), object_type |-> type]
Change(object, at, value) == [object_id |-> object, name |-> "n", valid_from |-> at, value |-> value]

E2oRows(event, ids) ==
    {[relation_id |-> 4 * (event - 1) + id, event_id |-> event, object_id |-> id,
      qualifier |-> IF (event + id) % 2 = 0 THEN "q" ELSE ""] : id \in ids}
O2oRow(n, source, target) ==
    [relation_id |-> n, source |-> source, target |-> target, qualifier |-> "q",
     valid_from |-> None, valid_to |-> None]

MCLogs ==
    {[watermark |-> None,
      events |-> {Event(1, "a", 1, 1), Event(2, "b", 3, 2), Event(3, "a", 3, 1)},
      objects |-> {Object(1, "A"), Object(2, "B"), Object(3, "A"), Object(4, "B")},
      e2o |-> E2oRows(1, first) \cup E2oRows(2, second) \cup E2oRows(3, third),
      o2o |-> relations,
      history |-> {Change(1, 1, "v"), Change(3, 1, "v"), Change(3, 2, "w")}] :
        first \in SUBSET MCElements, second \in SUBSET MCElements, third \in {{}, {3, 4}},
        relations \in {{}, {O2oRow(1, 4, 2)}, {O2oRow(1, 3, 1), O2oRow(2, 2, 3)}}}

MCViews ==
    {DefaultView,
     [DefaultView EXCEPT !.object_types = {"A"}],
     [DefaultView EXCEPT !.object_types = {"A", "B"}, !.qualifiers = {"q"}],
     [DefaultView EXCEPT !.start = 2, !.object_ids = {1, 2, 4}],
     [DefaultView EXCEPT !.end = 3, !.related_object_types = {"B"}],
     [DefaultView EXCEPT !.end = 2, !.object_attributes = {[name |-> "n", value |-> "v"]}],
     [DefaultView EXCEPT !.minimum_duration = 1, !.activities = {"a"}],
     [DefaultView EXCEPT !.maximum_duration = 1]}

Ask(kind, view, lead, first, selector) ==
    [kind |-> kind, view |-> view, lead |-> lead, first |-> first, selector |-> selector]

FirstTypes(view) == IF view.object_types = {} THEN {None} ELSE view.object_types

MCSelectors ==
    {[kind |-> k, start |-> w[1], end |-> w[2], ids |-> {}] :
         k \in {"event_time", "start", "contained"}, w \in {<<1, 2>>, <<1, 3>>, <<2, 3>>, <<2, 4>>}}
        \cup [kind : {"cases"}, start : {0}, end : {0}, ids : {{}, {3}, {1, 2}}]

MCRequests ==
    {Ask("connected", view, None, None, None) : view \in MCViews}
        \cup UNION {{Ask("leading", view, lead, first, None) : lead \in {None, "A"},
                                                            first \in FirstTypes(view)} : view \in MCViews}
        \cup {Ask("population", view, lead, None, selector) :
                  view \in MCViews, lead \in {None, "A"}, selector \in MCSelectors}
=============================================================================
