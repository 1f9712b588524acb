-------------------------- MODULE MCExecutionScan ---------------------------
(***************************************************************************)
(* Three objects of two types and three events in the canonical layout,    *)
(* two of them at one instant; four events of one object each in the       *)
(* entity-link layout, where the clock is put back by two microseconds at  *)
(* the third and forward by one at the sixth.                              *)
(***************************************************************************)
EXTENDS ExecutionScan

MCClock == [u \in 0 .. 15 |-> 2 * <<0, 1, 2, 1, 2, 3, 5, 6>>[(u \div 2) + 1] + (u % 2)]

Event(id, activity, at, seq, status) ==
    [id |-> id, external_id |-> ToString(id), activity |-> activity, at |-> at,
     sequence |-> seq, status |-> status]
Object(id, type) == [id |-> id, external_id |-> ToString(id), object_type |-> type]
Objects == {Object(1, "A"), Object(2, "B"), Object(3, "A")}
Change(object, at, value) == [object_id |-> object, name |-> "n", valid_from |-> at, value |-> value]
Relation(n, event, object, qualifier) ==
    [relation_id |-> n, event_id |-> event, object_id |-> object, qualifier |-> qualifier]
Relations(event, ids) ==
    {Relation(3 * event + id, event, id, IF (event + id) % 2 = 0 THEN "q" ELSE "p") : id \in ids}
ObjectRelations ==
    {[relation_id |-> 1, source |-> 3, target |-> 2, qualifier |-> "q",
      valid_from |-> None, valid_to |-> None]}

Log(layout, events, e2o, history, repeats) ==
    [layout |-> layout, watermark |-> None, events |-> events, objects |-> Objects, e2o |-> e2o,
     o2o |-> ObjectRelations, history |-> history, repeats |-> repeats]

CanonicalLogs ==
    {Log("canonical_v1",
         {Event(1, "a", 3, 1, "s"), Event(2, "b", 6, 2, "t"), Event(3, "a", 6, 1, "s")},
         Relations(1, first) \cup Relations(2, second) \cup Relations(3, third)
             \cup {Relation(1, 3, 3, "r")},
         {Change(1, 1, "v"), Change(3, 1, "v"), Change(3, 5, "w")}, {}) :
        first, second \in SUBSET {1, 2, 3}, third \in {{}, {1}, {1, 3}}}

\* The fourth event is at a time that the clock skips, or just after it. The rows of the
\* second have the third between them if this is at the same time.
EntityEvents(third, last) ==
    {Event(1, "a", 2, 1, "s"), Event(2, "b", 4, 2, "t"), Event(3, "a", third, 3, "s"),
     Event(4, "c", last, 3, "s")}
Owned(owner) == {Relation(e, e, owner[e], "q") : e \in 1 .. 4}
Later == {Change(1, 100, "v")}

EntityLogs ==
    {Log("entity_link", EntityEvents(third, last), Owned(owner), Later, repeats) :
        third \in {4, 6}, last \in {8, 10}, owner \in {o \in [1 .. 4 -> {1, 3}] : o[1] = 1},
        repeats \in {{}, {[event_id |-> 2, sequence |-> 5]}}}

MCLogs == CanonicalLogs \cup EntityLogs

-----------------------------------------------------------------------------
Filters ==
    {DefaultView,
     [DefaultView EXCEPT !.object_types = {"A"}, !.qualifiers = {"q", "r"}],
     [DefaultView EXCEPT !.object_types = {"A", "B"}, !.activities = {"a"}],
     [DefaultView EXCEPT !.statuses = {"s"}, !.minimum_duration = 2],
     [DefaultView EXCEPT !.statuses = {"s"}, !.event_ids = {1, 2, 3}],
     [DefaultView EXCEPT !.maximum_duration = 2, !.object_ids = {1, 3}],
     [DefaultView EXCEPT !.related_object_types = {"B"}, !.minimum_duration = 3],
     [DefaultView EXCEPT !.object_attributes = {[name |-> "n", value |-> "v"]}]}

MCWindows == {<<None, None>>, <<2, 7>>, <<4, None>>, <<None, 6>>, <<6, 12>>}

MCViews == {[view EXCEPT !.start = w[1], !.end = w[2]] : view \in Filters, w \in MCWindows}

Sources == {<<"canonical_v1", "utc">>} \cup ({"entity_link"} \X {"utc", "reject", "earliest", "latest"})
Kinds == {<<"executions", FALSE>>, <<"summary", FALSE>>, <<"summary", TRUE>>,
          <<"observations", FALSE>>, <<"projected", FALSE>>}

Ask(kind, source, view, lead, wanted) ==
    [kind |-> kind[1], complete |-> kind[2], layout |-> source[1], policy |-> source[2],
     view |-> view, lead |-> lead, first |-> IF "A" \in view.object_types THEN "A" ELSE None,
     status_wanted |-> wanted]

MCRequests ==
    {Ask(kind, source, view, lead, wanted) :
        kind \in Kinds, source \in Sources, view \in MCViews, lead \in {None}, wanted \in {FALSE}}
    \cup {Ask(kind, source, view, "B", TRUE) :
        kind \in Kinds, source \in {<<"canonical_v1", "utc">>}, view \in Filters}

-----------------------------------------------------------------------------
\* Whole lifecycles through a filter on activities.
LifecycleRequests ==
    {Ask(<<"summary", TRUE>>, <<"canonical_v1", "utc">>,
         [DefaultView EXCEPT !.activities = {"b"}, !.start = 4], None, FALSE)}
=============================================================================
