---------------------------- MODULE MCAppendLog -----------------------------
(***************************************************************************)
(* An empty log, one that uses every table and filter, and one with a      *)
(* dangling relation; batches that fit them, repeat rows, point nowhere or *)
(* carry a watermark before, at and after the log's; views that filter     *)
(* objects, events, relations and times, alone and together.               *)
(***************************************************************************)
EXTENDS AppendLog, TLC

LogEvent(id, activity, at, status) ==
    [id |-> id, external_id |-> ToString(id), activity |-> activity, at |-> at, status |-> status]
LogObject(id, type) == [id |-> id, external_id |-> ToString(id), object_type |-> type]
E2o(event, object, q) == [event_id |-> event, object_id |-> object, qualifier |-> q]
O2o(source, target, q, from, to) ==
    [source |-> source, target |-> target, qualifier |-> q, valid_from |-> from, valid_to |-> to]
LogChange(object, at, value) == [object_id |-> object, name |-> "n", valid_from |-> at, value |-> value]
Mark(at, source) == [at |-> at, source |-> source]
Id(n, r) == [f \in DOMAIN r \cup {"relation_id"} |-> IF f = "relation_id" THEN n ELSE r[f]]

EmptyLog == [watermark |-> None, events |-> {}, objects |-> {}, e2o |-> {}, o2o |-> {}, history |-> {}]
FullLog ==
    [watermark |-> Mark(2, 1),
     events |-> {LogEvent(1, "a", 1, "s"), LogEvent(2, "b", 2, "t")},
     objects |-> {LogObject(1, "A"), LogObject(2, "B")},
     e2o |-> {Id(6, E2o(1, 1, "q")), Id(7, E2o(2, 2, "")), Id(0, E2o(2, 1, "q"))},
     o2o |-> {Id(8, O2o(1, 2, "q", 2, None)), Id(6, O2o(2, 2, "", None, 2))},
     history |-> {LogChange(1, 1, "v"), LogChange(1, 3, "w"), LogChange(2, 1, "w")}]
BrokenLog == [EmptyLog EXCEPT !.e2o = {Id(1, E2o(1, 1, "q"))}]
MCFirstLogs == {EmptyLog, FullLog, BrokenLog}

NoRows == [aligned |-> TRUE, bytes |-> 1, watermark |-> None, events |-> <<>>, objects |-> <<>>,
           e2o |-> <<>>, o2o |-> <<>>, history |-> <<>>]
MCBatches ==
    {NoRows,
     [NoRows EXCEPT !.aligned = FALSE],
     [NoRows EXCEPT !.bytes = 2],
     [NoRows EXCEPT !.watermark = Mark(2, 0)],
     [NoRows EXCEPT !.watermark = Mark(3, 0), !.objects = <<LogObject(3, "A")>>,
                    !.events = <<LogEvent(3, "a", 3, "s")>>, !.e2o = <<E2o(3, 3, "q")>>],
     [NoRows EXCEPT !.e2o = <<E2o(1, 1, "q"), E2o(1, 1, "q")>>, !.o2o = <<O2o(1, 2, "", 1, 2)>>],
     [NoRows EXCEPT !.o2o = <<O2o(1, 3, "q", None, None)>>, !.watermark = Mark(2, 1)],
     [NoRows EXCEPT !.o2o = <<O2o(1, 2, "q", 2, 2)>>],
     [NoRows EXCEPT !.objects = <<LogObject(4, "B"), LogObject(4, "B")>>],
     [NoRows EXCEPT !.history = <<LogChange(1, 2, "v")>>],
     [NoRows EXCEPT !.history = <<LogChange(1, 2, "NaN")>>]}

MCExportViews ==
    [start : {None}, end : {None, 2}, object_types : {{}, {"A"}}, object_ids : {{}},
     object_attributes : {{}}, related_object_types : {{}, {"B"}}, event_ids : {{}},
     activities : {{}}, statuses : {{}}, qualifiers : {{}},
     minimum_duration : {None}, maximum_duration : {None}]
        \cup {[DefaultView EXCEPT !.qualifiers = {"q"}],
              [DefaultView EXCEPT !.qualifiers = {"q"}, !.related_object_types = {"B"}],
              [DefaultView EXCEPT !.event_ids = {2}, !.statuses = {"t"}],
              [DefaultView EXCEPT !.start = 2, !.object_ids = {2, 3}],
              [DefaultView EXCEPT !.start = 2, !.activities = {"b"}],
              [DefaultView EXCEPT !.object_attributes = {[name |-> "n", value |-> "v"]}],
              [DefaultView EXCEPT !.object_attributes = {[name |-> "n", value |-> "v"]}, !.end = 2]}
=============================================================================
