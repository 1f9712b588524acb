---------------------------- MODULE Executions ------------------------------
(***************************************************************************)
(* Process executions as the local provider defines them                   *)
(* (crates/ocpm-local/src/lib.rs): the events of some objects that a view  *)
(* lets through, in order. External ids sort like the ids they belong to.  *)
(***************************************************************************)
EXTENDS CanonicalLog, Sorting, SequencesExt

\* Views with fields of the right kind.
Views == [start : {None} \cup Int, end : {None} \cup Int,
          minimum_duration : {None} \cup Int, maximum_duration : {None} \cup Int,
          object_types : SUBSET STRING, related_object_types : SUBSET STRING,
          object_ids : SUBSET Int, event_ids : SUBSET Int,
          activities : SUBSET STRING, statuses : SUBSET STRING, qualifiers : SUBSET STRING,
          object_attributes : SUBSET [name : STRING, value : STRING]]

SortedIds(ids) == Ranked(ids, {p \in ids \X ids : p[1] < p[2]})

EventBefore(e, f) ==
    \/ e.at < f.at
    \/ e.at = f.at /\ e.sequence < f.sequence
    \/ e.at = f.at /\ e.sequence = f.sequence /\ e.id < f.id

SortedEvents(events) == Ranked(events, {p \in events \X events : EventBefore(p[1], p[2])})

\* filtered_events_for_objects: each event once, in order.
EventsFor(l, view, ids) ==
    LET touched == {r.event_id : r \in {s \in l.e2o : /\ s.object_id \in ids
                                                      /\ Allows(view.qualifiers, s.qualifier)}}
    IN SortedEvents({e \in l.events : e.id \in touched /\ EventMatches(view, e)})

\* execution_duration_matches
DurationMatches(view, events) ==
    LET duration == IF events = <<>> THEN 0 ELSE Last(events).at - Head(events).at
    IN /\ view.minimum_duration = None \/ duration >= view.minimum_duration
       /\ view.maximum_duration = None \/ duration <= view.maximum_duration

\* event_objects: for every event of the objects, whether or not it is in the view.
EventObjects(l, ids) == {<<r.event_id, r.object_id>> : r \in {s \in l.e2o : s.object_id \in ids}}

Execution(l, view, ids) ==
    [object_ids |-> ids, events |-> EventsFor(l, view, ids), links |-> EventObjects(l, ids)]

Wanting(view, executions) ==
    {x \in executions : x.events # <<>> /\ DurationMatches(view, x.events)}

\* leading_executions, with the type that is asked for or else the first of the view.
Leading(l, view, type) ==
    Wanting(view, {Execution(l, view, {o.id}) :
                       o \in {p \in KeptObjects(l, view) : type = None \/ p.object_type = type}})

LeadingType(r) == IF r.lead # None THEN r.lead ELSE r.first
=============================================================================
