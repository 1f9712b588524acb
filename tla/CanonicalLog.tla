---------------------------- MODULE CanonicalLog ----------------------------
(***************************************************************************)
(* The canonical log (crates/ocpm-core/src/data.rs): what makes one valid, *)
(* what LocalProvider::snapshot (crates/ocpm-local/src/lib.rs) keeps of it *)
(* for a view, and what Engine::append (crates/ocpm-engine/src/lib.rs)     *)
(* adds to it. The tables of a log are sets: validate refuses repeated     *)
(* rows and sort_canonical fixes their order, so nothing else is lost.     *)
(* Timestamps are instants, except for the watermark, whose order also     *)
(* looks at the source text. Attribute values are opaque but for being     *)
(* finite, and events keep only one attribute, the status, a string.       *)
(***************************************************************************)
EXTENDS Integers, Sequences

CONSTANTS None,
          MaxRelationId,    \* u64::MAX
          MaxBytes          \* AppendBatch::MAX_ENCODED_BYTES

ASSUME RelationIdAssumption == MaxRelationId \in Nat

-----------------------------------------------------------------------------
\* CanonicalLog::validate.

EventsValid(log) ==
    /\ \A e \in log.events : e.external_id # "" /\ e.activity # ""
    /\ \A e, f \in log.events : e.id = f.id \/ e.external_id = f.external_id => e = f

ObjectsValid(log) ==
    /\ \A o \in log.objects : o.external_id # "" /\ o.object_type # ""
    /\ \A o, p \in log.objects : o.id = p.id \/ o.external_id = p.external_id => o = p

HasEvent(log, id) == \E e \in log.events : e.id = id
HasObject(log, id) == \E o \in log.objects : o.id = id

\* Relation ids are unique within each of the two tables, not across them.
E2oValid(log) ==
    /\ \A r, s \in log.e2o : r.relation_id = s.relation_id => r = s
    /\ \A r \in log.e2o : HasEvent(log, r.event_id) /\ HasObject(log, r.object_id)

O2oValid(log) ==
    /\ \A r, s \in log.o2o : r.relation_id = s.relation_id => r = s
    /\ \A r \in log.o2o : HasObject(log, r.source) /\ HasObject(log, r.target)
    /\ \A r \in log.o2o : r.valid_from # None /\ r.valid_to # None => r.valid_to > r.valid_from

\* validate_attribute: a floating-point value is finite.
Finite(value) == value # "NaN"

HistoryValid(log) ==
    /\ \A c \in log.history : HasObject(log, c.object_id) /\ c.name # "" /\ Finite(c.value)
    /\ \A c, d \in log.history :
           c.object_id = d.object_id /\ c.name = d.name /\ c.valid_from = d.valid_from => c = d

Valid(log) ==
    /\ EventsValid(log)
    /\ ObjectsValid(log)
    /\ E2oValid(log)
    /\ O2oValid(log)
    /\ HistoryValid(log)

-----------------------------------------------------------------------------
\* Views. An empty filter lets everything through.

DefaultView ==
    [start |-> None, end |-> None, object_types |-> {}, object_ids |-> {},
     object_attributes |-> {}, related_object_types |-> {}, event_ids |-> {},
     activities |-> {}, statuses |-> {}, qualifiers |-> {},
     minimum_duration |-> None, maximum_duration |-> None]

Allows(filter, x) == filter = {} \/ x \in filter

\* object_attribute_value_at: the last change before the end of the view.
ValueAt(log, id, name, end) ==
    LET changes == {c \in log.history : /\ c.object_id = id /\ c.name = name
                                        /\ end = None \/ c.valid_from < end}
        latest == CHOOSE c \in changes : \A d \in changes : d.valid_from <= c.valid_from
    IN IF changes = {} THEN None ELSE latest.value

\* An object at the other end of a relation of o.
Related(log, o) ==
    {p \in log.objects : \E r \in log.o2o : \/ r.source = o.id /\ r.target = p.id
                                            \/ r.target = o.id /\ r.source = p.id}

ObjectMatches(log, view, o) ==
    /\ Allows(view.object_types, o.object_type)
    /\ Allows(view.object_ids, o.id)
    /\ \A a \in view.object_attributes : ValueAt(log, o.id, a.name, view.end) = a.value
    /\ \/ view.related_object_types = {}
       \/ \E p \in Related(log, o) : p.object_type \in view.related_object_types

EventMatches(view, e) ==
    /\ view.start = None \/ e.at >= view.start
    /\ view.end = None \/ e.at < view.end
    /\ Allows(view.event_ids, e.id)
    /\ Allows(view.activities, e.activity)
    /\ Allows(view.statuses, e.status)

KeptObjects(log, view) == {o \in log.objects : ObjectMatches(log, view, o)}

\* Events without an object in the view go only if the view filters objects.
KeptEvents(log, view) ==
    LET objectsFiltered == \/ view.object_types # {} \/ view.object_ids # {}
                           \/ view.object_attributes # {} \/ view.related_object_types # {}
        related == {r.event_id : r \in {s \in log.e2o :
                        /\ \E o \in KeptObjects(log, view) : o.id = s.object_id
                        /\ Allows(view.qualifiers, s.qualifier)}}
    IN {e \in log.events : EventMatches(view, e) /\ (objectsFiltered => e.id \in related)}

\* Mutation: the relations of kept events are kept with objects that are not.
KeptE2oByEvent(log, view) ==
    {r \in log.e2o : /\ \E e \in KeptEvents(log, view) : e.id = r.event_id
                     /\ Allows(view.qualifiers, r.qualifier)}

\* Mutation: a relation with any qualifier is kept.
KeptE2oAnyQualifier(log, view) ==
    {r \in log.e2o : /\ \E e \in KeptEvents(log, view) : e.id = r.event_id
                     /\ \E o \in KeptObjects(log, view) : o.id = r.object_id}

KeptE2o(log, view) ==
    {r \in log.e2o : /\ \E e \in KeptEvents(log, view) : e.id = r.event_id
                     /\ \E o \in KeptObjects(log, view) : o.id = r.object_id
                     /\ Allows(view.qualifiers, r.qualifier)}

\* Mutation: an end that is not given ends the validity.
KeptO2oBounded(log, view) ==
    {r \in log.o2o : /\ \E o \in KeptObjects(log, view) : o.id = r.source
                     /\ \E o \in KeptObjects(log, view) : o.id = r.target
                     /\ Allows(view.qualifiers, r.qualifier)
                     /\ r.valid_from = None \/ (view.end # None /\ r.valid_from < view.end)}

KeptO2o(log, view) ==
    {r \in log.o2o : /\ \E o \in KeptObjects(log, view) : o.id = r.source
                     /\ \E o \in KeptObjects(log, view) : o.id = r.target
                     /\ Allows(view.qualifiers, r.qualifier)
                     /\ r.valid_from = None \/ view.end = None \/ r.valid_from < view.end
                     /\ r.valid_to = None \/ view.start = None \/ r.valid_to > view.start}

KeptHistory(log, view) ==
    {c \in log.history : \E o \in KeptObjects(log, view) : o.id = c.object_id}

\* snapshot, up to its last line, which validates what it built.
Snapshot(log, view) ==
    [watermark |-> log.watermark,
     events |-> KeptEvents(log, view),
     objects |-> KeptObjects(log, view),
     e2o |-> KeptE2o(log, view),
     o2o |-> KeptO2o(log, view),
     history |-> KeptHistory(log, view)]

-----------------------------------------------------------------------------
\* Engine::append.

\* AppendBatch::validate: equal columns, at most 16 MiB encoded.
BatchValid(batch) == batch.aligned /\ batch.bytes <= MaxBytes

\* The derived order of Timestamp: the instant, then the source text.
Before(t, u) == t.at < u.at \/ (t.at = u.at /\ t.source < u.source)

WatermarkAdvances(log, batch) ==
    ~(log.watermark # None /\ batch.watermark # None /\ Before(batch.watermark, log.watermark))

\* Mutation: a batch without a watermark clears the log's.
NewWatermarkAlways(log, batch) == batch.watermark

NewWatermark(log, batch) == IF batch.watermark # None THEN batch.watermark ELSE log.watermark

RelationIds(log) == {r.relation_id : r \in log.e2o} \cup {r.relation_id : r \in log.o2o}

\* Mutation: only the event-object relations are looked at.
LastRelationIdOfEvents(log) ==
    IF log.e2o = {} THEN 0
    ELSE CHOOSE n \in {r.relation_id : r \in log.e2o} : \A r \in log.e2o : r.relation_id <= n

LastRelationId(log) ==
    IF RelationIds(log) = {} THEN 0
    ELSE CHOOSE n \in RelationIds(log) : \A i \in RelationIds(log) : i <= n

\* checked_add succeeds for every new relation.
RelationIdsLeft(log, batch) ==
    LastRelationId(log) + Len(batch.e2o) + Len(batch.o2o) <= MaxRelationId

NewE2o(log, batch) ==
    {[relation_id |-> LastRelationId(log) + i, event_id |-> batch.e2o[i].event_id,
      object_id |-> batch.e2o[i].object_id, qualifier |-> batch.e2o[i].qualifier] :
         i \in 1 .. Len(batch.e2o)}

NewO2o(log, batch) ==
    {[relation_id |-> LastRelationId(log) + Len(batch.e2o) + i, source |-> batch.o2o[i].source,
      target |-> batch.o2o[i].target, qualifier |-> batch.o2o[i].qualifier,
      valid_from |-> batch.o2o[i].valid_from, valid_to |-> batch.o2o[i].valid_to] :
         i \in 1 .. Len(batch.o2o)}

Rows(s) == {s[i] : i \in 1 .. Len(s)}

Extended(log, batch) ==
    [watermark |-> NewWatermark(log, batch),
     events |-> log.events \cup Rows(batch.events),
     objects |-> log.objects \cup Rows(batch.objects),
     e2o |-> log.e2o \cup NewE2o(log, batch),
     o2o |-> log.o2o \cup NewO2o(log, batch),
     history |-> log.history \cup Rows(batch.history)]

\* What validate's uniqueness means for rows a set would merge: none is repeated.
NoRepeats(rows, s) ==
    /\ Rows(s) \cap rows = {}
    /\ \A i, j \in 1 .. Len(s) : s[i] = s[j] => i = j

\* append returns a new engine for this log and batch, and not an error.
Accepts(log, batch) ==
    /\ BatchValid(batch)
    /\ WatermarkAdvances(log, batch)
    /\ RelationIdsLeft(log, batch)
    /\ NoRepeats(log.events, batch.events)
    /\ NoRepeats(log.objects, batch.objects)
    /\ NoRepeats(log.history, batch.history)
    /\ Valid(Extended(log, batch))
=============================================================================
