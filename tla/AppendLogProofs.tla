-------------------------- MODULE AppendLogProofs ---------------------------
(***************************************************************************)
(* What snapshot keeps is valid, the complete snapshot is the whole log,   *)
(* and every chain of appends and exports keeps its rows, its relation ids *)
(* apart and its watermark, for all logs, views and batches.               *)
(***************************************************************************)
EXTENDS AppendLog, TLAPS, WellFoundedInduction

-----------------------------------------------------------------------------
\* Snapshots.

\* The validation at the end of LocalProvider::snapshot never fails: the part of a
\* valid log that any view keeps is valid.
THEOREM SnapshotIsValid ==
    ASSUME NEW log, NEW view, Valid(log)
    PROVE  Valid(Snapshot(log, view))
<1> DEFINE s == Snapshot(log, view)
<1>1. /\ s.events = KeptEvents(log, view)
      /\ s.objects = KeptObjects(log, view)
      /\ s.e2o = KeptE2o(log, view)
      /\ s.o2o = KeptO2o(log, view)
      /\ s.history = KeptHistory(log, view)
  BY DEF Snapshot
<1>2. EventsValid(s)
  <2>1. s.events \subseteq log.events
    BY <1>1 DEF KeptEvents
  <2> HIDE DEF s
  <2> QED BY <2>1 DEF Valid, EventsValid
<1>3. ObjectsValid(s)
  <2>1. s.objects \subseteq log.objects
    BY <1>1 DEF KeptObjects
  <2> HIDE DEF s
  <2> QED BY <2>1 DEF Valid, ObjectsValid
<1> HIDE DEF s
<1>4. E2oValid(s)
  <2>1. \A r \in s.e2o : r \in log.e2o /\ HasEvent(s, r.event_id) /\ HasObject(s, r.object_id)
    BY <1>1 DEF KeptE2o, HasEvent, HasObject
  <2> QED BY <2>1 DEF Valid, E2oValid
<1>5. O2oValid(s)
  <2>1. \A r \in s.o2o : r \in log.o2o /\ HasObject(s, r.source) /\ HasObject(s, r.target)
    BY <1>1 DEF KeptO2o, HasObject
  <2> QED BY <2>1 DEF Valid, O2oValid
<1>6. HistoryValid(s)
  <2>1. \A c \in s.history : c \in log.history /\ HasObject(s, c.object_id)
    BY <1>1 DEF KeptHistory, HasObject
  <2> QED BY <2>1 DEF Valid, HistoryValid
<1>7. Valid(s)
  BY <1>2, <1>3, <1>4, <1>5, <1>6 DEF Valid
<1> QED BY <1>7 DEF s

\* The snapshot that Engine::append starts from is complete: the default view keeps
\* every row of a valid log.
THEOREM DefaultSnapshotIsComplete ==
    ASSUME NEW log, Valid(log)
    PROVE  /\ Snapshot(log, DefaultView).watermark = log.watermark
           /\ Snapshot(log, DefaultView).events = log.events
           /\ Snapshot(log, DefaultView).objects = log.objects
           /\ Snapshot(log, DefaultView).e2o = log.e2o
           /\ Snapshot(log, DefaultView).o2o = log.o2o
           /\ Snapshot(log, DefaultView).history = log.history
<1> DEFINE v == DefaultView
<1>1. /\ v.start = None /\ v.end = None
      /\ v.object_types = {} /\ v.object_ids = {} /\ v.object_attributes = {}
      /\ v.related_object_types = {} /\ v.event_ids = {} /\ v.activities = {}
      /\ v.statuses = {} /\ v.qualifiers = {}
  BY DEF DefaultView
<1> HIDE DEF v
<1>2. KeptObjects(log, v) = log.objects
  BY <1>1 DEF KeptObjects, ObjectMatches, Allows
<1>3. KeptEvents(log, v) = log.events
  BY <1>1 DEF KeptEvents, EventMatches, Allows
<1>4. KeptE2o(log, v) = log.e2o
  BY <1>1, <1>2, <1>3 DEF KeptE2o, Allows, Valid, E2oValid, HasEvent, HasObject
<1>5. KeptO2o(log, v) = log.o2o
  BY <1>1, <1>2 DEF KeptO2o, Allows, Valid, O2oValid, HasObject
<1>6. KeptHistory(log, v) = log.history
  BY <1>2 DEF KeptHistory, Valid, HistoryValid, HasObject
<1> QED BY <1>2, <1>3, <1>4, <1>5, <1>6 DEF Snapshot, v

-----------------------------------------------------------------------------
\* Relation ids.

\* A nonempty set of ids no larger than a bound has a largest one.
LEMMA LargestExists ==
    ASSUME NEW N \in Nat, NEW S \in SUBSET (0 .. N), S # {}
    PROVE  \E n \in S : \A i \in S : i <= n
<1> DEFINE T == {N - i : i \in S}
<1>1. T \subseteq Nat /\ T # {}
  <2>1. \A i \in S : N - i \in Nat
    OBVIOUS
  <2>2. PICK i \in S : TRUE
    OBVIOUS
  <2>3. N - i \in T
    BY <2>2
  <2> QED BY <2>1, <2>3
<1>2. PICK x \in T : \A y \in T : ~(<<y, x>> \in OpToRel(<, Nat))
  <2> HIDE DEF T
  <2> QED BY <1>1, NatLessThanWellFounded, WFMin
<1>3. \A y \in T : ~(y < x)
  BY <1>1, <1>2 DEF OpToRel
<1>4. PICK n \in S : x = N - n
  OBVIOUS
<1>5. \A i \in S : i <= n
  BY <1>3, <1>4
<1> QED BY <1>5

\* LastRelationId is what the iterator's max computes.
LEMMA LastIsLargest ==
    ASSUME NEW log, RelationIds(log) \subseteq 0 .. MaxRelationId
    PROVE  /\ LastRelationId(log) \in 0 .. MaxRelationId
           /\ \A i \in RelationIds(log) : i <= LastRelationId(log)
<1>1. CASE RelationIds(log) = {}
  BY <1>1, RelationIdAssumption DEF LastRelationId
<1>2. CASE RelationIds(log) # {}
  <2> DEFINE S == RelationIds(log)
  <2>1. \E n \in S : \A i \in S : i <= n
    BY <1>2, LargestExists, RelationIdAssumption
  <2>2. LastRelationId(log) = CHOOSE n \in S : \A i \in S : i <= n
    BY <1>2 DEF LastRelationId
  <2> HIDE DEF S
  <2>3. LastRelationId(log) \in S /\ \A i \in S : i <= LastRelationId(log)
    BY <2>1, <2>2
  <2> QED BY <2>3 DEF S
<1> QED BY <1>1, <1>2

\* Append gives ids above every id of the log, the second table's above the first's.
LEMMA ExtendedIds ==
    ASSUME NEW log, NEW batch,
           RelationIds(log) \subseteq 0 .. MaxRelationId,
           Len(batch.e2o) \in Nat, Len(batch.o2o) \in Nat,
           RelationIdsLeft(log, batch)
    PROVE  /\ RelationIds(Extended(log, batch)) \subseteq 0 .. MaxRelationId
           /\ GivesFreshIds(log, Extended(log, batch))
<1> DEFINE last == LastRelationId(log)
           m == Len(batch.e2o)
           n == Len(batch.o2o)
           new == Extended(log, batch)
<1>1. /\ new.e2o = log.e2o \cup NewE2o(log, batch)
      /\ new.o2o = log.o2o \cup NewO2o(log, batch)
  BY DEF Extended
<1>2. last \in 0 .. MaxRelationId /\ \A i \in RelationIds(log) : i <= last
  BY LastIsLargest
<1>3. last + m + n <= MaxRelationId
  BY DEF RelationIdsLeft
<1>4. m \in Nat /\ n \in Nat
  OBVIOUS
<1>5. \A r \in NewE2o(log, batch) : r.relation_id \in last + 1 .. last + m
  <2> SUFFICES ASSUME NEW r \in NewE2o(log, batch)
               PROVE  r.relation_id \in last + 1 .. last + m
    OBVIOUS
  <2>1. PICK i \in 1 .. m : r.relation_id = last + i
    BY DEF NewE2o
  <2> HIDE DEF last, m
  <2> QED BY <1>2, <1>4, <2>1, RelationIdAssumption
<1>6. \A r \in NewO2o(log, batch) : r.relation_id \in last + m + 1 .. last + m + n
  <2> SUFFICES ASSUME NEW r \in NewO2o(log, batch)
               PROVE  r.relation_id \in last + m + 1 .. last + m + n
    OBVIOUS
  <2>1. PICK i \in 1 .. n : r.relation_id = last + m + i
    BY DEF NewO2o
  <2> HIDE DEF last, m, n
  <2> QED BY <1>2, <1>4, <2>1, RelationIdAssumption
<1> HIDE DEF last, m, n, new
<1>7. RelationIds(new) \subseteq 0 .. MaxRelationId
  <2>1. \A r \in new.e2o : r.relation_id \in 0 .. MaxRelationId
    BY <1>1, <1>2, <1>3, <1>5, <1>4, RelationIdAssumption DEF RelationIds
  <2>2. \A r \in new.o2o : r.relation_id \in 0 .. MaxRelationId
    BY <1>1, <1>2, <1>3, <1>6, <1>4, RelationIdAssumption DEF RelationIds
  <2> QED BY <2>1, <2>2 DEF RelationIds
<1>8. GivesFreshIds(log, new)
  <2>1. \A r \in new.e2o \ log.e2o : r.relation_id \in last + 1 .. last + m
    BY <1>1, <1>5
  <2>2. \A r \in new.o2o \ log.o2o : r.relation_id \in last + m + 1 .. last + m + n
    BY <1>1, <1>6
  <2>3. \A r \in new.e2o \ log.e2o : r.relation_id \notin RelationIds(log)
    BY <1>2, <2>1, RelationIdAssumption
  <2>4. \A r \in new.o2o \ log.o2o : r.relation_id \notin RelationIds(log)
    BY <1>2, <1>4, <2>2, RelationIdAssumption
  <2>5. \A r \in new.e2o \ log.e2o, s \in new.o2o \ log.o2o : r.relation_id # s.relation_id
    BY <1>2, <1>4, <2>1, <2>2, RelationIdAssumption
  <2> QED BY <2>3, <2>4, <2>5 DEF GivesFreshIds
<1> QED BY <1>7, <1>8 DEF new

\* An accepted batch never takes the watermark back, nor away.
LEMMA ExtendedWatermark ==
    ASSUME NEW log, NEW batch,
           TypedMark(log.watermark), TypedMark(batch.watermark),
           WatermarkAdvances(log, batch)
    PROVE  /\ TypedMark(Extended(log, batch).watermark)
           /\ NotBack(log, Extended(log, batch))
<1>1. Extended(log, batch).watermark = NewWatermark(log, batch)
  BY DEF Extended
<1>2. CASE batch.watermark = None
  BY <1>1, <1>2 DEF NewWatermark, NotBack, TypedMark, Before
<1>3. CASE batch.watermark # None
  BY <1>1, <1>3 DEF NewWatermark, NotBack, TypedMark, WatermarkAdvances
<1> QED BY <1>2, <1>3

LEMMA ExtendedKeeps ==
    ASSUME NEW log, NEW batch
    PROVE  Keeps(log, Extended(log, batch))
BY DEF Keeps, Extended

-----------------------------------------------------------------------------
\* Engines.

\* Appending to a sequence, without a set its elements come from.
LEMMA AppendSeq ==
    ASSUME NEW S, NEW s \in Seq(S), NEW e
    PROVE  LET t == Append(s, e)
           IN /\ Len(s) \in Nat
              /\ Len(t) = Len(s) + 1
              /\ \A i \in 1 .. Len(s) : t[i] = s[i]
              /\ t[Len(s) + 1] = e
              /\ t \in Seq({t[i] : i \in 1 .. Len(t)})
<1> DEFINE t == Append(s, e)
           T == {t[i] : i \in 1 .. Len(t)}
<1>1. s \in Seq(S \cup {e})
  OBVIOUS
<1>2. /\ Len(s) \in Nat
      /\ Len(t) = Len(s) + 1
      /\ \A i \in 1 .. Len(s) : t[i] = s[i]
      /\ t[Len(s) + 1] = e
      /\ t \in Seq(S \cup {e})
  BY <1>1
<1>3. t \in Seq(T)
  <2> HIDE DEF t
  <2>1. t = [i \in 1 .. Len(t) |-> t[i]] /\ Len(t) \in Nat
    BY <1>2
  <2>2. \A i \in 1 .. Len(t) : t[i] \in T
    OBVIOUS
  <2> HIDE DEF T
  <2>3. [i \in 1 .. Len(t) |-> t[i]] \in [1 .. Len(t) -> T]
    BY <2>2
  <2> QED BY <2>1, <2>3
<1> QED BY <1>2, <1>3

\* One more engine keeps the invariant, if it is well made itself.
LEMMA AddEngine ==
    ASSUME EngineInv,
           NEW log, NEW parent, NEW origin,
           engines' = Append(engines, Engine(log, parent, origin)),
           Valid(log), TypedMark(log.watermark),
           RelationIds(log) \subseteq 0 .. MaxRelationId,
           \/ origin = "import" /\ parent = 0
           \/ /\ origin \in {"append", "export"}
              /\ parent \in 1 .. Len(engines)
              /\ NotBack(LogOf(parent), log)
              /\ origin = "append" => Keeps(LogOf(parent), log) /\ GivesFreshIds(LogOf(parent), log)
    PROVE  EngineInv'
<1> DEFINE n == Len(engines)
           e == Engine(log, parent, origin)
<1>1. /\ n \in Nat
      /\ Len(engines') = n + 1
      /\ \A i \in 1 .. n : engines'[i] = engines[i]
      /\ engines'[n + 1] = e
      /\ engines' \in Seq({engines'[i] : i \in 1 .. Len(engines')})
  BY AppendSeq DEF EngineInv
<1>2. e.log = log /\ e.parent = parent /\ e.origin = origin
  BY DEF Engine
<1> HIDE DEF n, e
<1>3. \A i \in 1 .. Len(engines') : i \in 1 .. n \/ i = n + 1
  BY <1>1
<1>4. \A i \in 1 .. n : engines[i].origin # "import" => engines[i].parent \in 1 .. n
  <2> SUFFICES ASSUME NEW i \in 1 .. n, engines[i].origin # "import"
               PROVE  engines[i].parent \in 1 .. n
    OBVIOUS
  <2>1. engines[i].parent \in 1 .. i - 1
    BY DEF EngineInv, EnginesTypeOK, n
  <2> QED BY <1>1, <2>1
<1>5. EnginesTypeOK'
  <2> SUFFICES ASSUME NEW i \in 1 .. Len(engines')
               PROVE  /\ engines'[i].origin \in {"import", "append", "export"}
                      /\ IF engines'[i].origin = "import" THEN engines'[i].parent = 0
                                                          ELSE engines'[i].parent \in 1 .. i - 1
                      /\ RelationIds(engines'[i].log) \subseteq 0 .. MaxRelationId
    BY DEF EnginesTypeOK, LogOf
  <2>1. CASE i \in 1 .. n
    BY <2>1, <1>1 DEF EngineInv, EnginesTypeOK, LogOf, n
  <2>2. CASE i = n + 1
    BY <2>2, <1>1, <1>2 DEF n
  <2> QED BY <1>3, <2>1, <2>2
<1>6. LogsWellMade'
  <2> SUFFICES ASSUME NEW i \in 1 .. Len(engines')
               PROVE  Valid(engines'[i].log) /\ TypedMark(engines'[i].log.watermark)
    BY DEF LogsWellMade, LogOf
  <2>1. CASE i \in 1 .. n
    BY <2>1, <1>1 DEF EngineInv, LogsWellMade, LogOf, n
  <2>2. CASE i = n + 1
    BY <2>2, <1>1, <1>2
  <2> QED BY <1>3, <2>1, <2>2
<1>7. ASSUME NEW i \in 1 .. Len(engines'), engines'[i].origin # "import"
      PROVE  LET old == engines'[engines'[i].parent].log
                 new == engines'[i].log
             IN /\ NotBack(old, new)
                /\ engines'[i].origin = "append" => Keeps(old, new) /\ GivesFreshIds(old, new)
  <2>1. CASE i \in 1 .. n
    <3>1. engines[i].parent \in 1 .. n /\ engines'[i] = engines[i]
      BY <2>1, <1>1, <1>4, <1>7
    <3>2. engines'[engines'[i].parent] = engines[engines[i].parent]
      BY <3>1, <1>1
    <3>3. NotBack(engines[engines[i].parent].log, engines[i].log)
      BY <2>1, <3>1, <1>7 DEF EngineInv, WatermarkMonotonic, ParentLog, LogOf, n
    <3>4. engines[i].origin = "append" =>
              /\ Keeps(engines[engines[i].parent].log, engines[i].log)
              /\ GivesFreshIds(engines[engines[i].parent].log, engines[i].log)
      BY <2>1 DEF EngineInv, AppendKeepsEverything, NewRelationIdsFresh, Appended,
                  ParentLog, LogOf, n
    <3> QED BY <3>1, <3>2, <3>3, <3>4
  <2>2. CASE i = n + 1
    <3>1. engines'[i] = e /\ origin # "import" /\ parent \in 1 .. n
      BY <2>2, <1>1, <1>2, <1>7 DEF n
    <3>2. engines'[parent] = engines[parent]
      BY <3>1, <1>1
    <3> QED BY <3>1, <3>2, <1>2 DEF LogOf
  <2> QED BY <1>3, <2>1, <2>2
<1>8. AppendKeepsEverything' /\ NewRelationIdsFresh'
  BY <1>7 DEF AppendKeepsEverything, NewRelationIdsFresh, Appended, ParentLog, LogOf
<1>9. WatermarkMonotonic'
  BY <1>7 DEF WatermarkMonotonic, ParentLog, LogOf
<1> QED BY <1>1, <1>5, <1>6, <1>8, <1>9 DEF EngineInv

LEMMA FromLogStep ==
    ASSUME EngineInv, FromLog
    PROVE  EngineInv'
<1>1. PICK log \in FirstLogs : /\ Valid(log)
                          /\ engines' = Append(engines, Engine(log, 0, "import"))
  BY DEF FromLog
<1>2. TypedMark(log.watermark) /\ RelationIds(log) \subseteq 0 .. MaxRelationId
  BY EnginesAssumption
<1> QED BY <1>1, <1>2, AddEngine

\* The parts of a log that the relation ids and the watermark depend on.
LEMMA SnapshotIds ==
    ASSUME NEW log, NEW view
    PROVE  /\ RelationIds(Snapshot(log, view)) \subseteq RelationIds(log)
           /\ Snapshot(log, view).watermark = log.watermark
<1>1. /\ Snapshot(log, view).e2o \subseteq log.e2o
      /\ Snapshot(log, view).o2o \subseteq log.o2o
      /\ Snapshot(log, view).watermark = log.watermark
  BY DEF Snapshot, KeptE2o, KeptO2o
<1> QED BY <1>1 DEF RelationIds

LEMMA AppendStep ==
    ASSUME EngineInv, NEW i \in 1 .. Len(engines), AppendTo(i)
    PROVE  EngineInv'
<1> DEFINE old == LogOf(i)
           log == Snapshot(old, DefaultView)
<1>1. PICK batch \in Batches :
          /\ Accepts(log, batch)
          /\ engines' = Append(engines, Engine(Extended(log, batch), i, "append"))
  BY DEF AppendTo, LogOf
<1>2. /\ Valid(old)
      /\ TypedMark(old.watermark)
      /\ RelationIds(old) \subseteq 0 .. MaxRelationId
  BY DEF EngineInv, LogsWellMade, EnginesTypeOK
<1>3. /\ log.watermark = old.watermark
      /\ log.events = old.events /\ log.objects = old.objects
      /\ log.e2o = old.e2o /\ log.o2o = old.o2o
      /\ log.history = old.history
  BY <1>2, DefaultSnapshotIsComplete
<1> DEFINE new == Extended(log, batch)
<1> HIDE DEF log, old, new
<1>4. RelationIds(log) = RelationIds(old)
  BY <1>3 DEF RelationIds
<1>5. /\ Len(batch.e2o) \in Nat /\ Len(batch.o2o) \in Nat
      /\ TypedMark(batch.watermark)
  BY EnginesAssumption
<1>6. /\ RelationIds(new) \subseteq 0 .. MaxRelationId
      /\ GivesFreshIds(log, new)
  BY <1>1, <1>2, <1>4, <1>5, ExtendedIds DEF Accepts, new
<1>7. TypedMark(new.watermark) /\ NotBack(log, new)
  BY <1>1, <1>2, <1>3, <1>5, ExtendedWatermark DEF Accepts, new
<1>8. Keeps(log, new)
  BY ExtendedKeeps DEF new
<1>9. GivesFreshIds(old, new) /\ NotBack(old, new) /\ Keeps(old, new)
  BY <1>3, <1>4, <1>6, <1>7, <1>8 DEF GivesFreshIds, NotBack, Keeps
<1>10. Valid(new) /\ engines' = Append(engines, Engine(new, i, "append"))
  BY <1>1 DEF Accepts, new
<1> QED BY <1>6, <1>7, <1>9, <1>10, AddEngine DEF old

LEMMA ExportStep ==
    ASSUME EngineInv, NEW i \in 1 .. Len(engines), Export(i)
    PROVE  EngineInv'
<1>1. PICK view \in ExportViews :
          /\ Valid(Snapshot(LogOf(i), view))
          /\ engines' = Append(engines, Engine(Snapshot(LogOf(i), view), i, "export"))
  BY DEF Export, LogOf
<1> DEFINE new == Snapshot(LogOf(i), view)
<1>2. /\ TypedMark(LogOf(i).watermark)
      /\ RelationIds(LogOf(i)) \subseteq 0 .. MaxRelationId
  BY DEF EngineInv, LogsWellMade, EnginesTypeOK
<1>3. RelationIds(new) \subseteq RelationIds(LogOf(i)) /\ new.watermark = LogOf(i).watermark
  BY SnapshotIds
<1> HIDE DEF new
<1>4. TypedMark(new.watermark) /\ NotBack(LogOf(i), new)
  BY <1>2, <1>3 DEF TypedMark, NotBack, Before
<1>5. RelationIds(new) \subseteq 0 .. MaxRelationId
  BY <1>2, <1>3
<1>6. Valid(new) /\ engines' = Append(engines, Engine(new, i, "export"))
  BY <1>1 DEF new
<1> QED BY <1>4, <1>5, <1>6, AddEngine

-----------------------------------------------------------------------------
\* The invariant and what follows from it.

\* Every engine reached by imports, appends and exports, in any order and from any
\* engine at hand, satisfies the inductive invariant.
THEOREM EngineInvariant == EngineSpec => []EngineInv
<1>1. EngineInit => EngineInv
  <2> SUFFICES ASSUME EngineInit
               PROVE  EngineInv
    OBVIOUS
  <2>1. Len(engines) = 0 /\ engines \in Seq({engines[i] : i \in 1 .. Len(engines)})
    BY DEF EngineInit
  <2>2. 1 .. Len(engines) = {}
    BY <2>1
  <2> QED BY <2>1, <2>2 DEF EngineInv, EnginesTypeOK, LogsWellMade, AppendKeepsEverything,
                            NewRelationIdsFresh, WatermarkMonotonic, Appended
<1>2. EngineInv /\ [EngineNext]_engineVars => EngineInv'
  <2> SUFFICES ASSUME EngineInv, [EngineNext]_engineVars
               PROVE  EngineInv'
    OBVIOUS
  <2>1. CASE FromLog
    BY <2>1, FromLogStep
  <2>2. ASSUME NEW i \in 1 .. Len(engines), AppendTo(i)
        PROVE  EngineInv'
    BY <2>2, AppendStep
  <2>3. ASSUME NEW i \in 1 .. Len(engines), Export(i)
        PROVE  EngineInv'
    BY <2>3, ExportStep
  <2>4. CASE UNCHANGED engineVars
    BY <2>4 DEF engineVars, EngineInv, EnginesTypeOK, LogsWellMade, AppendKeepsEverything,
                NewRelationIdsFresh, WatermarkMonotonic, Appended, ParentLog, LogOf
  <2> QED BY <2>1, <2>2, <2>3, <2>4 DEF EngineNext
<1> QED BY <1>1, <1>2, PTL DEF EngineSpec

\* snapshot's validation never fails, on any engine and for any view.
THEOREM SnapshotsAlwaysValid == EngineSpec => []SnapshotNeverFails
<1>1. EngineInv => SnapshotNeverFails
  BY SnapshotIsValid DEF EngineInv, LogsWellMade, SnapshotNeverFails
<1> QED BY <1>1, EngineInvariant, PTL

\* append keeps every row of the engine it starts from.
THEOREM NothingLost == EngineSpec => []AppendKeepsEverything
<1>1. EngineInv => AppendKeepsEverything
  BY DEF EngineInv
<1> QED BY <1>1, EngineInvariant, PTL

\* append never gives a relation an id in use in either table, up to u64::MAX.
THEOREM RelationIdsStayApart == EngineSpec => []NewRelationIdsFresh
<1>1. EngineInv => NewRelationIdsFresh
  BY DEF EngineInv
<1> QED BY <1>1, EngineInvariant, PTL

\* The source watermark is monotonic along every chain of engines.
THEOREM WatermarkNeverGoesBack == EngineSpec => []WatermarkMonotonic
<1>1. EngineInv => WatermarkMonotonic
  BY DEF EngineInv
<1> QED BY <1>1, EngineInvariant, PTL
=============================================================================
