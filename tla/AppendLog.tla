----------------------------- MODULE AppendLog ------------------------------
(***************************************************************************)
(* Engines over local logs. An engine never changes: append returns a new  *)
(* one built from a complete snapshot of its own log, an export of a view  *)
(* read back gives one over the snapshot of that view, and any engine made *)
(* so far may be used again, so that the engines form a tree.              *)
(***************************************************************************)
EXTENDS CanonicalLog, FiniteSets

CONSTANTS FirstLogs,    \* the logs engines are first built from, valid or not
          Batches, ExportViews,
          MaxEngines    \* bound on the engines made

TypedMark(mark) == mark # None => mark.at \in Int /\ mark.source \in Int

ASSUME EnginesAssumption ==
    /\ MaxEngines \in Nat
    /\ \A log \in FirstLogs : RelationIds(log) \subseteq 0 .. MaxRelationId /\ TypedMark(log.watermark)
    /\ \A batch \in Batches : /\ Len(batch.e2o) \in Nat /\ Len(batch.o2o) \in Nat
                             /\ TypedMark(batch.watermark)

VARIABLES engines       \* the engines made so far: log, parent and origin

engineVars == <<engines>>

Engine(log, parent, origin) == [log |-> log, parent |-> parent, origin |-> origin]

EngineInit == engines = <<>>

\* Engine::from_log: LocalProvider::new validates.
FromLog ==
    /\ Len(engines) < MaxEngines
    /\ \E log \in FirstLogs :
           /\ Valid(log)
           /\ engines' = Append(engines, Engine(log, 0, "import"))

\* Engine::append, on any engine still at hand.
AppendTo(i) ==
    LET log == Snapshot(engines[i].log, DefaultView)
    IN /\ Len(engines) < MaxEngines
       /\ Valid(log)
       /\ \E batch \in Batches :
              /\ Accepts(log, batch)
              /\ engines' = Append(engines, Engine(Extended(log, batch), i, "append"))

\* write_canonical_json of a view, and from_canonical_json of what it wrote.
Export(i) ==
    /\ Len(engines) < MaxEngines
    /\ \E view \in ExportViews :
           LET log == Snapshot(engines[i].log, view)
           IN /\ Valid(log)
              /\ engines' = Append(engines, Engine(log, i, "export"))

EngineNext == FromLog \/ \E i \in 1 .. Len(engines) : AppendTo(i) \/ Export(i)

EngineSpec == EngineInit /\ [][EngineNext]_engineVars

-----------------------------------------------------------------------------
\* Properties.

Appended == {i \in 1 .. Len(engines) : engines[i].origin = "append"}
LogOf(i) == engines[i].log
ParentLog(i) == engines[engines[i].parent].log

\* The type invariant: parents come before their children, ids fit their width.
EnginesTypeOK ==
    \A i \in 1 .. Len(engines) :
        /\ engines[i].origin \in {"import", "append", "export"}
        /\ IF engines[i].origin = "import" THEN engines[i].parent = 0
                                           ELSE engines[i].parent \in 1 .. i - 1
        /\ RelationIds(LogOf(i)) \subseteq 0 .. MaxRelationId

\* Whatever a view leaves out, what snapshot keeps is closed under references and
\* unique ids: the validation at its end never fails on a log that was accepted.
SnapshotNeverFails ==
    \A i \in 1 .. Len(engines), view \in ExportViews : Valid(Snapshot(LogOf(i), view))

Keeps(old, new) ==
    /\ old.events \subseteq new.events
    /\ old.objects \subseteq new.objects
    /\ old.e2o \subseteq new.e2o
    /\ old.o2o \subseteq new.o2o
    /\ old.history \subseteq new.history

\* Appending loses and changes nothing: the complete snapshot really is complete.
AppendKeepsEverything == \A i \in Appended : Keeps(ParentLog(i), LogOf(i))

GivesFreshIds(old, new) ==
    /\ \A r \in new.e2o \ old.e2o : r.relation_id \notin RelationIds(old)
    /\ \A r \in new.o2o \ old.o2o : r.relation_id \notin RelationIds(old)
    /\ \A r \in new.e2o \ old.e2o, s \in new.o2o \ old.o2o : r.relation_id # s.relation_id

\* The ids that append gives are used by no other relation of either kind, although
\* validate would let the two kinds share an id.
NewRelationIdsFresh == \A i \in Appended : GivesFreshIds(ParentLog(i), LogOf(i))

NotBack(old, new) ==
    old.watermark # None => new.watermark # None /\ ~Before(new.watermark, old.watermark)

\* Along appends and exports a watermark is never lost and never goes back.
WatermarkMonotonic ==
    \A i \in 1 .. Len(engines) :
        engines[i].origin # "import" => NotBack(ParentLog(i), LogOf(i))

\* The inductive invariant of the proofs: logs are valid and typed, too.
LogsWellMade ==
    \A i \in 1 .. Len(engines) : Valid(LogOf(i)) /\ TypedMark(LogOf(i).watermark)

EngineInv ==
    /\ engines \in Seq({engines[i] : i \in 1 .. Len(engines)})
    /\ EnginesTypeOK
    /\ LogsWellMade
    /\ AppendKeepsEverything
    /\ NewRelationIdsFresh
    /\ WatermarkMonotonic
=============================================================================
