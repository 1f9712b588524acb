---------------------------- MODULE SnapshotStore ----------------------------
(***************************************************************************)
(* write_canonical_snapshot (crates/ocpm-duckdb/src/writer.rs) as several  *)
(* threads of several processes run it against one snapshot root:          *)
(*                                                                         *)
(*   <root>/CURRENT                                   pointer              *)
(*   <root>/.CURRENT.tmp-<pid>-<id>                   pointerTemp          *)
(*   <root>/versions/<version>/                       versions             *)
(*   <root>/versions/.<version>.staging-<pid>-<id>/   staging              *)
(*                                                                         *)
(* Every file-system call is a step of its own; any of them may fail with  *)
(* an I/O error, and a process may die between any two of them. A process  *)
(* that comes back may be given its old pid, and its STAGING_ID starts at  *)
(* 1 again, so it can meet the left-overs of its previous life.            *)
(* A log stands for its bytes and for their SHA-256.                       *)
(***************************************************************************)
EXTENDS Naturals

CONSTANTS Writers,      \* threads that call write_canonical_snapshot
          Processes,    \* process ids, distinct on one host
          ProcessOf,    \* the process a thread runs in
          Versions,     \* version names that pass validate_version
          SnapshotLogs, \* canonical logs that pass CanonicalLog::validate
          FileCount,    \* Parquet files of a snapshot (5 in the code)
          MaxId,        \* bound on STAGING_ID
          MaxCalls,     \* bound on the calls explored
          MaxCrashes,   \* bound on the process crashes explored
          Nil           \* absent directory, file, manifest or pointer

Files == 1..FileCount
Ids == 1..MaxId

\* CanonicalParquetManifest: the version it is for and each file's SHA-256.
Manifest == [version : Versions, sha256 : [Files -> SnapshotLogs]]

Dir == [file : [Files -> SnapshotLogs \cup {Nil}], manifest : Manifest \cup {Nil}]

EmptyDir == [file |-> [k \in Files |-> Nil], manifest |-> Nil]

ASSUME StoreAssumption ==
    /\ FileCount \in Nat \ {0}
    /\ MaxId \in Nat
    /\ MaxCalls \in Nat
    /\ MaxCrashes \in Nat
    /\ ProcessOf \in [Writers -> Processes]

ASSUME NoneAssumption ==
    /\ Nil \notin Versions
    /\ Nil \notin SnapshotLogs
    /\ Nil \notin Manifest
    /\ Nil \notin Dir

StagingName == Versions \X Processes \X Ids
PointerName == Processes \X Ids

\* What a call has in its local variables: its arguments, the two ids it drew
\* from STAGING_ID, the next file to write and the hashes gathered so far.
Job == [version : Versions \cup {Nil}, log : SnapshotLogs \cup {Nil},
        id : Ids \cup {Nil}, tmp : Ids \cup {Nil},
        next : 1..(FileCount + 1), sha256 : [Files -> SnapshotLogs \cup {Nil}]]

NewJob(v, l) == [version |-> v, log |-> l, id |-> Nil, tmp |-> Nil,
                 next |-> 1, sha256 |-> [k \in Files |-> Nil]]

WPC == {"idle", "exists", "mkdir", "files", "publish", "pointer", "swap",
        "cleanup", "ok", "err"}

VARIABLES versions,     \* the published version directories
          pointer,      \* the content of CURRENT
          staging,      \* the staging directories, by name
          pointerTemp,  \* the temporary pointer files, by name
          stagingId,    \* STAGING_ID of each process: the next id it hands out
          wpc, job,     \* where each thread is, and its local variables
          calls, crashes,
          retired,      \* history: versions CURRENT has named and left
          orphans       \* history: staging directories nobody will remove

disk == <<versions, pointer, staging, pointerTemp>>
history == <<retired, orphans>>
vars == <<disk, stagingId, wpc, job, calls, crashes, history>>

NoJob(w) == wpc[w] \in {"idle", "ok", "err"}

StagingOf(w) == <<job[w].version, ProcessOf[w], job[w].id>>
PointerOf(w) == <<ProcessOf[w], job[w].tmp>>

Init ==
    /\ versions = [v \in Versions |-> Nil]
    /\ pointer = Nil
    /\ staging = [n \in StagingName |-> Nil]
    /\ pointerTemp = [n \in PointerName |-> Nil]
    /\ stagingId = [p \in Processes |-> 1]
    /\ wpc = [w \in Writers |-> "idle"]
    /\ job = [w \in Writers |-> NewJob(Nil, Nil)]
    /\ calls = 0
    /\ crashes = 0
    /\ retired = {}
    /\ orphans = {}
-----------------------------------------------------------------------------
\* The call begins: version and log are valid, versions/ exists.
Begin(w) ==
    /\ NoJob(w)
    /\ calls < MaxCalls
    /\ calls' = calls + 1
    /\ wpc' = [wpc EXCEPT ![w] = "exists"]
    /\ \E v \in Versions, l \in SnapshotLogs :
           job' = [job EXCEPT ![w] = NewJob(v, l)]
    /\ UNCHANGED <<disk, stagingId, crashes, history>>

\* final_root.exists(): the version is taken, or a staging name is drawn.
CheckExists(w) ==
    /\ wpc[w] = "exists"
    /\ \/ /\ versions[job[w].version] # Nil
          /\ wpc' = [wpc EXCEPT ![w] = "err"]
          /\ UNCHANGED <<job, stagingId>>
       \/ /\ versions[job[w].version] = Nil
          /\ stagingId[ProcessOf[w]] \in Ids
          /\ wpc' = [wpc EXCEPT ![w] = "mkdir"]
          /\ job' = [job EXCEPT ![w].id = stagingId[ProcessOf[w]]]
          /\ stagingId' = [stagingId EXCEPT ![ProcessOf[w]] = @ + 1]
    /\ UNCHANGED <<disk, calls, crashes, history>>

\* create_dir_all(staging): keeps what a dead process left under that name.
MakeStaging(w) ==
    /\ wpc[w] = "mkdir"
    /\ staging' = [staging EXCEPT ![StagingOf(w)] = IF @ = Nil THEN EmptyDir ELSE @]
    /\ orphans' = orphans \ {StagingOf(w)}
    /\ wpc' = [wpc EXCEPT ![w] = "files"]
    /\ UNCHANGED <<versions, pointer, pointerTemp, stagingId, job, calls, crashes, retired>>

\* One round of the loop over targets: COPY the table, then hash the file.
WriteFile(w) ==
    /\ wpc[w] = "files"
    /\ job[w].next \in Files
    /\ LET k == job[w].next
       IN  /\ staging' = [staging EXCEPT ![StagingOf(w)].file[k] = job[w].log]
           /\ job' = [job EXCEPT ![w].next = k + 1,
                                 ![w].sha256[k] = job[w].log]
    /\ UNCHANGED <<versions, pointer, pointerTemp, stagingId, wpc, calls, crashes, history>>

\* Mutation: the manifest may be written before the last file.
WriteManifestEarly(w) ==
    /\ wpc[w] = "files"
    /\ job[w].next >= FileCount
    /\ staging' = [staging EXCEPT ![StagingOf(w)].manifest =
                     [version |-> job[w].version, sha256 |-> [k \in Files |-> job[w].log]]]
    /\ wpc' = [wpc EXCEPT ![w] = "publish"]
    /\ UNCHANGED <<versions, pointer, pointerTemp, stagingId, job, calls, crashes, history>>

\* The manifest is the last file of the staging directory.
WriteManifest(w) ==
    /\ wpc[w] = "files"
    /\ job[w].next = FileCount + 1
    /\ staging' = [staging EXCEPT ![StagingOf(w)].manifest =
                     [version |-> job[w].version, sha256 |-> job[w].sha256]]
    /\ wpc' = [wpc EXCEPT ![w] = "publish"]
    /\ UNCHANGED <<versions, pointer, pointerTemp, stagingId, job, calls, crashes, history>>

\* Mutation: the destination of the rename is replaced if it is there.
PublishReplacing(w) ==
    /\ wpc[w] = "publish"
    /\ stagingId[ProcessOf[w]] \in Ids
    /\ versions' = [versions EXCEPT ![job[w].version] = staging[StagingOf(w)]]
    /\ staging' = [staging EXCEPT ![StagingOf(w)] = Nil]
    /\ job' = [job EXCEPT ![w].tmp = stagingId[ProcessOf[w]]]
    /\ stagingId' = [stagingId EXCEPT ![ProcessOf[w]] = @ + 1]
    /\ wpc' = [wpc EXCEPT ![w] = "pointer"]
    /\ UNCHANGED <<pointer, pointerTemp, calls, crashes, history>>

\* Mutation: a destination that is already there counts as published.
PublishTolerant(w) ==
    /\ wpc[w] = "publish"
    /\ stagingId[ProcessOf[w]] \in Ids
    /\ versions' = [versions EXCEPT ![job[w].version] =
                      IF @ = Nil THEN staging[StagingOf(w)] ELSE @]
    /\ staging' = [staging EXCEPT ![StagingOf(w)] = Nil]
    /\ job' = [job EXCEPT ![w].tmp = stagingId[ProcessOf[w]]]
    /\ stagingId' = [stagingId EXCEPT ![ProcessOf[w]] = @ + 1]
    /\ wpc' = [wpc EXCEPT ![w] = "pointer"]
    /\ UNCHANGED <<pointer, pointerTemp, calls, crashes, history>>

\* rename(staging, final_root): refused when another writer's version directory
\* is already there (a non-empty destination); then the pointer name is drawn.
Publish(w) ==
    /\ wpc[w] = "publish"
    /\ \/ /\ versions[job[w].version] = Nil
          /\ stagingId[ProcessOf[w]] \in Ids
          /\ versions' = [versions EXCEPT ![job[w].version] = staging[StagingOf(w)]]
          /\ staging' = [staging EXCEPT ![StagingOf(w)] = Nil]
          /\ job' = [job EXCEPT ![w].tmp = stagingId[ProcessOf[w]]]
          /\ stagingId' = [stagingId EXCEPT ![ProcessOf[w]] = @ + 1]
          /\ wpc' = [wpc EXCEPT ![w] = "pointer"]
       \/ /\ versions[job[w].version] # Nil
          /\ wpc' = [wpc EXCEPT ![w] = "cleanup"]
          /\ UNCHANGED <<versions, staging, job, stagingId>>
    /\ UNCHANGED <<pointer, pointerTemp, calls, crashes, history>>

WritePointer(w) ==
    /\ wpc[w] = "pointer"
    /\ pointerTemp' = [pointerTemp EXCEPT ![PointerOf(w)] = job[w].version]
    /\ wpc' = [wpc EXCEPT ![w] = "swap"]
    /\ UNCHANGED <<versions, pointer, staging, stagingId, job, calls, crashes, history>>

\* Mutation: CURRENT is removed first, and the new pointer moved in afterwards.
SwapPointerByRemoval(w) ==
    /\ wpc[w] = "swap"
    /\ retired' = (retired \cup {pointer}) \ {Nil}
    /\ \/ /\ pointer # Nil
          /\ pointer' = Nil
          /\ UNCHANGED <<pointerTemp, wpc>>
       \/ /\ pointer = Nil
          /\ pointer' = pointerTemp[PointerOf(w)]
          /\ pointerTemp' = [pointerTemp EXCEPT ![PointerOf(w)] = Nil]
          /\ wpc' = [wpc EXCEPT ![w] = "ok"]
    /\ UNCHANGED <<versions, staging, stagingId, job, calls, crashes, orphans>>

\* rename(pointer_temp, CURRENT) replaces CURRENT whatever it says by now.
SwapPointer(w) ==
    /\ wpc[w] = "swap"
    /\ pointer' = pointerTemp[PointerOf(w)]
    /\ pointerTemp' = [pointerTemp EXCEPT ![PointerOf(w)] = Nil]
    /\ retired' = (retired \cup {pointer}) \ {Nil}
    /\ wpc' = [wpc EXCEPT ![w] = "ok"]
    /\ UNCHANGED <<versions, staging, stagingId, job, calls, crashes, orphans>>

\* Mutation: an error inside write_staging returns without the cleanup.
IoErrorNoCleanup(w) ==
    /\ wpc[w] \in {"exists", "mkdir", "files", "publish", "pointer", "swap"}
    /\ wpc' = [wpc EXCEPT ![w] = "err"]
    /\ UNCHANGED <<disk, stagingId, job, calls, crashes, history>>

\* A file-system or DuckDB call fails. Before the staging directory exists the
\* call returns at once; afterwards it goes through the cleanup.
IoError(w) ==
    /\ \/ /\ wpc[w] \in {"exists", "mkdir"}
          /\ wpc' = [wpc EXCEPT ![w] = "err"]
       \/ /\ wpc[w] \in {"files", "publish", "pointer", "swap"}
          /\ wpc' = [wpc EXCEPT ![w] = "cleanup"]
    /\ UNCHANGED <<disk, stagingId, job, calls, crashes, history>>

\* if staging.exists() { let _ = remove_dir_all(staging) }: the removal may fail
\* and nobody is told.
Cleanup(w) ==
    /\ wpc[w] = "cleanup"
    /\ \/ /\ staging' = [staging EXCEPT ![StagingOf(w)] = Nil]
          /\ UNCHANGED orphans
       \/ /\ staging[StagingOf(w)] # Nil
          /\ orphans' = orphans \cup {StagingOf(w)}
          /\ UNCHANGED staging
    /\ wpc' = [wpc EXCEPT ![w] = "err"]
    /\ UNCHANGED <<versions, pointer, pointerTemp, stagingId, job, calls, crashes, retired>>

\* A process dies with all its threads, and comes back with the same pid.
Crash(p) ==
    /\ crashes < MaxCrashes
    /\ \E w \in Writers : ProcessOf[w] = p /\ ~NoJob(w)
    /\ crashes' = crashes + 1
    /\ wpc' = [w \in Writers |-> IF ProcessOf[w] = p THEN "idle" ELSE wpc[w]]
    /\ job' = [w \in Writers |-> IF ProcessOf[w] = p THEN NewJob(Nil, Nil) ELSE job[w]]
    /\ stagingId' = [stagingId EXCEPT ![p] = 1]
    /\ orphans' = orphans \cup {n \in StagingName : n[2] = p /\ staging[n] # Nil}
    /\ UNCHANGED <<disk, calls, retired>>

WriterStep(w) ==
    \/ CheckExists(w) \/ MakeStaging(w) \/ WriteFile(w) \/ WriteManifest(w)
    \/ Publish(w) \/ WritePointer(w) \/ SwapPointer(w) \/ Cleanup(w)

Next ==
    \/ \E w \in Writers : Begin(w) \/ WriterStep(w) \/ IoError(w)
    \/ \E p \in Processes : Crash(p)

Spec == Init /\ [][Next]_vars
-----------------------------------------------------------------------------
\* A directory that holds one whole log for version v, and a manifest that says
\* so: what resolve_snapshot and validate_canonical_manifest require of it.
Intact(v, d) ==
    /\ d.manifest # Nil
    /\ d.manifest.version = v
    /\ \E l \in SnapshotLogs : \A k \in Files : d.file[k] = l /\ d.manifest.sha256[k] = l

\* Type invariant: the file-system trees, the id counters and the local
\* variables of every writer thread hold what writer.rs puts in them.
TypeOK ==
    /\ versions \in [Versions -> Dir \cup {Nil}]
    /\ pointer \in Versions \cup {Nil}
    /\ staging \in [StagingName -> Dir \cup {Nil}]
    /\ pointerTemp \in [PointerName -> Versions \cup {Nil}]
    /\ stagingId \in [Processes -> 1..(MaxId + 1)]
    /\ wpc \in [Writers -> WPC]
    /\ job \in [Writers -> Job]
    /\ calls \in Nat
    /\ crashes \in Nat
    /\ retired \subseteq Versions
    /\ orphans \subseteq StagingName

\* Whatever fails, dies or races, a directory visible under versions/ holds one
\* writer's whole log under a manifest that matches it (write_staging completes
\* before rename), and CURRENT, once set, names such a directory.
VersionsIntact ==
    /\ \A v \in Versions : versions[v] # Nil => Intact(v, versions[v])
    /\ pointer # Nil => versions[pointer] # Nil

\* A call that returned Ok published its own log: of two writers racing for one
\* version name, the one that lost the rename never reports success.
OkMeansPublished ==
    \A w \in Writers :
        wpc[w] = "ok" => /\ versions[job[w].version] # Nil
                         /\ \A k \in Files : versions[job[w].version].file[k] = job[w].log
                         /\ job[w].version \in retired \cup {pointer}

\* A staging directory exists only while its call runs, unless a crash or a
\* failed removal left it behind: every error path reaches the cleanup.
NoStrayStaging ==
    \A n \in StagingName :
        staging[n] # Nil =>
            \/ n \in orphans
            \/ \E w \in Writers : wpc[w] \in {"files", "publish", "cleanup"} /\ StagingOf(w) = n

\* A published version is immutable: no later call, crash or cleanup touches it.
VersionsImmutable ==
    [][\A v \in Versions : versions[v] # Nil => versions'[v] = versions[v]]_vars

\* CURRENT never goes back to a version it has left, and never becomes unset:
\* each version is swapped in once, by the one call that published it.
NoPointerResurrection ==
    [][pointer' # pointer => pointer' \notin retired \cup {Nil}]_vars

\* What "publishes it atomically" would mean: once the call that made a version
\* visible under versions/ is over, CURRENT names that version or has named it.
PublishedAtomically ==
    \A v \in Versions : versions[v] # Nil =>
        \/ v \in retired \cup {pointer}
        \/ \E w \in Writers : wpc[w] \in {"pointer", "swap"} /\ job[w].version = v

-----------------------------------------------------------------------------
\* The parts of the inductive invariant behind the properties above.

\* A call that has drawn its staging name, or its pointer name.
Named(w) == wpc[w] \in {"mkdir", "files", "publish", "pointer", "swap", "cleanup"}
Pointing(w) == wpc[w] \in {"pointer", "swap"}

\* A running call has its arguments, and the ids it drew lie below STAGING_ID.
JobsSet ==
    \A w \in Writers :
        /\ wpc[w] \notin {"idle", "err"} => job[w].version \in Versions /\ job[w].log \in SnapshotLogs
        /\ wpc[w] \in {"exists", "mkdir"} => job[w].next = 1
        /\ Named(w) => job[w].id \in Ids /\ job[w].id < stagingId[ProcessOf[w]]
        /\ Pointing(w) => job[w].tmp \in Ids /\ job[w].tmp < stagingId[ProcessOf[w]]

\* No two running calls of one process share a staging or a pointer name.
NamesDistinct ==
    \A w, x \in Writers :
        w # x /\ ProcessOf[w] = ProcessOf[x] =>
            /\ Named(w) /\ Named(x) => job[w].id # job[x].id
            /\ Pointing(w) /\ Pointing(x) => job[w].tmp # job[x].tmp

\* The files written so far, and the hashes, are those of the call's own log ...
FilesWritten(w) ==
    /\ staging[StagingOf(w)] # Nil
    /\ \A k \in Files : k < job[w].next =>
          /\ staging[StagingOf(w)].file[k] = job[w].log
          /\ job[w].sha256[k] = job[w].log

\* ... and after the manifest the directory is complete.
ReadyToPublish(w) ==
    /\ staging[StagingOf(w)] # Nil
    /\ staging[StagingOf(w)].manifest # Nil
    /\ staging[StagingOf(w)].manifest.version = job[w].version
    /\ \A k \in Files :
          /\ staging[StagingOf(w)].file[k] = job[w].log
          /\ staging[StagingOf(w)].manifest.sha256[k] = job[w].log

\* Whatever an earlier process left under its name, and whatever the other calls
\* do, a staging directory holds the files of the call that made it.
StagingFilled ==
    \A w \in Writers : /\ wpc[w] = "files" => FilesWritten(w)
                       /\ wpc[w] = "publish" => ReadyToPublish(w)

\* The log a version directory holds is the log of the call.
HoldsLogOf(w) ==
    /\ versions[job[w].version] # Nil
    /\ \A k \in Files : versions[job[w].version].file[k] = job[w].log

\* Between the two renames a version is published, was never CURRENT, and has one
\* call, the one that published it, that will make it CURRENT.
PublishedOnce ==
    /\ \A w \in Writers : Pointing(w) => /\ HoldsLogOf(w)
                                         /\ job[w].version \notin retired \cup {pointer}
    /\ \A w \in Writers : wpc[w] = "swap" => pointerTemp[PointerOf(w)] = job[w].version
    /\ \A w, x \in Writers :
           w # x /\ Pointing(w) /\ Pointing(x) => job[w].version # job[x].version

\* CURRENT never named a version that is not published.
RetiredPublished == \A v \in (retired \cup {pointer}) \ {Nil} : versions[v] # Nil

StoreInv ==
    /\ TypeOK /\ JobsSet /\ NamesDistinct /\ StagingFilled
    /\ PublishedOnce /\ RetiredPublished /\ VersionsIntact /\ OkMeansPublished
-----------------------------------------------------------------------------
\* The writer implements the registry: version directories are the published
\* logs, and a directory that is not intact would count as unpublished.
PublishedLog ==
    [v \in Versions |->
        IF versions[v] # Nil /\ Intact(v, versions[v]) THEN versions[v].file[1] ELSE Nil]

Registry == INSTANCE SnapshotRegistry
    WITH published <- PublishedLog, current <- pointer, Logs <- SnapshotLogs, None <- Nil

\* Every step of every writer is a step of SnapshotRegistry or changes nothing
\* a reader of the directory can see.
ImplementsRegistry == Registry!Spec
=============================================================================
