------------------------ MODULE SnapshotStoreProofs ------------------------
(***************************************************************************)
(* Proofs about SnapshotStore for every number of threads, processes,      *)
(* versions, logs and files, and for every bound; then about ProviderOpen, *)
(* any number of readers and of connections in a pool beside these         *)
(* writers, with any amount of damage from outside.                        *)
(***************************************************************************)
EXTENDS ProviderOpen, TLAPS

\* What a fresh call, or a crashed one, has in its local variables.
LEMMA NewJobType ==
    ASSUME NEW v \in Versions \cup {Nil}, NEW l \in SnapshotLogs \cup {Nil}
    PROVE  /\ NewJob(v, l) \in Job
           /\ NewJob(v, l).version = v
           /\ NewJob(v, l).log = l
           /\ NewJob(v, l).next = 1
  BY StoreAssumption DEF NewJob, Job, Files

\* create_dir_all makes a directory with nothing in it.
LEMMA EmptyDirType == EmptyDir \in Dir
  BY DEF EmptyDir, Dir

\* The initial state satisfies the inductive invariant.
LEMMA InitInv == Init => StoreInv
<1> SUFFICES ASSUME Init PROVE StoreInv
    OBVIOUS
<1> USE DEF Init
<1>1. TypeOK
  <2>1. NewJob(Nil, Nil) \in Job
    BY NewJobType
  <2>2. stagingId \in [Processes -> 1..(MaxId + 1)]
    BY StoreAssumption
  <2> QED
    BY <2>1, <2>2 DEF TypeOK, WPC
<1>2. JobsSet /\ NamesDistinct /\ StagingFilled
  BY DEF JobsSet, NamesDistinct, StagingFilled, Named, Pointing
<1>3. PublishedOnce /\ RetiredPublished /\ VersionsIntact /\ OkMeansPublished
  BY DEF PublishedOnce, RetiredPublished, VersionsIntact, OkMeansPublished, Pointing
<1> QED
  BY <1>1, <1>2, <1>3 DEF StoreInv

\* The names a running call uses are names of the tree.
LEMMA NamesTyped ==
    ASSUME StoreInv, NEW w \in Writers
    PROVE  /\ Named(w) => StagingOf(w) \in StagingName
           /\ Pointing(w) => PointerOf(w) \in PointerName /\ Named(w)
  BY StoreAssumption DEF StoreInv, JobsSet, StagingOf, PointerOf, StagingName, PointerName,
                         Named, Pointing

\* Running calls never share a staging directory or a pointer file.
LEMMA NamesApart ==
    ASSUME StoreInv, NEW w \in Writers, NEW x \in Writers, w # x
    PROVE  /\ Named(w) /\ Named(x) => StagingOf(w) # StagingOf(x)
           /\ Pointing(w) /\ Pointing(x) => PointerOf(w) # PointerOf(x)
  BY DEF StoreInv, NamesDistinct, StagingOf, PointerOf

\* A step of one call that changes nothing but its own staging directory leaves
\* the staging directories of all other calls as they are.
LEMMA OthersFilled ==
    ASSUME StoreInv, NEW w \in Writers, NEW x \in Writers, x # w, Named(w),
           wpc'[x] = wpc[x], job'[x] = job[x],
           \A n \in StagingName : n # StagingOf(w) => staging'[n] = staging[n]
    PROVE  /\ wpc'[x] = "files" => FilesWritten(x)'
           /\ wpc'[x] = "publish" => ReadyToPublish(x)'
<1>1. StagingOf(x)' = StagingOf(x)
  BY DEF StagingOf
<1>2. Named(x) => staging'[StagingOf(x)] = staging[StagingOf(x)]
  BY NamesTyped, NamesApart
<1> QED
  BY <1>1, <1>2 DEF StoreInv, StagingFilled, FilesWritten, ReadyToPublish, Named

\* A call that begins only sets its own arguments.
LEMMA BeginInv ==
    ASSUME StoreInv, NEW w \in Writers, Begin(w)
    PROVE  StoreInv'
<1> PICK v \in Versions, l \in SnapshotLogs : job' = [job EXCEPT ![w] = NewJob(v, l)]
  BY DEF Begin
<1> USE DEF StoreInv
<1>1. TypeOK'
  BY NewJobType DEF Begin, TypeOK, WPC, disk, history
<1>2. JobsSet'
  BY NewJobType DEF Begin, JobsSet, TypeOK, Named, Pointing
<1>3. NamesDistinct'
  BY DEF Begin, NamesDistinct, TypeOK, Named, Pointing
<1>4. StagingFilled'
  BY DEF Begin, StagingFilled, FilesWritten, ReadyToPublish, TypeOK, StagingOf, disk
<1>5. PublishedOnce'
  BY DEF Begin, PublishedOnce, TypeOK, PointerOf, HoldsLogOf, Pointing, disk, history
<1>6. RetiredPublished' /\ VersionsIntact'
  BY DEF Begin, RetiredPublished, VersionsIntact, Intact, disk, history
<1>7. OkMeansPublished'
  BY DEF Begin, OkMeansPublished, TypeOK, disk, history
<1> QED
  BY <1>1, <1>2, <1>3, <1>4, <1>5, <1>6, <1>7

\* The check and the drawing of an id: the new id is above all drawn before, so
\* no running call of the process has it.
LEMMA CheckExistsInv ==
    ASSUME StoreInv, NEW w \in Writers, CheckExists(w)
    PROVE  StoreInv'
<1> USE DEF StoreInv
<1>1. CASE versions[job[w].version] # Nil /\ wpc' = [wpc EXCEPT ![w] = "err"]
              /\ UNCHANGED <<job, stagingId>>
  <2>1. TypeOK'
    BY <1>1 DEF CheckExists, TypeOK, WPC, disk, history
  <2>2. JobsSet' /\ NamesDistinct'
    BY <1>1 DEF CheckExists, JobsSet, NamesDistinct, TypeOK, Named, Pointing
  <2>3. StagingFilled'
    BY <1>1 DEF CheckExists, StagingFilled, FilesWritten, ReadyToPublish, TypeOK, StagingOf, disk
  <2>4. PublishedOnce'
    BY <1>1 DEF CheckExists, PublishedOnce, TypeOK, PointerOf, HoldsLogOf, Pointing, disk,
                history
  <2>5. RetiredPublished' /\ VersionsIntact'
    BY DEF CheckExists, RetiredPublished, VersionsIntact, Intact, disk, history
  <2>6. OkMeansPublished'
    BY <1>1 DEF CheckExists, OkMeansPublished, TypeOK, disk, history
  <2> QED
    BY <2>1, <2>2, <2>3, <2>4, <2>5, <2>6
<1>2. CASE /\ versions[job[w].version] = Nil
           /\ stagingId[ProcessOf[w]] \in Ids
           /\ wpc' = [wpc EXCEPT ![w] = "mkdir"]
           /\ job' = [job EXCEPT ![w].id = stagingId[ProcessOf[w]]]
           /\ stagingId' = [stagingId EXCEPT ![ProcessOf[w]] = @ + 1]
  <2>0. /\ ProcessOf[w] \in Processes
        /\ wpc[w] = "exists"
    BY StoreAssumption DEF CheckExists
  <2>1. TypeOK'
    <3>1. job' \in [Writers -> Job]
      <4>1. job[w] \in Job /\ stagingId[ProcessOf[w]] \in Ids
        BY <1>2 DEF TypeOK
      <4>2. [job[w] EXCEPT !.id = stagingId[ProcessOf[w]]] \in Job
        BY <4>1 DEF Job
      <4> QED
        BY <1>2, <4>2 DEF TypeOK
    <3>2. stagingId' \in [Processes -> 1..(MaxId + 1)]
      BY <1>2, <2>0, StoreAssumption DEF TypeOK, Ids
    <3> QED
      BY <1>2, <3>1, <3>2 DEF CheckExists, TypeOK, WPC, disk, history
  <2>2. JobsSet'
    <3> SUFFICES ASSUME NEW x \in Writers
                 PROVE  /\ wpc'[x] \notin {"idle", "err"} =>
                               job'[x].version \in Versions /\ job'[x].log \in SnapshotLogs
                        /\ wpc'[x] \in {"exists", "mkdir"} => job'[x].next = 1
                        /\ Named(x)' => job'[x].id \in Ids /\ job'[x].id < stagingId'[ProcessOf[x]]
                        /\ Pointing(x)' => job'[x].tmp \in Ids /\ job'[x].tmp < stagingId'[ProcessOf[x]]
      BY DEF JobsSet
    <3>1. ProcessOf[x] \in Processes /\ stagingId[ProcessOf[x]] \in Nat
      BY StoreAssumption DEF TypeOK
    <3>2. stagingId'[ProcessOf[x]] \in Nat /\ stagingId'[ProcessOf[x]] >= stagingId[ProcessOf[x]]
      BY <1>2, <2>0, <3>1 DEF TypeOK
    <3>3. CASE x = w
      BY <1>2, <2>0, <3>1, <3>3 DEF JobsSet, TypeOK, Job, Named, Pointing, Ids
    <3>4. CASE x # w
      BY <1>2, <2>0, <3>1, <3>2, <3>4 DEF JobsSet, TypeOK, Job, Named, Pointing, Ids
    <3> QED
      BY <3>3, <3>4
  <2>3. NamesDistinct'
    <3> SUFFICES ASSUME NEW x \in Writers, NEW y \in Writers, x # y, ProcessOf[x] = ProcessOf[y]
                 PROVE  /\ Named(x)' /\ Named(y)' => job'[x].id # job'[y].id
                        /\ Pointing(x)' /\ Pointing(y)' => job'[x].tmp # job'[y].tmp
      BY DEF NamesDistinct
    <3>1. \A z \in Writers : z # w => wpc'[z] = wpc[z] /\ job'[z] = job[z]
      BY <1>2 DEF TypeOK
    <3>2. wpc'[w] = "mkdir" /\ job'[w].id = stagingId[ProcessOf[w]]
      BY <1>2 DEF TypeOK, Job
    <3>3. \A z \in Writers : Named(z) /\ ProcessOf[z] = ProcessOf[w] => job[z].id # stagingId[ProcessOf[w]]
      BY StoreAssumption DEF JobsSet, TypeOK, Ids
    <3> QED
      BY <3>1, <3>2, <3>3 DEF NamesDistinct, Named, Pointing
  <2>4. StagingFilled'
    BY <1>2 DEF CheckExists, StagingFilled, FilesWritten, ReadyToPublish, TypeOK, Job, StagingOf, disk
  <2>5. PublishedOnce'
    BY <1>2 DEF CheckExists, PublishedOnce, TypeOK, Job, PointerOf, HoldsLogOf, Pointing, disk,
                history
  <2>6. RetiredPublished' /\ VersionsIntact'
    BY DEF CheckExists, RetiredPublished, VersionsIntact, Intact, disk, history
  <2>7. OkMeansPublished'
    BY <1>2 DEF CheckExists, OkMeansPublished, TypeOK, Job, disk, history
  <2> QED
    BY <2>1, <2>2, <2>3, <2>4, <2>5, <2>6, <2>7
<1> QED
  BY <1>1, <1>2 DEF CheckExists

\* create_dir_all on a name nobody else uses; left-overs are kept but none of
\* them counts as written by this call.
LEMMA MakeStagingInv ==
    ASSUME StoreInv, NEW w \in Writers, MakeStaging(w)
    PROVE  StoreInv'
<1> USE DEF StoreInv
<1>0. wpc[w] = "mkdir" /\ Named(w) /\ StagingOf(w) \in StagingName
  BY NamesTyped DEF MakeStaging, Named
<1>1. TypeOK'
  BY <1>0, EmptyDirType DEF MakeStaging, TypeOK, WPC
<1>2. JobsSet' /\ NamesDistinct'
  BY DEF MakeStaging, JobsSet, NamesDistinct, TypeOK, Named, Pointing
<1>3. StagingFilled'
  <2> SUFFICES ASSUME NEW x \in Writers
               PROVE  /\ wpc'[x] = "files" => FilesWritten(x)'
                      /\ wpc'[x] = "publish" => ReadyToPublish(x)'
    BY DEF StagingFilled
  <2>1. job' = job /\ StagingOf(x)' = StagingOf(x)
    BY DEF MakeStaging, StagingOf
  <2>2. CASE x = w
    <3>1. wpc'[x] = "files" /\ job[x].next = 1
      BY <1>0, <2>2 DEF MakeStaging, TypeOK, JobsSet
    <3> QED
      BY <1>0, <2>1, <2>2, <3>1, EmptyDirType, NoneAssumption
      DEF MakeStaging, TypeOK, FilesWritten, Files
  <2>3. CASE x # w
    <3>1. \A n \in StagingName : n # StagingOf(w) => staging'[n] = staging[n]
      BY DEF MakeStaging, TypeOK
    <3> QED
      BY <1>0, <2>1, <2>3, <3>1, OthersFilled DEF MakeStaging, TypeOK
  <2> QED
    BY <2>2, <2>3
<1>4. PublishedOnce'
  BY DEF MakeStaging, PublishedOnce, TypeOK, PointerOf, HoldsLogOf, Pointing
<1>5. RetiredPublished' /\ VersionsIntact'
  BY DEF MakeStaging, RetiredPublished, VersionsIntact, Intact
<1>6. OkMeansPublished'
  BY DEF MakeStaging, OkMeansPublished, TypeOK
<1> QED
  BY <1>1, <1>2, <1>3, <1>4, <1>5, <1>6

\* One round of the COPY loop: one more file, and one more hash, of the own log.
LEMMA WriteFileInv ==
    ASSUME StoreInv, NEW w \in Writers, WriteFile(w)
    PROVE  StoreInv'
<1> DEFINE k == job[w].next
           d == staging[StagingOf(w)]
<1> USE DEF StoreInv
<1>0. /\ wpc[w] = "files" /\ Named(w) /\ StagingOf(w) \in StagingName
      /\ job[w] \in Job /\ job[w].version \in Versions /\ job[w].log \in SnapshotLogs
      /\ d \in Dir /\ k \in Files
  BY NamesTyped DEF WriteFile, Named, JobsSet, TypeOK, StagingFilled, FilesWritten
<1>a. /\ staging' = [staging EXCEPT ![StagingOf(w)] = [d EXCEPT !.file = [d.file EXCEPT ![k] = job[w].log]]]
      /\ job' = [job EXCEPT ![w] = [job[w] EXCEPT !.next = k + 1,
                                                  !.sha256 = [job[w].sha256 EXCEPT ![k] = job[w].log]]]
      /\ wpc' = wpc
  BY <1>0 DEF WriteFile, TypeOK
<1>1. TypeOK'
  <2>1. job' \in [Writers -> Job]
    <3>1. k + 1 \in 1..(FileCount + 1)
      BY <1>0, StoreAssumption DEF Files
    <3> QED
      BY <1>0, <1>a, <3>1 DEF TypeOK, Job
  <2>2. staging' \in [StagingName -> Dir \cup {Nil}]
    BY <1>0, <1>a DEF TypeOK, Dir
  <2> QED
    BY <2>1, <2>2 DEF WriteFile, TypeOK, history
<1>b. \A x \in Writers : /\ job'[x].version = job[x].version /\ job'[x].log = job[x].log
                         /\ job'[x].id = job[x].id /\ job'[x].tmp = job[x].tmp
                         /\ x # w => job'[x] = job[x]
  BY <1>0, <1>a DEF TypeOK, Job
<1>2. JobsSet' /\ NamesDistinct'
  BY <1>0, <1>a, <1>b DEF WriteFile, JobsSet, NamesDistinct, TypeOK, Named, Pointing
<1>3. StagingFilled'
  <2> SUFFICES ASSUME NEW x \in Writers
               PROVE  /\ wpc'[x] = "files" => FilesWritten(x)'
                      /\ wpc'[x] = "publish" => ReadyToPublish(x)'
    BY DEF StagingFilled
  <2>1. CASE x = w
    <3>1. StagingOf(w)' = StagingOf(w)
      BY <1>b DEF StagingOf
    <3>2. /\ staging'[StagingOf(w)] # Nil
          /\ staging'[StagingOf(w)].file = [d.file EXCEPT ![k] = job[w].log]
      BY <1>0, <1>a, NoneAssumption DEF TypeOK, Dir
    <3>3. /\ job'[w].next = k + 1
          /\ job'[w].sha256 = [job[w].sha256 EXCEPT ![k] = job[w].log]
      BY <1>0, <1>a DEF TypeOK, Job
    <3>4. d.file \in [Files -> SnapshotLogs \cup {Nil}] /\ job[w].sha256 \in [Files -> SnapshotLogs \cup {Nil}]
      BY <1>0 DEF Dir, Job
    <3>5. \A j \in Files : j < k => d.file[j] = job[w].log /\ job[w].sha256[j] = job[w].log
      BY <1>0 DEF StagingFilled, FilesWritten
    <3>6. \A j \in Files : j < k + 1 => j = k \/ j < k
      BY <1>0, StoreAssumption DEF Files
    <3>7. FilesWritten(w)'
      BY <1>0, <1>b, <3>1, <3>2, <3>3, <3>4, <3>5, <3>6 DEF FilesWritten
    <3> QED
      BY <1>0, <1>a, <2>1, <3>7
  <2>2. CASE x # w
    BY <1>0, <1>a, <1>b, <2>2, OthersFilled DEF TypeOK
  <2> QED
    BY <2>1, <2>2
<1>4. PublishedOnce'
  <2>1. UNCHANGED <<versions, pointer, retired, pointerTemp, wpc>>
    BY DEF WriteFile, history
  <2> QED
    BY <1>b, <2>1 DEF PublishedOnce, PointerOf, HoldsLogOf, Pointing
<1>5. RetiredPublished' /\ VersionsIntact'
  BY DEF WriteFile, RetiredPublished, VersionsIntact, Intact, history
<1>6. OkMeansPublished'
  <2>1. UNCHANGED <<versions, pointer, retired, wpc>>
    BY DEF WriteFile, history
  <2> QED
    BY <1>b, <2>1 DEF OkMeansPublished
<1> QED
  BY <1>1, <1>2, <1>3, <1>4, <1>5, <1>6

\* After the last round every file is the own log, and the manifest says so.
LEMMA WriteManifestInv ==
    ASSUME StoreInv, NEW w \in Writers, WriteManifest(w)
    PROVE  StoreInv'
<1> DEFINE d == staging[StagingOf(w)]
           m == [version |-> job[w].version, sha256 |-> job[w].sha256]
<1> USE DEF StoreInv
<1>0. /\ wpc[w] = "files" /\ Named(w) /\ StagingOf(w) \in StagingName
      /\ job[w] \in Job /\ job[w].version \in Versions /\ job[w].log \in SnapshotLogs
      /\ d \in Dir /\ job[w].next = FileCount + 1
  BY NamesTyped DEF WriteManifest, Named, JobsSet, TypeOK, StagingFilled, FilesWritten
<1>a. \A j \in Files : d.file[j] = job[w].log /\ job[w].sha256[j] = job[w].log
  <2>1. \A j \in Files : j < FileCount + 1
    BY StoreAssumption DEF Files
  <2> QED
    BY <1>0, <2>1 DEF StagingFilled, FilesWritten
<1>b. m \in Manifest
  BY <1>0, <1>a DEF Manifest, Job
<1>c. /\ staging' = [staging EXCEPT ![StagingOf(w)] = [d EXCEPT !.manifest = m]]
      /\ wpc' = [wpc EXCEPT ![w] = "publish"] /\ job' = job
  BY <1>0 DEF WriteManifest, TypeOK
<1>1. TypeOK'
  <2>1. staging' \in [StagingName -> Dir \cup {Nil}]
    BY <1>0, <1>b, <1>c DEF TypeOK, Dir
  <2> QED
    BY <2>1 DEF WriteManifest, TypeOK, WPC, history
<1>2. JobsSet' /\ NamesDistinct'
  BY <1>0, <1>c DEF WriteManifest, JobsSet, NamesDistinct, TypeOK, Named, Pointing
<1>3. StagingFilled'
  <2> SUFFICES ASSUME NEW x \in Writers
               PROVE  /\ wpc'[x] = "files" => FilesWritten(x)'
                      /\ wpc'[x] = "publish" => ReadyToPublish(x)'
    BY DEF StagingFilled
  <2>1. CASE x = w
    <3>1. StagingOf(w)' = StagingOf(w)
      BY <1>c DEF StagingOf
    <3>2. /\ staging'[StagingOf(w)] # Nil
          /\ staging'[StagingOf(w)].file = d.file
          /\ staging'[StagingOf(w)].manifest = m
      BY <1>0, <1>b, <1>c, NoneAssumption DEF TypeOK, Dir
    <3>3. ReadyToPublish(w)'
      BY <1>a, <1>b, <1>c, <3>1, <3>2, NoneAssumption DEF ReadyToPublish
    <3> QED
      BY <1>c, <2>1, <3>3 DEF TypeOK
  <2>2. CASE x # w
    BY <1>0, <1>c, <2>2, OthersFilled DEF TypeOK
  <2> QED
    BY <2>1, <2>2
<1>4. PublishedOnce'
  BY <1>c DEF WriteManifest, PublishedOnce, TypeOK, PointerOf, HoldsLogOf, Pointing, history
<1>5. RetiredPublished' /\ VersionsIntact'
  BY DEF WriteManifest, RetiredPublished, VersionsIntact, Intact, history
<1>6. OkMeansPublished'
  BY <1>c DEF WriteManifest, OkMeansPublished, TypeOK, history
<1> QED
  BY <1>1, <1>2, <1>3, <1>4, <1>5, <1>6

\* The rename: the version that appears is the complete staging directory, no
\* other call is publishing it and CURRENT never named it.
LEMMA PublishInv ==
    ASSUME StoreInv, NEW w \in Writers, Publish(w)
    PROVE  StoreInv'
<1> DEFINE p == ProcessOf[w]
           v == job[w].version
           d == staging[StagingOf(w)]
<1> USE DEF StoreInv
<1>0. /\ wpc[w] = "publish" /\ Named(w) /\ ~Pointing(w) /\ StagingOf(w) \in StagingName
      /\ job[w] \in Job /\ v \in Versions /\ job[w].log \in SnapshotLogs
      /\ d \in Dir /\ p \in Processes
  BY StoreAssumption, NamesTyped
  DEF Publish, Named, Pointing, JobsSet, TypeOK, StagingFilled, ReadyToPublish
<1>1. CASE versions[v] # Nil
  <2>1. /\ wpc' = [wpc EXCEPT ![w] = "cleanup"]
        /\ UNCHANGED <<versions, pointer, staging, pointerTemp, job, stagingId, calls, crashes,
                       retired, orphans>>
    BY <1>1 DEF Publish, history
  <2>2. TypeOK'
    BY <2>1 DEF TypeOK, WPC
  <2>3. JobsSet' /\ NamesDistinct'
    BY <1>0, <2>1 DEF JobsSet, NamesDistinct, TypeOK, Named, Pointing
  <2>4. StagingFilled'
    BY <2>1 DEF StagingFilled, FilesWritten, ReadyToPublish, TypeOK, StagingOf
  <2>5. PublishedOnce'
    BY <2>1 DEF PublishedOnce, TypeOK, PointerOf, HoldsLogOf, Pointing
  <2>6. RetiredPublished' /\ VersionsIntact'
    BY <2>1 DEF RetiredPublished, VersionsIntact, Intact
  <2>7. OkMeansPublished'
    BY <2>1 DEF OkMeansPublished, TypeOK
  <2> QED
    BY <2>2, <2>3, <2>4, <2>5, <2>6, <2>7
<1>2. CASE versions[v] = Nil
  <2>0. /\ stagingId[p] \in Ids
        /\ versions' = [versions EXCEPT ![v] = d]
        /\ staging' = [staging EXCEPT ![StagingOf(w)] = Nil]
        /\ job' = [job EXCEPT ![w] = [job[w] EXCEPT !.tmp = stagingId[p]]]
        /\ stagingId' = [stagingId EXCEPT ![p] = stagingId[p] + 1]
        /\ wpc' = [wpc EXCEPT ![w] = "pointer"]
        /\ UNCHANGED <<pointer, pointerTemp, calls, crashes, retired, orphans>>
    BY <1>2, <1>0 DEF Publish, TypeOK, history
  <2>a. /\ wpc'[w] = "pointer" /\ job'[w].tmp = stagingId[p]
        /\ job'[w].version = v /\ job'[w].log = job[w].log /\ job'[w].id = job[w].id
        /\ job'[w].next = job[w].next
        /\ versions'[v] = d
        /\ \A x \in Writers : x # w => wpc'[x] = wpc[x] /\ job'[x] = job[x]
        /\ \A u \in Versions : u # v => versions'[u] = versions[u]
    BY <1>0, <2>0 DEF TypeOK, Job
  <2>b. /\ d # Nil /\ Intact(v, d)
        /\ \A k \in Files : d.file[k] = job[w].log
    BY <1>0 DEF StagingFilled, ReadyToPublish, Intact
  <2>c. \A x \in Writers : /\ stagingId[ProcessOf[x]] \in Nat /\ stagingId'[ProcessOf[x]] \in Nat
                           /\ stagingId[ProcessOf[x]] <= stagingId'[ProcessOf[x]]
                           /\ stagingId[p] < stagingId'[p]
    <3>1. \A q \in Processes : stagingId[q] \in Nat
      BY DEF TypeOK
    <3>2. stagingId'[p] = stagingId[p] + 1
      BY <1>0, <2>0 DEF TypeOK
    <3>3. \A q \in Processes : q # p => stagingId'[q] = stagingId[q]
      BY <2>0 DEF TypeOK
    <3>4. \A x \in Writers : ProcessOf[x] \in Processes
      BY StoreAssumption
    <3> QED
      BY <1>0, <3>1, <3>2, <3>3, <3>4
  <2>1. TypeOK'
    <3>1. job' \in [Writers -> Job]
      <4>1. [job[w] EXCEPT !.tmp = stagingId[p]] \in Job
        BY <1>0, <2>0 DEF Job
      <4> QED
        BY <2>0, <4>1 DEF TypeOK
    <3>2. stagingId' \in [Processes -> 1..(MaxId + 1)]
      BY <1>0, <2>0, StoreAssumption DEF TypeOK, Ids
    <3> QED
      BY <1>0, <2>0, <3>1, <3>2 DEF TypeOK, WPC
  <2>2. JobsSet'
    BY <1>0, <2>0, <2>a, <2>c DEF JobsSet, Named, Pointing, Ids
  <2>3. NamesDistinct'
    <3>1. \A x \in Writers : Pointing(x) /\ ProcessOf[x] = p => job[x].tmp # stagingId[p]
      BY <2>c DEF JobsSet, Ids
    <3> QED
      BY <1>0, <2>a, <3>1 DEF NamesDistinct, Named, Pointing
  <2>4. StagingFilled'
    <3> SUFFICES ASSUME NEW x \in Writers
                 PROVE  /\ wpc'[x] = "files" => FilesWritten(x)'
                        /\ wpc'[x] = "publish" => ReadyToPublish(x)'
      BY DEF StagingFilled
    <3>1. CASE x = w
      BY <2>a, <3>1
    <3>2. CASE x # w
      BY <1>0, <2>0, <2>a, <3>2, OthersFilled DEF TypeOK
    <3> QED
      BY <3>1, <3>2
  <2>5. PublishedOnce'
    <3>1. v \notin retired \cup {pointer}
      BY <1>0, <1>2, NoneAssumption DEF RetiredPublished
    <3>2. \A x \in Writers : x # w /\ Pointing(x)' =>
              /\ Pointing(x) /\ job'[x] = job[x] /\ job[x].version \in Versions
              /\ job[x].version # v /\ HoldsLogOf(x)
              /\ versions'[job[x].version] = versions[job[x].version]
      BY <1>2, <2>a DEF PublishedOnce, Pointing, JobsSet, HoldsLogOf
    <3>3. \A x \in Writers : Pointing(x)' =>
              HoldsLogOf(x)' /\ job'[x].version \notin retired' \cup {pointer'}
      BY <2>0, <2>a, <2>b, <3>1, <3>2 DEF HoldsLogOf, PublishedOnce
    <3>4. \A x \in Writers : wpc'[x] = "swap" => pointerTemp'[PointerOf(x)'] = job'[x].version
      BY <2>0, <2>a DEF PublishedOnce, PointerOf
    <3>5. \A x, y \in Writers : x # y /\ Pointing(x)' /\ Pointing(y)' =>
                                    job'[x].version # job'[y].version
      BY <2>a, <3>2 DEF PublishedOnce
    <3> QED
      BY <3>3, <3>4, <3>5 DEF PublishedOnce
  <2>6. RetiredPublished'
    BY <1>0, <2>0, <2>a, <2>b DEF RetiredPublished, TypeOK
  <2>7. VersionsIntact'
    BY <1>0, <2>0, <2>a, <2>b DEF VersionsIntact, TypeOK
  <2>8. OkMeansPublished'
    BY <1>2, <2>0, <2>a DEF OkMeansPublished, JobsSet
  <2> QED
    BY <2>1, <2>2, <2>3, <2>4, <2>5, <2>6, <2>7, <2>8
<1> QED
  BY <1>1, <1>2

\* The pointer file of a call is written by that call alone.
LEMMA WritePointerInv ==
    ASSUME StoreInv, NEW w \in Writers, WritePointer(w)
    PROVE  StoreInv'
<1> USE DEF StoreInv
<1>0. /\ wpc[w] = "pointer" /\ Pointing(w) /\ PointerOf(w) \in PointerName
      /\ job[w].version \in Versions
      /\ wpc' = [wpc EXCEPT ![w] = "swap"]
      /\ pointerTemp' = [pointerTemp EXCEPT ![PointerOf(w)] = job[w].version]
      /\ UNCHANGED <<versions, pointer, staging, stagingId, job, calls, crashes, retired, orphans>>
  BY NamesTyped DEF WritePointer, Pointing, JobsSet, history
<1>1. TypeOK'
  BY <1>0 DEF TypeOK, WPC
<1>2. JobsSet' /\ NamesDistinct'
  BY <1>0 DEF JobsSet, NamesDistinct, TypeOK, Named, Pointing
<1>3. StagingFilled'
  BY <1>0 DEF StagingFilled, FilesWritten, ReadyToPublish, TypeOK, StagingOf
<1>4. PublishedOnce'
  <2>1. \A x \in Writers : Pointing(x)' <=> Pointing(x)
    BY <1>0 DEF TypeOK, Pointing
  <2>2. \A x \in Writers : x # w /\ Pointing(x) =>
            PointerOf(x) # PointerOf(w) /\ PointerOf(x) \in PointerName
    BY <1>0, NamesApart, NamesTyped
  <2>3. \A x \in Writers : wpc'[x] = "swap" => pointerTemp'[PointerOf(x)'] = job'[x].version
    BY <1>0, <2>1, <2>2 DEF PublishedOnce, TypeOK, PointerOf, Pointing
  <2> QED
    BY <1>0, <2>1, <2>3 DEF PublishedOnce, HoldsLogOf
<1>5. RetiredPublished' /\ VersionsIntact'
  BY <1>0 DEF RetiredPublished, VersionsIntact, Intact
<1>6. OkMeansPublished'
  BY <1>0 DEF OkMeansPublished, TypeOK
<1> QED
  BY <1>1, <1>2, <1>3, <1>4, <1>5, <1>6

\* The swap makes CURRENT the version its own call published.
LEMMA SwapPointerInv ==
    ASSUME StoreInv, NEW w \in Writers, SwapPointer(w)
    PROVE  StoreInv'
<1> DEFINE v == job[w].version
<1> USE DEF StoreInv
<1>0. /\ wpc[w] = "swap" /\ Pointing(w) /\ PointerOf(w) \in PointerName
      /\ v \in Versions /\ versions[v] # Nil
      /\ wpc' = [wpc EXCEPT ![w] = "ok"]
      /\ pointer' = v
      /\ pointerTemp' = [pointerTemp EXCEPT ![PointerOf(w)] = Nil]
      /\ retired' = (retired \cup {pointer}) \ {Nil}
      /\ UNCHANGED <<versions, staging, stagingId, job, calls, crashes, orphans>>
  BY NamesTyped DEF SwapPointer, Pointing, JobsSet, PublishedOnce, HoldsLogOf
<1>1. TypeOK'
  BY <1>0 DEF TypeOK, WPC
<1>2. JobsSet' /\ NamesDistinct'
  BY <1>0 DEF JobsSet, NamesDistinct, TypeOK, Named, Pointing
<1>3. StagingFilled'
  BY <1>0 DEF StagingFilled, FilesWritten, ReadyToPublish, TypeOK, StagingOf
<1>4. PublishedOnce'
  <2>1. \A x \in Writers : Pointing(x)' => Pointing(x) /\ x # w
    BY <1>0 DEF TypeOK, Pointing
  <2>2. \A x \in Writers : x # w /\ Pointing(x) =>
            PointerOf(x) # PointerOf(w) /\ PointerOf(x) \in PointerName
    BY <1>0, NamesApart, NamesTyped
  <2>3. \A x \in Writers : wpc'[x] = "swap" => pointerTemp'[PointerOf(x)'] = job'[x].version
    BY <1>0, <2>1, <2>2 DEF PublishedOnce, TypeOK, PointerOf, Pointing
  <2>4. \A x \in Writers : Pointing(x)' => job'[x].version \notin retired' \cup {pointer'}
    BY <1>0, <2>1 DEF PublishedOnce
  <2> QED
    BY <1>0, <2>1, <2>3, <2>4 DEF PublishedOnce, HoldsLogOf
<1>5. RetiredPublished' /\ VersionsIntact'
  BY <1>0 DEF RetiredPublished, VersionsIntact, Intact
<1>6. OkMeansPublished'
  <2>1. HoldsLogOf(w)
    BY <1>0 DEF PublishedOnce
  <2>2. \A x \in Writers : x # w => wpc'[x] = wpc[x]
    BY <1>0 DEF TypeOK
  <2>3. \A x \in Writers : wpc[x] = "ok" => job[x].version # Nil
    BY NoneAssumption DEF JobsSet
  <2> QED
    BY <1>0, <2>1, <2>2, <2>3 DEF OkMeansPublished, HoldsLogOf
<1> QED
  BY <1>1, <1>2, <1>3, <1>4, <1>5, <1>6

\* An error leaves the tree as it is.
LEMMA IoErrorInv ==
    ASSUME StoreInv, NEW w \in Writers, IoError(w)
    PROVE  StoreInv'
<1> USE DEF StoreInv
<1>0. /\ \/ wpc' = [wpc EXCEPT ![w] = "err"]
         \/ Named(w) /\ wpc' = [wpc EXCEPT ![w] = "cleanup"]
      /\ UNCHANGED <<versions, pointer, staging, pointerTemp, stagingId, job, calls, crashes,
                     retired, orphans>>
  BY DEF IoError, Named, disk, history
<1>1. TypeOK'
  BY <1>0 DEF TypeOK, WPC
<1>2. JobsSet' /\ NamesDistinct'
  BY <1>0 DEF JobsSet, NamesDistinct, TypeOK, Named, Pointing
<1>3. StagingFilled'
  BY <1>0 DEF StagingFilled, FilesWritten, ReadyToPublish, TypeOK, StagingOf
<1>4. PublishedOnce'
  BY <1>0 DEF PublishedOnce, TypeOK, PointerOf, HoldsLogOf, Pointing
<1>5. RetiredPublished' /\ VersionsIntact'
  BY <1>0 DEF RetiredPublished, VersionsIntact, Intact
<1>6. OkMeansPublished'
  BY <1>0 DEF OkMeansPublished, TypeOK
<1> QED
  BY <1>1, <1>2, <1>3, <1>4, <1>5, <1>6

\* The cleanup removes nothing that another call uses.
LEMMA CleanupInv ==
    ASSUME StoreInv, NEW w \in Writers, Cleanup(w)
    PROVE  StoreInv'
<1> USE DEF StoreInv
<1>0. /\ wpc[w] = "cleanup" /\ Named(w) /\ StagingOf(w) \in StagingName
      /\ wpc' = [wpc EXCEPT ![w] = "err"]
      /\ staging' \in {staging, [staging EXCEPT ![StagingOf(w)] = Nil]}
      /\ UNCHANGED <<versions, pointer, pointerTemp, stagingId, job, calls, crashes, retired>>
  BY NamesTyped DEF Cleanup, Named
<1>1. TypeOK'
  BY <1>0 DEF TypeOK, WPC, Cleanup
<1>2. JobsSet' /\ NamesDistinct'
  BY <1>0 DEF JobsSet, NamesDistinct, TypeOK, Named, Pointing
<1>3. StagingFilled'
  <2> SUFFICES ASSUME NEW x \in Writers
               PROVE  /\ wpc'[x] = "files" => FilesWritten(x)'
                      /\ wpc'[x] = "publish" => ReadyToPublish(x)'
    BY DEF StagingFilled
  <2>1. CASE x = w
    BY <1>0, <2>1 DEF TypeOK
  <2>2. CASE x # w
    BY <1>0, <2>2, OthersFilled DEF TypeOK
  <2> QED
    BY <2>1, <2>2
<1>4. PublishedOnce'
  BY <1>0 DEF PublishedOnce, TypeOK, PointerOf, HoldsLogOf, Pointing
<1>5. RetiredPublished' /\ VersionsIntact'
  BY <1>0 DEF RetiredPublished, VersionsIntact, Intact
<1>6. OkMeansPublished'
  BY <1>0 DEF OkMeansPublished, TypeOK
<1> QED
  BY <1>1, <1>2, <1>3, <1>4, <1>5, <1>6

\* A crash forgets the calls of one process and leaves the tree as it is; that
\* STAGING_ID starts again is harmless, for the process has no running call.
LEMMA CrashInv ==
    ASSUME StoreInv, NEW p \in Processes, Crash(p)
    PROVE  StoreInv'
<1> USE DEF StoreInv
<1>0. /\ \A x \in Writers : ProcessOf[x] = p => wpc'[x] = "idle"
      /\ \A x \in Writers : ProcessOf[x] # p =>
            /\ wpc'[x] = wpc[x] /\ job'[x] = job[x]
            /\ stagingId'[ProcessOf[x]] = stagingId[ProcessOf[x]]
      /\ UNCHANGED <<versions, pointer, staging, pointerTemp, calls, retired>>
  BY StoreAssumption DEF Crash, TypeOK, disk
<1>1. TypeOK'
  <2>1. job' \in [Writers -> Job]
    <3>1. NewJob(Nil, Nil) \in Job
      BY NewJobType
    <3> QED
      BY <3>1 DEF Crash, TypeOK
  <2>2. stagingId' \in [Processes -> 1..(MaxId + 1)]
    BY StoreAssumption DEF Crash, TypeOK
  <2> QED
    BY <2>1, <2>2 DEF Crash, TypeOK, WPC, disk
<1>2. JobsSet' /\ NamesDistinct'
  BY <1>0 DEF JobsSet, NamesDistinct, Named, Pointing
<1>3. StagingFilled'
  BY <1>0 DEF StagingFilled, FilesWritten, ReadyToPublish, StagingOf
<1>4. PublishedOnce'
  BY <1>0 DEF PublishedOnce, PointerOf, HoldsLogOf, Pointing
<1>5. RetiredPublished' /\ VersionsIntact'
  BY <1>0 DEF RetiredPublished, VersionsIntact, Intact
<1>6. OkMeansPublished'
  BY <1>0 DEF OkMeansPublished
<1> QED
  BY <1>1, <1>2, <1>3, <1>4, <1>5, <1>6

\* Every step preserves the inductive invariant.
LEMMA StepInv == StoreInv /\ [Next]_vars => StoreInv'
<1> SUFFICES ASSUME StoreInv, [Next]_vars PROVE StoreInv'
    OBVIOUS
<1>1. ASSUME NEW w \in Writers, Begin(w) \/ WriterStep(w) \/ IoError(w) PROVE StoreInv'
  BY <1>1, BeginInv, CheckExistsInv, MakeStagingInv, WriteFileInv, WriteManifestInv, PublishInv,
     WritePointerInv, SwapPointerInv, CleanupInv, IoErrorInv DEF WriterStep
<1>2. ASSUME NEW p \in Processes, Crash(p) PROVE StoreInv'
  BY <1>2, CrashInv
<1>3. ASSUME UNCHANGED vars PROVE StoreInv'
  <2>1. UNCHANGED <<versions, pointer, staging, pointerTemp, stagingId, wpc, job, calls, crashes,
                    retired, orphans>>
    BY <1>3 DEF vars, disk, history
  <2>2. TypeOK' /\ JobsSet' /\ NamesDistinct'
    BY <2>1 DEF StoreInv, TypeOK, JobsSet, NamesDistinct, Named, Pointing
  <2>3. StagingFilled'
    BY <2>1 DEF StoreInv, StagingFilled, FilesWritten, ReadyToPublish, StagingOf
  <2>4. PublishedOnce' /\ RetiredPublished'
    BY <2>1 DEF StoreInv, PublishedOnce, RetiredPublished, HoldsLogOf, Pointing, PointerOf
  <2>5. VersionsIntact' /\ OkMeansPublished'
    BY <2>1 DEF StoreInv, VersionsIntact, OkMeansPublished, Intact
  <2> QED
    BY <2>2, <2>3, <2>4, <2>5 DEF StoreInv
<1> QED
  BY <1>1, <1>2, <1>3 DEF Next

\* The inductive invariant holds throughout every run of any number of writers.
THEOREM StoreInvariant == Spec => []StoreInv
  BY InitInv, StepInv, PTL DEF Spec

\* Type correctness of the directory tree and of every writer's local variables.
THEOREM StoreTypeCorrect == Spec => []TypeOK
<1>1. StoreInv => TypeOK
  BY DEF StoreInv
<1> QED
  BY <1>1, StoreInvariant, PTL

\* write_canonical_snapshot never exposes a partial or mixed version directory,
\* and CURRENT names a published one, whatever fails, dies or races.
THEOREM PublishedVersionsIntact == Spec => []VersionsIntact
<1>1. StoreInv => VersionsIntact
  BY DEF StoreInv
<1> QED
  BY <1>1, StoreInvariant, PTL

\* A call of write_canonical_snapshot that returned Ok published its own log.
THEOREM OkIsPublished == Spec => []OkMeansPublished
<1>1. StoreInv => OkMeansPublished
  BY DEF StoreInv
<1> QED
  BY <1>1, StoreInvariant, PTL

\* A step leaves every version directory as it is, but for publishing one where
\* there was none.
LEMMA VersionsStep ==
    ASSUME StoreInv, [Next]_vars, NEW v \in Versions
    PROVE  versions[v] # Nil => versions'[v] = versions[v]
<1>1. ASSUME NEW w \in Writers, Publish(w) PROVE versions[v] # Nil => versions'[v] = versions[v]
  BY <1>1 DEF Publish, StoreInv, TypeOK
<1>2. ASSUME NEW w \in Writers, Begin(w) \/ WriterStep(w) \/ IoError(w), ~Publish(w)
      PROVE  versions' = versions
  BY <1>2 DEF WriterStep, Begin, CheckExists, MakeStaging, WriteFile, WriteManifest, WritePointer,
              SwapPointer, Cleanup, IoError, disk
<1>3. ASSUME NEW p \in Processes, Crash(p) PROVE versions' = versions
  BY <1>3 DEF Crash, disk
<1>4. ASSUME UNCHANGED vars PROVE versions' = versions
  BY <1>4 DEF vars, disk
<1> QED
  BY <1>1, <1>2, <1>3, <1>4 DEF Next

\* The only step that moves CURRENT is the rename of the pointer by the call that
\* published the version, which CURRENT had not named before.
LEMMA CurrentStep ==
    ASSUME StoreInv, [Next]_vars
    PROVE  \/ UNCHANGED <<pointer, retired>>
           \/ /\ pointer' \in Versions
              /\ versions[pointer'] # Nil
              /\ pointer' \notin retired \cup {pointer}
              /\ retired' = (retired \cup {pointer}) \ {Nil}
              /\ UNCHANGED versions
<1>1. ASSUME NEW w \in Writers, SwapPointer(w)
      PROVE  /\ pointer' \in Versions
             /\ versions[pointer'] # Nil
             /\ pointer' \notin retired \cup {pointer}
             /\ retired' = (retired \cup {pointer}) \ {Nil}
             /\ UNCHANGED versions
  BY <1>1 DEF SwapPointer, StoreInv, PublishedOnce, JobsSet, Pointing, HoldsLogOf
<1>2. ASSUME NEW w \in Writers, Begin(w) \/ WriterStep(w) \/ IoError(w), ~SwapPointer(w)
      PROVE  UNCHANGED <<pointer, retired>>
  BY <1>2 DEF WriterStep, Begin, CheckExists, MakeStaging, WriteFile, WriteManifest, WritePointer,
              Publish, Cleanup, IoError, disk, history
<1>3. ASSUME NEW p \in Processes, Crash(p) PROVE UNCHANGED <<pointer, retired>>
  BY <1>3 DEF Crash, disk
<1>4. ASSUME UNCHANGED vars PROVE UNCHANGED <<pointer, retired>>
  BY <1>4 DEF vars, disk, history
<1> QED
  BY <1>1, <1>2, <1>3, <1>4 DEF Next

\* A published version directory is never changed again by any writer.
THEOREM PublishedVersionsImmutable == Spec => VersionsImmutable
<1>1. StoreInv /\ [Next]_vars =>
          [\A v \in Versions : versions[v] # Nil => versions'[v] = versions[v]]_vars
  BY VersionsStep
<1> QED
  BY <1>1, StoreInvariant, PTL DEF Spec, VersionsImmutable

\* CURRENT never returns to a version it has left and is never unset.
THEOREM PointerNeverResurrects == Spec => NoPointerResurrection
<1>1. StoreInv /\ [Next]_vars => [pointer' # pointer => pointer' \notin retired \cup {Nil}]_vars
  BY CurrentStep, NoneAssumption
<1> QED
  BY <1>1, StoreInvariant, PTL DEF Spec, NoPointerResurrection

\* Once renamed, the staging directory of a call shows as the call's log.
LEMMA PublishRefines ==
    ASSUME StoreInv, NEW w \in Writers, Publish(w), versions[job[w].version] = Nil
    PROVE  Registry!Publish(job[w].version, job[w].log) /\ job[w].version \in Versions
                                                        /\ job[w].log \in SnapshotLogs
<1> DEFINE v == job[w].version
           d == staging[StagingOf(w)]
<1>1. /\ v \in Versions /\ job[w].log \in SnapshotLogs
      /\ versions' = [versions EXCEPT ![v] = d]
      /\ UNCHANGED <<pointer, retired>>
  BY DEF Publish, StoreInv, JobsSet, history
<1>2. d # Nil /\ Intact(v, d) /\ d.file[1] = job[w].log
  BY <1>1, StoreAssumption
  DEF Publish, StoreInv, StagingFilled, ReadyToPublish, Intact, Files
<1>3. versions'[v] = d /\ \A u \in Versions : u # v => versions'[u] = versions[u]
  BY <1>1 DEF StoreInv, TypeOK
<1>4. PublishedLog' = [PublishedLog EXCEPT ![v] = job[w].log]
  <2>1. PublishedLog' = [u \in Versions |->
            IF versions'[u] # Nil /\ Intact(u, versions'[u]) THEN versions'[u].file[1] ELSE Nil]
    BY DEF PublishedLog, Intact
  <2>2. PublishedLog'[v] = job[w].log
    BY <1>1, <1>2, <1>3, <2>1
  <2>3. \A u \in Versions : u # v => PublishedLog'[u] = PublishedLog[u]
    BY <1>3, <2>1 DEF PublishedLog
  <2>4. /\ PublishedLog = [u \in Versions |-> PublishedLog[u]]
        /\ PublishedLog' = [u \in Versions |-> PublishedLog'[u]]
    BY <2>1 DEF PublishedLog
  <2> HIDE DEF v, d
  <2> QED
    BY <1>1, <2>2, <2>3, <2>4
<1>5. PublishedLog[v] = Nil
  BY <1>1 DEF PublishedLog
<1> QED
  BY <1>1, <1>4, <1>5 DEF Registry!Publish

\* A step that leaves the version directories alone leaves the registry's logs.
LEMMA LogsUnchanged == UNCHANGED versions => UNCHANGED PublishedLog
  BY DEF PublishedLog, Intact

\* Every step of a writer, and every crash, is a step of the registry or leaves
\* it unchanged.
LEMMA StepRefines == StoreInv /\ [Next]_vars => [Registry!Next]_Registry!registryVars
<1> SUFFICES ASSUME StoreInv, [Next]_vars PROVE [Registry!Next]_Registry!registryVars
    OBVIOUS
<1>1. ASSUME NEW w \in Writers, Publish(w), versions[job[w].version] = Nil
      PROVE  Registry!Next
  BY <1>1, PublishRefines DEF Registry!Next
<1>2. ASSUME NEW w \in Writers, SwapPointer(w)
      PROVE  Registry!Next
  <2>1. /\ pointer' \in Versions /\ versions[pointer'] # Nil
        /\ pointer' \notin retired \cup {pointer}
        /\ retired' = (retired \cup {pointer}) \ {Nil}
        /\ UNCHANGED versions
    BY <1>2 DEF SwapPointer, StoreInv, PublishedOnce, JobsSet, Pointing, HoldsLogOf
  <2>2. PublishedLog[pointer'] # Nil
    BY <2>1, StoreAssumption, NoneAssumption DEF PublishedLog, StoreInv, VersionsIntact, Intact, Files
  <2>3. Registry!Advance(pointer')
    BY <2>1, <2>2, LogsUnchanged DEF Registry!Advance
  <2> QED
    BY <2>1, <2>3 DEF Registry!Next
<1>3. ASSUME NEW w \in Writers, Begin(w) \/ WriterStep(w) \/ IoError(w), ~SwapPointer(w),
             ~(Publish(w) /\ versions[job[w].version] = Nil)
      PROVE  UNCHANGED <<versions, pointer, retired>>
  BY <1>3 DEF WriterStep, Begin, CheckExists, MakeStaging, WriteFile, WriteManifest, WritePointer,
              Publish, Cleanup, IoError, disk, history
<1>4. ASSUME NEW p \in Processes, Crash(p) PROVE UNCHANGED <<versions, pointer, retired>>
  BY <1>4 DEF Crash, disk
<1>5. ASSUME UNCHANGED vars PROVE UNCHANGED <<versions, pointer, retired>>
  BY <1>5 DEF vars, disk, history
<1>6. UNCHANGED <<versions, pointer, retired>> => UNCHANGED Registry!registryVars
  BY LogsUnchanged DEF Registry!registryVars
<1> QED
  BY <1>1, <1>2, <1>3, <1>4, <1>5, <1>6 DEF Next, WriterStep

\* The writer implements SnapshotRegistry: to those who open the directory, any
\* number of racing, failing and crashing calls look like whole versions that
\* appear at once and a pointer that only moves on.
THEOREM WriterImplementsRegistry == Spec => ImplementsRegistry
<1>1. Init => Registry!Init
  BY DEF Init, Registry!Init, PublishedLog
<1> QED
  BY <1>1, StepRefines, StoreInvariant, PTL DEF Spec, ImplementsRegistry, Registry!Spec

\* A step of one call leaves the staging directories owned by the others with them,
\* and accounts for the one it owns itself.
LEMMA WriterStepStray ==
    ASSUME StoreInv, NoStrayStaging, NEW w \in Writers, Begin(w) \/ WriterStep(w) \/ IoError(w)
    PROVE  NoStrayStaging'
<1> DEFINE Owns(x, n) == wpc[x] \in {"files", "publish", "cleanup"} /\ StagingOf(x) = n
<1> SUFFICES ASSUME NEW n \in StagingName, staging'[n] # Nil, n \notin orphans'
             PROVE  \E x \in Writers : Owns(x, n)'
    BY DEF NoStrayStaging
<1> USE DEF StoreInv
<1>1. \A x \in Writers : x # w => (Owns(x, n)' <=> Owns(x, n))
  BY DEF WriterStep, Begin, CheckExists, MakeStaging, WriteFile, WriteManifest, Publish,
         WritePointer, SwapPointer, Cleanup, IoError, TypeOK, StagingOf, Job
<1>2. staging[n] # Nil /\ n \notin orphans => \E x \in Writers : Owns(x, n)
  BY DEF NoStrayStaging
<1>3. CASE Begin(w) \/ CheckExists(w) \/ WritePointer(w) \/ SwapPointer(w)
  <2>1. ~Owns(w, n) /\ UNCHANGED <<staging, orphans>>
    BY <1>3 DEF Begin, NoJob, CheckExists, WritePointer, SwapPointer, disk, history
  <2> QED
    BY <1>1, <1>2, <2>1
<1>4. CASE IoError(w)
  <2>1. Owns(w, n) => Owns(w, n)'
    BY <1>4 DEF IoError, TypeOK, StagingOf
  <2>2. UNCHANGED <<staging, orphans>>
    BY <1>4 DEF IoError, disk, history
  <2> QED
    BY <1>1, <1>2, <2>1, <2>2
<1>5. CASE MakeStaging(w)
  <2>1. StagingOf(w) = n => Owns(w, n)'
    BY <1>5 DEF MakeStaging, TypeOK, StagingOf
  <2>2. StagingOf(w) # n => staging'[n] = staging[n] /\ n \notin orphans /\ ~Owns(w, n)
    BY <1>5 DEF MakeStaging, TypeOK
  <2> QED
    BY <1>1, <1>2, <2>1, <2>2
<1>6. CASE WriteFile(w) \/ WriteManifest(w)
  <2>0. StagingOf(w)' = StagingOf(w)
    BY <1>6 DEF WriteFile, WriteManifest, StagingOf, TypeOK, Job
  <2>1. StagingOf(w) = n => Owns(w, n)'
    BY <1>6, <2>0 DEF WriteFile, WriteManifest, TypeOK
  <2>2. StagingOf(w) # n => staging'[n] = staging[n] /\ n \notin orphans /\ ~Owns(w, n)
    BY <1>6 DEF WriteFile, WriteManifest, TypeOK, history
  <2> QED
    BY <1>1, <1>2, <2>1, <2>2
<1>7. CASE Publish(w)
  <2>1. CASE versions[job[w].version] = Nil
    <3>1. StagingOf(w) # n /\ staging'[n] = staging[n] /\ n \notin orphans
      BY <1>7, <2>1, NamesTyped DEF Publish, TypeOK, history, Named
    <3> QED
      BY <1>1, <1>2, <3>1
  <2>2. CASE versions[job[w].version] # Nil
    <3>1. Owns(w, n) => Owns(w, n)'
      BY <1>7, <2>2 DEF Publish, TypeOK, StagingOf
    <3>2. UNCHANGED <<staging, orphans>>
      BY <1>7, <2>2 DEF Publish, history
    <3> QED
      BY <1>1, <1>2, <3>1, <3>2
  <2> QED
    BY <2>1, <2>2
<1>8. CASE Cleanup(w)
  <2>1. StagingOf(w) # n /\ staging'[n] = staging[n] /\ n \notin orphans
    BY <1>8, NamesTyped DEF Cleanup, TypeOK, Named
  <2> QED
    BY <1>1, <1>2, <2>1
<1> QED
  BY <1>3, <1>4, <1>5, <1>6, <1>7, <1>8 DEF WriterStep

\* Every staging directory of a process that dies is counted as left behind.
LEMMA CrashStray ==
    ASSUME StoreInv, NoStrayStaging, NEW p \in Processes, Crash(p)
    PROVE  NoStrayStaging'
<1> SUFFICES ASSUME NEW n \in StagingName, staging'[n] # Nil, n \notin orphans'
             PROVE  \E x \in Writers : wpc'[x] \in {"files", "publish", "cleanup"}
                                          /\ StagingOf(x)' = n
    BY DEF NoStrayStaging
<1>1. staging[n] # Nil /\ n \notin orphans /\ n[2] # p
  BY DEF Crash, disk
<1>2. PICK x \in Writers : wpc[x] \in {"files", "publish", "cleanup"} /\ StagingOf(x) = n
  BY <1>1 DEF NoStrayStaging
<1>3. ProcessOf[x] # p
  BY <1>1, <1>2 DEF StagingOf
<1> QED
  BY <1>2, <1>3 DEF Crash, StagingOf

\* write_canonical_snapshot leaves no staging directory behind unless its process
\* dies or the removal itself fails: every other way out passes the cleanup.
THEOREM NoStagingLeftBehind == Spec => []NoStrayStaging
<1>1. Init => NoStrayStaging
  BY DEF Init, NoStrayStaging
<1>2. StoreInv /\ NoStrayStaging /\ [Next]_vars => NoStrayStaging'
  <2> SUFFICES ASSUME StoreInv, NoStrayStaging, [Next]_vars PROVE NoStrayStaging'
      OBVIOUS
  <2>1. UNCHANGED vars => NoStrayStaging'
    BY DEF vars, disk, history, NoStrayStaging, StagingOf
  <2> QED
    BY <2>1, WriterStepStray, CrashStray DEF Next
<1> QED
  BY <1>1, <1>2, StoreInvariant, PTL DEF Spec
-----------------------------------------------------------------------------
(* Readers beside the writers: ProviderOpen.                               *)

\* A step of the composition is a step of the writers or leaves the tree alone.
LEMMA ComposedStep == [OpenNext]_allVars => [Next]_vars
  BY DEF OpenNext, Damage, allVars

\* The writers' invariant holds whatever readers and damage do.
LEMMA StoreInvThroughout == OpenSpec => []StoreInv
<1>1. OpenInit => Init
  BY DEF OpenInit
<1> QED
  BY <1>1, InitInv, StepInv, ComposedStep, PTL DEF OpenSpec

\* A fresh open has resolved nothing and pinned nothing.
LEMMA NewOpeningTyped ==
    ASSUME NEW s \in Selectable, NEW strict \in BOOLEAN
    PROVE  /\ NewOpening(s, strict) \in Opening
           /\ NewOpening(s, strict).conn = 1
           /\ NewOpening(s, strict).select = s
           /\ NewOpening(s, strict).strict = strict
  BY StoreAssumption, OpenAssumption DEF NewOpening, Opening, Pool

\* The initial state satisfies the inductive invariant.
LEMMA OpenInitInv == OpenInit => OpenInv
<1> SUFFICES ASSUME OpenInit PROVE OpenInv
    OBVIOUS
<1> USE DEF OpenInit, Init
<1>1. OpenTypeOK
  <2>1. NewOpening(Nil, FALSE) \in Opening
    BY NewOpeningTyped DEF Selectable
  <2> QED
    BY <2>1 DEF OpenTypeOK, Damages
<1>2. ASSUME NEW r \in Openers PROVE ReaderInv(r)
  <2>1. opening[r].conn = 1 /\ rpc[r] = "idle"
    BY NewOpeningTyped DEF Selectable
  <2>2. Behind(r)
    BY DEF Behind
  <2>3. Resolved(r) /\ FailedForCause(r)
    BY <2>1 DEF Resolved, FailedForCause
  <2> HIDE DEF OpenInit, Init
  <2>4. Joined(r)
    <3>1. \A c \in Pool : ~(c < 1)
      BY OpenAssumption DEF Pool
    <3> QED
      BY <2>1, <3>1 DEF Joined
  <2> QED
    BY <2>2, <2>3, <2>4 DEF ReaderInv
<1> QED
  BY <1>1, <1>2 DEF OpenInv

\* What the writers may do to the tree under a reader: a published version stays
\* as it is, and CURRENT moves only to a version it has not named before.
LEMMA TreeMovesOn ==
    ASSUME StoreInv, [Next]_vars, pointer \notin retired
    PROVE  /\ \A v \in Versions : versions[v] # Nil => versions'[v] = versions[v]
           /\ retired \subseteq retired'
           /\ pointer # Nil => pointer \in retired' \cup {pointer'} /\ pointer' # Nil
           /\ pointer' \notin retired'
<1>1. \A v \in Versions : versions[v] # Nil => versions'[v] = versions[v]
  BY VersionsStep
<1>2. CASE UNCHANGED <<pointer, retired>>
  BY <1>1, <1>2
<1>3. CASE /\ pointer' \in Versions
           /\ pointer' \notin retired \cup {pointer}
           /\ retired' = (retired \cup {pointer}) \ {Nil}
  <2>1. retired \subseteq Versions
    BY DEF StoreInv, TypeOK
  <2> QED
    BY <1>1, <1>3, <2>1, NoneAssumption
<1> QED
  BY <1>2, <1>3, CurrentStep

\* The facts about an open survive any step of the tree that only moves on.
LEMMA ReaderKept ==
    ASSUME NEW r \in Openers, ReaderInv(r), OpenTypeOK,
           rpc'[r] = rpc[r], opening'[r] = opening[r], seen'[r] = seen[r],
           damage \subseteq damage', retired \subseteq retired',
           \A v \in Versions : versions[v] # Nil => versions'[v] = versions[v],
           pointer # Nil => pointer \in retired' \cup {pointer'} /\ pointer' # Nil
    PROVE  ReaderInv(r)'
<1>1. Behind(r)'
  BY DEF ReaderInv, Behind
<1>2. \A v \in Versions : ReadFresh(r, v) => ReadFresh(r, v)'
  BY NoneAssumption DEF ReadFresh
<1>3. \A v, n : CleanBelow(r, v, n) => CleanBelow(r, v, n)'
  BY DEF CleanBelow
<1>4. Resolved(r)'
  BY <1>2, <1>3 DEF ReaderInv, Resolved
<1>5. Joined(r)'
  BY <1>2, <1>3 DEF ReaderInv, Joined
<1>6. FailedForCause(r)'
  BY DEF ReaderInv, FailedForCause
<1> QED
  BY <1>1, <1>4, <1>5, <1>6 DEF ReaderInv

\* A writer's step, or none, between two steps of the readers.
LEMMA WriterKeepsOpens ==
    ASSUME StoreInv, OpenInv, [Next]_vars, UNCHANGED readerVars
    PROVE  OpenInv'
<1>1. OpenTypeOK'
  BY DEF OpenInv, OpenTypeOK, readerVars
<1>2. pointer' \notin retired'
  BY TreeMovesOn DEF OpenInv
<1>3. ASSUME NEW r \in Openers PROVE ReaderInv(r)'
  BY TreeMovesOn, ReaderKept DEF OpenInv, readerVars
<1> QED
  BY <1>1, <1>2, <1>3 DEF OpenInv

\* Damage only adds to what is damaged.
LEMMA DamageKeepsOpens ==
    ASSUME OpenInv, Damage
    PROVE  OpenInv'
<1>1. damage \subseteq damage' /\ damage' \in Damages
  BY DEF Damage, OpenInv, OpenTypeOK, Damages
<1>2. UNCHANGED <<versions, pointer, retired, rpc, opening, seen>>
  BY DEF Damage, vars, disk, history
<1>3. OpenTypeOK' /\ pointer' \notin retired'
  BY <1>1, <1>2 DEF OpenInv, OpenTypeOK
<1>4. ASSUME NEW r \in Openers PROVE ReaderInv(r)'
  BY <1>1, <1>2, ReaderKept DEF OpenInv
<1> QED
  BY <1>3, <1>4 DEF OpenInv

\* A step of one reader leaves the others' opens as they are; for its own open
\* the step lemmas below establish the facts.
LEMMA OwnOpenSuffices ==
    ASSUME OpenInv, NEW r \in Openers, UNCHANGED vars, damage' = damage,
           NEW p \in {"idle", "resolve", "manifest", "verify", "join", "open", "err"},
           rpc' = [rpc EXCEPT ![r] = p],
           NEW o \in Opening, opening' = [opening EXCEPT ![r] = o],
           \/ UNCHANGED seen
           \/ seen' = [seen EXCEPT ![r] = [retired |-> retired, current |-> pointer,
                                           damage |-> damage]],
           StoreInv,
           ReaderInv(r)'
    PROVE  OpenInv'
<1>1. UNCHANGED <<versions, pointer, retired>>
  BY DEF vars, disk, history
<1>2. OpenTypeOK'
  <2>1. retired \in SUBSET Versions /\ pointer \in Versions \cup {Nil}
    BY DEF StoreInv, TypeOK
  <2> QED
    BY <2>1 DEF OpenInv, OpenTypeOK
<1>3. ASSUME NEW x \in Openers, x # r PROVE ReaderInv(x)'
  <2>1. rpc'[x] = rpc[x] /\ opening'[x] = opening[x] /\ seen'[x] = seen[x]
    BY <1>3 DEF OpenInv, OpenTypeOK
  <2> QED
    BY <1>1, <1>3, <2>1, ReaderKept DEF OpenInv
<1> QED
  BY <1>1, <1>2, <1>3 DEF OpenInv

\* A new open has seen the directory as it is.
LEMMA BeginOpenInv ==
    ASSUME StoreInv, OpenInv, NEW r \in Openers, BeginOpen(r), UNCHANGED vars
    PROVE  OpenInv'
<1> PICK s \in Selectable, strict \in BOOLEAN : opening' = [opening EXCEPT ![r] = NewOpening(s, strict)]
  BY DEF BeginOpen
<1> DEFINE o == NewOpening(s, strict)
<1>1. o \in Opening /\ o.conn = 1 /\ o.select = s
  BY NewOpeningTyped
<1> HIDE DEF o
<1>2. /\ rpc' = [rpc EXCEPT ![r] = "resolve"]
      /\ opening' = [opening EXCEPT ![r] = o]
      /\ seen' = [seen EXCEPT ![r] = [retired |-> retired, current |-> pointer,
                                      damage |-> damage]]
      /\ UNCHANGED <<damage, versions, pointer, retired>>
  BY DEF BeginOpen, o, vars, disk, history
<1>3. /\ rpc'[r] = "resolve" /\ opening'[r] = o
      /\ seen'[r] = [retired |-> retired, current |-> pointer, damage |-> damage]
  BY <1>2 DEF OpenInv, OpenTypeOK
<1>4. 1 \in Pool /\ \A c \in Pool : ~(c < 1)
  BY OpenAssumption DEF Pool
<1>5. Behind(r)'
  BY <1>2, <1>3 DEF Behind
<1>6. Resolved(r)' /\ Joined(r)' /\ FailedForCause(r)'
  BY <1>1, <1>3, <1>4 DEF Resolved, Joined, FailedForCause
<1> QED
  BY <1>1, <1>2, <1>5, <1>6, OwnOpenSuffices DEF ReaderInv

\* The version of this connection: CURRENT is read afresh, and a pool that was
\* pinned to another version was pinned to one that CURRENT has left.
LEMMA ResolveVersionInv ==
    ASSUME StoreInv, OpenInv, NEW r \in Openers, ResolveVersion(r), UNCHANGED vars
    PROVE  OpenInv'
<1>0. /\ rpc[r] = "resolve" /\ opening[r] \in Opening /\ ReaderInv(r)
      /\ UNCHANGED <<damage, seen, versions, pointer, retired>>
  BY DEF ResolveVersion, OpenInv, OpenTypeOK, vars, disk, history
<1>1. ASSUME NEW v \in Versions, opening' = [opening EXCEPT ![r].version = v],
             rpc' = [rpc EXCEPT ![r] = "manifest"],
             v = opening[r].select \/ (opening[r].select = Nil /\ v = pointer)
      PROVE  OpenInv'
  <2> DEFINE o == [opening[r] EXCEPT !.version = v]
  <2>1. o \in Opening /\ opening' = [opening EXCEPT ![r] = o]
    BY <1>0, <1>1 DEF Opening, OpenInv, OpenTypeOK
  <2>2. /\ o.conn = opening[r].conn /\ o.select = opening[r].select
        /\ o.strict = opening[r].strict /\ o.pinned = opening[r].pinned
        /\ o.expected = opening[r].expected /\ o.version = v
    BY <1>0 DEF Opening
  <2>3. opening'[r] = o /\ rpc'[r] = "manifest"
    BY <1>1, <2>1 DEF OpenInv, OpenTypeOK
  <2> HIDE DEF o
  <2>4. Behind(r)'
    BY <1>0 DEF ReaderInv, Behind
  <2>5. \A u \in Versions : ReadFresh(r, u)' = ReadFresh(r, u)
    BY <1>0 DEF ReadFresh
  <2>6. \A u, n : CleanBelow(r, u, n)' = CleanBelow(r, u, n)
    BY <1>0 DEF CleanBelow
  <2>7. Joined(r)' /\ FailedForCause(r)'
    BY <1>0, <2>2, <2>3, <2>5, <2>6 DEF ReaderInv, Joined, FailedForCause
  <2>8. opening[r].select = Nil => ReadFresh(r, v)
    BY <1>0, <1>1, NoneAssumption
    DEF ReadFresh, StoreInv, RetiredPublished, OpenInv, ReaderInv, Behind
  <2>9. opening[r].select = Nil /\ opening[r].conn > 1 /\ v # opening[r].pinned[1]
            => opening[r].pinned[1] \in retired
    BY <1>0, <1>1, NoneAssumption DEF ReaderInv, Joined, ReadFresh
  <2>10. Resolved(r)'
    BY <1>0, <2>2, <2>3, <2>5, <2>8, <2>9 DEF ReaderInv, Resolved
  <2> QED
    BY <1>0, <1>1, <2>1, <2>4, <2>7, <2>10, OwnOpenSuffices DEF ReaderInv
<1>2. CASE /\ opening[r].select # Nil
           /\ opening' = [opening EXCEPT ![r].version = opening[r].select]
           /\ rpc' = [rpc EXCEPT ![r] = "manifest"]
  <2>1. opening[r].select \in Versions
    BY <1>0, <1>2 DEF Opening, Selectable
  <2> QED
    BY <1>1, <1>2, <2>1
<1>3. CASE /\ opening[r].select = Nil /\ pointer # Nil
           /\ opening' = [opening EXCEPT ![r].version = pointer]
           /\ rpc' = [rpc EXCEPT ![r] = "manifest"]
  <2>1. pointer \in Versions
    BY <1>3 DEF StoreInv, TypeOK
  <2> QED
    BY <1>1, <1>3, <2>1
<1>4. CASE /\ opening[r].select = Nil /\ pointer = Nil
           /\ rpc' = [rpc EXCEPT ![r] = "err"]
           /\ UNCHANGED opening
  <2>1. rpc'[r] = "err" /\ opening' = [opening EXCEPT ![r] = opening[r]]
    BY <1>4 DEF OpenInv, OpenTypeOK
  <2>2. Behind(r)' /\ FailedForCause(r)'
    BY <1>0, <1>4 DEF ReaderInv, Behind, FailedForCause
  <2>3. Resolved(r)' /\ Joined(r)'
    BY <1>0, <1>4, <2>1 DEF ReaderInv, Resolved, Joined, ReadFresh, CleanBelow
  <2> QED
    BY <1>0, <1>4, <2>1, <2>2, <2>3, OwnOpenSuffices DEF ReaderInv
<1> QED
  BY <1>2, <1>3, <1>4 DEF ResolveVersion

\* An open that fails keeps what it had; it only has to have a cause.
LEMMA FailInv ==
    ASSUME StoreInv, OpenInv, NEW r \in Openers, UNCHANGED vars,
           rpc' = [rpc EXCEPT ![r] = "err"], UNCHANGED <<opening, damage, seen>>,
           opening[r].select = Nil => \/ opening[r].conn > 1 /\ opening[r].pinned[1] \in retired
                                      \/ damage # {}
    PROVE  OpenInv'
<1>0. ReaderInv(r) /\ UNCHANGED <<versions, pointer, retired>>
  BY DEF OpenInv, vars, disk, history
<1>1. /\ rpc'[r] = "err" /\ opening[r] \in Opening
      /\ opening' = [opening EXCEPT ![r] = opening[r]]
  BY DEF OpenInv, OpenTypeOK
<1>2. Behind(r)' /\ FailedForCause(r)'
  BY <1>0 DEF ReaderInv, Behind, FailedForCause
<1>3. Resolved(r)' /\ Joined(r)'
  BY <1>0, <1>1 DEF ReaderInv, Resolved, Joined, ReadFresh, CleanBelow
<1> QED
  BY <1>1, <1>2, <1>3, OwnOpenSuffices DEF ReaderInv

\* A published version has a manifest for itself, of the log that its files hold.
LEMMA PublishedManifest ==
    ASSUME StoreInv, NEW v \in Versions, versions[v] # Nil
    PROVE  /\ versions[v].manifest \in Manifest
           /\ versions[v].manifest.version = v
           /\ \A k \in Files : /\ versions[v].file[k] = versions[v].manifest.sha256[k]
                               /\ versions[v].manifest.sha256[k] \in SnapshotLogs
<1>1. versions[v] \in Dir
  BY DEF StoreInv, TypeOK
<1> QED
  BY <1>1 DEF StoreInv, VersionsIntact, Intact, Dir

\* Reading the manifest cannot fail on a version that was read from CURRENT.
LEMMA ReadManifestInv ==
    ASSUME StoreInv, OpenInv, NEW r \in Openers, ReadManifest(r), UNCHANGED vars
    PROVE  OpenInv'
<1> PICK v : v = opening[r].version
  OBVIOUS
<1> DEFINE found == versions[v] # Nil /\ versions[v].manifest # Nil
                     /\ versions[v].manifest.version = v
<1>0. /\ rpc[r] = "manifest" /\ opening[r] \in Opening /\ ReaderInv(r) /\ v \in Versions
      /\ UNCHANGED <<damage, seen, versions, pointer, retired>>
  BY DEF ReadManifest, OpenInv, OpenTypeOK, ReaderInv, Resolved, vars, disk, history
<1>1. CASE /\ found
           /\ opening' = [opening EXCEPT ![r].manifest = versions[v].manifest,
                                         ![r].next = 1]
           /\ rpc' = [rpc EXCEPT ![r] = IF opening[r].strict THEN "verify" ELSE "join"]
  <2> DEFINE o == [opening[r] EXCEPT !.manifest = versions[v].manifest, !.next = 1]
             p == IF opening[r].strict THEN "verify" ELSE "join"
  <2>0. versions[v].manifest \in Manifest /\ 1 \in 1..(FileCount + 1)
    BY <1>0, <1>1, PublishedManifest, StoreAssumption
  <2>1. o \in Opening /\ opening' = [opening EXCEPT ![r] = o]
    BY <1>0, <1>1, <2>0 DEF Opening, OpenInv, OpenTypeOK
  <2>2. /\ o.conn = opening[r].conn /\ o.select = opening[r].select
        /\ o.strict = opening[r].strict /\ o.pinned = opening[r].pinned
        /\ o.expected = opening[r].expected /\ o.version = v
        /\ o.manifest = versions[v].manifest /\ o.next = 1
    BY <1>0 DEF Opening
  <2>3. /\ opening'[r] = o /\ rpc'[r] = p
        /\ p \in {"verify", "join"} /\ (p = "join" => ~o.strict)
    BY <1>0, <1>1, <2>1, <2>2 DEF OpenInv, OpenTypeOK, Opening
  <2>4. rpc' = [rpc EXCEPT ![r] = p]
    BY <1>1
  <2>5. \A n : CleanBelow(r, v, 1)' /\ (\A u : CleanBelow(r, u, n)' = CleanBelow(r, u, n))
    BY <1>0 DEF CleanBelow, Files
  <2>6. \A u \in Versions : ReadFresh(r, u)' = ReadFresh(r, u)
    BY <1>0 DEF ReadFresh
  <2> HIDE DEF o, p
  <2>7. Behind(r)'
    BY <1>0 DEF ReaderInv, Behind
  <2>8. Joined(r)' /\ FailedForCause(r)'
    BY <1>0, <2>2, <2>3, <2>5, <2>6 DEF ReaderInv, Joined, FailedForCause
  <2>9. versions[v] # Nil
    BY <1>1
  <2>10. Resolved(r)'
    <3>1. /\ o.conn \in Pool /\ (o.select = Nil => ReadFresh(r, v)')
          /\ (o.select = Nil /\ o.conn > 1 /\ v # o.pinned[1] => o.pinned[1] \in retired')
      BY <1>0, <2>2, <2>6 DEF ReaderInv, Resolved
    <3>2. versions'[v] # Nil /\ o.manifest = versions'[v].manifest /\ CleanBelow(r, v, 1)'
      BY <1>0, <2>2, <2>5, <2>9
    <3> QED
      BY <1>0, <2>2, <2>3, <3>1, <3>2 DEF Resolved
  <2> QED
    BY <1>0, <2>1, <2>3, <2>4, <2>7, <2>8, <2>10, OwnOpenSuffices DEF ReaderInv
<1>2. CASE ~found /\ rpc' = [rpc EXCEPT ![r] = "err"] /\ UNCHANGED opening
  <2>1. opening[r].select # Nil
    BY <1>0, <1>2, PublishedManifest, NoneAssumption DEF ReaderInv, Resolved, ReadFresh
  <2> QED
    BY <1>0, <1>2, <2>1, FailInv
<1> QED
  BY <1>1, <1>2 DEF ReadManifest

\* A file whose hash agrees with the manifest was not damaged when the open began,
\* for damaged bytes are those of no log; one whose hash does not agree is damaged.
LEMMA VerifyFileInv ==
    ASSUME StoreInv, OpenInv, NEW r \in Openers, VerifyFile(r), UNCHANGED vars
    PROVE  OpenInv'
<1> DEFINE v == opening[r].version
           k == opening[r].next
<1>0. /\ rpc[r] = "verify" /\ opening[r] \in Opening /\ ReaderInv(r) /\ v \in Versions
      /\ versions[v] # Nil /\ opening[r].manifest = versions[v].manifest
      /\ CleanBelow(r, v, k)
      /\ UNCHANGED <<damage, seen, versions, pointer, retired>>
  BY DEF VerifyFile, OpenInv, OpenTypeOK, ReaderInv, Resolved, vars, disk, history
<1>1. /\ \A u \in Versions : ReadFresh(r, u)' = ReadFresh(r, u)
      /\ \A u, n : CleanBelow(r, u, n)' = CleanBelow(r, u, n)
      /\ Behind(r)'
  BY <1>0 DEF ReadFresh, CleanBelow, ReaderInv, Behind
<1>2. CASE /\ k \in Files
           /\ FileBytes(v, k) = opening[r].manifest.sha256[k]
           /\ opening' = [opening EXCEPT ![r].next = k + 1]
           /\ UNCHANGED rpc
  <2> DEFINE o == [opening[r] EXCEPT !.next = k + 1]
  <2>0. k \in Nat /\ k + 1 \in 1..(FileCount + 1)
    BY <1>2, StoreAssumption DEF Files
  <2>1. o \in Opening /\ opening' = [opening EXCEPT ![r] = o]
    BY <1>0, <1>2, <2>0 DEF Opening, OpenInv, OpenTypeOK
  <2>2. /\ o.conn = opening[r].conn /\ o.select = opening[r].select
        /\ o.strict = opening[r].strict /\ o.pinned = opening[r].pinned
        /\ o.expected = opening[r].expected /\ o.version = v
        /\ o.manifest = opening[r].manifest /\ o.next = k + 1
    BY <1>0 DEF Opening
  <2>3. opening'[r] = o /\ rpc'[r] = "verify" /\ rpc' = [rpc EXCEPT ![r] = "verify"]
    BY <1>0, <1>2, <2>1 DEF OpenInv, OpenTypeOK
  <2>4. <<v, k>> \notin seen[r].damage
    <3>1. opening[r].manifest.sha256[k] # Nil
      BY <1>0, <1>2, PublishedManifest, NoneAssumption
    <3> QED
      BY <1>0, <1>2, <3>1 DEF FileBytes, ReaderInv, Behind
  <2>5. CleanBelow(r, v, k + 1)
    BY <1>0, <2>0, <2>4 DEF CleanBelow, Files
  <2> HIDE DEF o, v, k
  <2>6. Joined(r)' /\ FailedForCause(r)'
    BY <1>0, <1>1, <2>2, <2>3 DEF ReaderInv, Joined, FailedForCause
  <2>7. Resolved(r)'
    <3>1. /\ o.conn \in Pool /\ (o.select = Nil => ReadFresh(r, v))
          /\ o.select = Nil /\ o.conn > 1 /\ v # o.pinned[1] => o.pinned[1] \in retired
      BY <1>0, <2>2 DEF ReaderInv, Resolved, v
    <3>2. v \in Versions /\ versions'[v] # Nil /\ o.manifest = versions'[v].manifest
      BY <1>0, <2>2
    <3> QED
      BY <1>0, <1>1, <2>2, <2>3, <2>5, <3>1, <3>2 DEF Resolved
  <2> QED
    BY <1>0, <1>1, <2>1, <2>3, <2>6, <2>7, OwnOpenSuffices DEF ReaderInv
<1>3. CASE /\ k \in Files
           /\ FileBytes(v, k) # opening[r].manifest.sha256[k]
           /\ rpc' = [rpc EXCEPT ![r] = "err"]
           /\ UNCHANGED opening
  <2>1. <<v, k>> \in damage
    BY <1>0, <1>3, PublishedManifest DEF FileBytes
  <2> QED
    BY <1>0, <1>3, <2>1, FailInv
<1>4. CASE /\ k = FileCount + 1
           /\ rpc' = [rpc EXCEPT ![r] = "join"]
           /\ UNCHANGED opening
  <2>1. rpc'[r] = "join" /\ opening' = [opening EXCEPT ![r] = opening[r]]
    BY <1>4 DEF OpenInv, OpenTypeOK
  <2>2. Resolved(r)' /\ Joined(r)' /\ FailedForCause(r)'
    BY <1>0, <1>1, <1>4, <2>1 DEF ReaderInv, Resolved, Joined, FailedForCause
  <2> QED
    BY <1>0, <1>1, <1>4, <2>1, <2>2, OwnOpenSuffices DEF ReaderInv
<1> QED
  BY <1>2, <1>3, <1>4 DEF VerifyFile

\* The first connection pins the pool; a later one joins only if it resolved the
\* same version, and a version has one manifest.
LEMMA JoinPoolInv ==
    ASSUME StoreInv, OpenInv, NEW r \in Openers, JoinPool(r), UNCHANGED vars
    PROVE  OpenInv'
<1> PICK v, c : v = opening[r].version /\ c = opening[r].conn
  OBVIOUS
<1>0. /\ rpc[r] = "join" /\ opening[r] \in Opening /\ ReaderInv(r) /\ v \in Versions
      /\ versions[v] # Nil /\ opening[r].manifest = versions[v].manifest
      /\ c \in Pool /\ (opening[r].strict => CleanBelow(r, v, FileCount + 1))
      /\ (opening[r].select = Nil => ReadFresh(r, v))
      /\ (opening[r].select = Nil /\ c > 1 /\ v # opening[r].pinned[1]
            => opening[r].pinned[1] \in retired)
      /\ UNCHANGED <<damage, seen, versions, pointer, retired>>
  BY DEF JoinPool, OpenInv, OpenTypeOK, ReaderInv, Resolved, vars, disk, history
<1>1. /\ \A u \in Versions : ReadFresh(r, u)' = ReadFresh(r, u)
      /\ \A u, n : CleanBelow(r, u, n)' = CleanBelow(r, u, n)
      /\ Behind(r)'
  BY <1>0 DEF ReadFresh, CleanBelow, ReaderInv, Behind
<1>2. /\ c \in Nat /\ c >= 1 /\ c <= PoolSize /\ 1 \in Pool
      /\ \A d \in Pool : d \in Nat /\ d >= 1
  BY <1>0, OpenAssumption DEF Pool
<1>3. CASE /\ \E k \in Files : <<v, k>> \in damage
           /\ rpc' = [rpc EXCEPT ![r] = "err"]
           /\ UNCHANGED opening
  BY <1>0, <1>3, FailInv
<1>4. CASE /\ SameSnapshot(r)
           /\ opening' = [opening EXCEPT
                 ![r].pinned[c] = v,
                 ![r].expected = IF c = 1 THEN opening[r].manifest ELSE @,
                 ![r].conn = c + 1]
           /\ rpc' = [rpc EXCEPT ![r] = IF c = PoolSize THEN "open" ELSE "resolve"]
  <2> DEFINE pins == [opening[r].pinned EXCEPT ![c] = v]
             e == IF c = 1 THEN opening[r].manifest ELSE opening[r].expected
             o == [opening[r] EXCEPT !.pinned = pins, !.expected = e, !.conn = c + 1]
             p == IF c = PoolSize THEN "open" ELSE "resolve"
  <2>1. /\ pins \in [Pool -> Versions \cup {Nil}] /\ c + 1 \in 1..(PoolSize + 1)
        /\ e \in Manifest \cup {Nil}
    BY <1>0, <1>2, OpenAssumption DEF Opening
  <2>2. o \in Opening /\ opening' = [opening EXCEPT ![r] = o]
    BY <1>0, <1>4, <2>1 DEF Opening, OpenInv, OpenTypeOK
  <2>3. /\ o.conn = c + 1 /\ o.select = opening[r].select
        /\ o.strict = opening[r].strict /\ o.pinned = pins
        /\ o.expected = e
    BY <1>0 DEF Opening
  <2>4. opening'[r] = o /\ rpc'[r] = p /\ rpc' = [rpc EXCEPT ![r] = p]
    BY <1>4, <2>2 DEF OpenInv, OpenTypeOK
  <2>5. pins[1] = v /\ e = versions[v].manifest
    BY <1>0, <1>2, <1>4 DEF SameSnapshot, ReaderInv, Joined, Opening
  <2>6. \A d \in Pool : d < c + 1 => pins[d] = v
    <3> SUFFICES ASSUME NEW d \in Pool, d < c + 1, d # c PROVE opening[r].pinned[d] = v
      BY <1>0 DEF Opening
    <3>1. d < c /\ c > 1
      BY <1>2
    <3> QED
      BY <1>0, <1>4, <3>1 DEF SameSnapshot, ReaderInv, Joined
  <2>7. \/ p = "open" /\ c = PoolSize
        \/ p = "resolve" /\ c < PoolSize
    BY <1>2, OpenAssumption
  <2>8. p = "resolve" => c + 1 \in Pool
    BY <1>2, <2>7, OpenAssumption DEF Pool
  <2> HIDE DEF o, p, pins, e
  <2>9. Resolved(r)' /\ FailedForCause(r)'
    BY <2>3, <2>4, <2>7, <2>8 DEF Resolved, FailedForCause
  <2>10. Joined(r)'
    <3>1. /\ v \in Versions /\ versions'[v] # Nil /\ e = versions'[v].manifest
          /\ (o.select = Nil => ReadFresh(r, v)') /\ (o.strict => CleanBelow(r, v, FileCount + 1)')
      BY <1>0, <1>1, <2>3, <2>5
    <3>2. /\ p = "open" => o.conn = PoolSize + 1
          /\ o.pinned[1] = v
          /\ \A d \in Pool : d < o.conn => o.pinned[d] = o.pinned[1]
      BY <2>3, <2>5, <2>6, <2>7
    <3> QED
      BY <2>3, <2>4, <3>1, <3>2 DEF Joined
  <2> QED
    BY <1>0, <1>1, <2>2, <2>4, <2>7, <2>9, <2>10, OwnOpenSuffices DEF ReaderInv
<1>5. CASE ~SameSnapshot(r) /\ rpc' = [rpc EXCEPT ![r] = "err"] /\ UNCHANGED opening
  <2>1. c > 1 /\ v # opening[r].pinned[1]
    BY <1>0, <1>2, <1>5 DEF SameSnapshot, ReaderInv, Joined
  <2> QED
    BY <1>0, <1>5, <2>1, FailInv
<1> QED
  BY <1>3, <1>4, <1>5 DEF JoinPool

\* Every step of the composition keeps the inductive invariant.
LEMMA OpenStepInv ==
    ASSUME StoreInv, OpenInv, [OpenNext]_allVars
    PROVE  OpenInv'
<1>1. CASE Next /\ UNCHANGED readerVars
  BY <1>1, WriterKeepsOpens
<1>2. CASE UNCHANGED allVars
  BY <1>2, WriterKeepsOpens DEF allVars
<1>3. CASE Damage
  BY <1>3, DamageKeepsOpens
<1>4. ASSUME NEW r \in Openers, ReaderStep(r), UNCHANGED vars PROVE OpenInv'
  BY <1>4, BeginOpenInv, ResolveVersionInv, ReadManifestInv, VerifyFileInv, JoinPoolInv
  DEF ReaderStep
<1> QED
  BY <1>1, <1>2, <1>3, <1>4 DEF OpenNext

\* The inductive invariant of DuckDbProvider::open holds for any number of readers
\* and writers, any pool size and any damage.
THEOREM OpenInvariant == OpenSpec => [](StoreInv /\ OpenInv)
<1>1. StoreInv /\ OpenInv /\ [OpenNext]_allVars => OpenInv'
  BY OpenStepInv
<1> QED
  BY <1>1, OpenInitInv, StoreInvThroughout, PTL DEF OpenSpec

\* The connections of an open provider read one directory, and its files are the
\* log of the manifest the first connection read, unless damaged from outside.
THEOREM PoolNeverMixesSnapshots == OpenSpec => []PoolPinned
<1>1. StoreInv /\ OpenInv => PoolPinned
  <2> SUFFICES ASSUME StoreInv, OpenInv, NEW r \in Openers, rpc[r] = "open", NEW c \in Pool
               PROVE  /\ opening[r].pinned[c] = opening[r].pinned[1]
                      /\ versions[opening[r].pinned[c]] # Nil
                      /\ \A k \in Files :
                            \/ FileBytes(opening[r].pinned[c], k) = opening[r].expected.sha256[k]
                            \/ <<opening[r].pinned[c], k>> \in damage
    BY DEF PoolPinned
  <2>1. opening[r].conn = PoolSize + 1 /\ opening[r].conn > 1 /\ c < opening[r].conn
    BY OpenAssumption DEF OpenInv, ReaderInv, Joined, Pool
  <2>2. /\ opening[r].pinned[c] = opening[r].pinned[1] /\ opening[r].pinned[1] \in Versions
        /\ versions[opening[r].pinned[1]] # Nil
        /\ opening[r].expected = versions[opening[r].pinned[1]].manifest
    BY <2>1 DEF OpenInv, ReaderInv, Joined
  <2> QED
    BY <2>2, PublishedManifest DEF FileBytes
<1> QED
  BY <1>1, OpenInvariant, PTL

\* The strict policy opens no version of which a file was damaged before.
THEOREM StrictPolicySound == OpenSpec => []StrictRefusesDamage
<1>1. StoreInv /\ OpenInv => StrictRefusesDamage
  <2> SUFFICES ASSUME OpenInv, NEW r \in Openers, rpc[r] = "open", opening[r].strict,
                      NEW k \in Files
               PROVE  <<opening[r].pinned[1], k>> \notin seen[r].damage
    BY DEF StrictRefusesDamage
  <2>1. opening[r].conn > 1
    BY OpenAssumption DEF OpenInv, ReaderInv, Joined
  <2>2. CleanBelow(r, opening[r].pinned[1], FileCount + 1)
    BY <2>1 DEF OpenInv, ReaderInv, Joined
  <2> QED
    BY <2>2, StoreAssumption DEF CleanBelow, Files
<1> QED
  BY <1>1, OpenInvariant, PTL

\* Opening CURRENT never pins a version that CURRENT had left when the open began.
THEOREM OpenedVersionFresh == OpenSpec => []OpenIsFresh
<1>1. StoreInv /\ OpenInv => OpenIsFresh
  <2> SUFFICES ASSUME OpenInv, NEW r \in Openers, rpc[r] = "open", opening[r].select = Nil
               PROVE  opening[r].pinned[1] \notin seen[r].retired
    BY DEF OpenIsFresh
  <2>1. opening[r].conn > 1
    BY OpenAssumption DEF OpenInv, ReaderInv, Joined
  <2> QED
    BY <2>1 DEF OpenInv, ReaderInv, Joined, ReadFresh
<1> QED
  BY <1>1, OpenInvariant, PTL

\* Opening CURRENT fails only if there was nothing to open, CURRENT moved on after
\* the first connection joined, or a file is damaged.
THEOREM OpenFailsForCause == OpenSpec => []OpenFailsOnlyOnMove
<1>1. StoreInv /\ OpenInv => OpenFailsOnlyOnMove
  BY DEF OpenInv, ReaderInv, FailedForCause, OpenFailsOnlyOnMove
<1> QED
  BY <1>1, OpenInvariant, PTL
=============================================================================
