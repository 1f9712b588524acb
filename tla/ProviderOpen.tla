---------------------------- MODULE ProviderOpen ----------------------------
(***************************************************************************)
(* DuckDbProvider::open and open_isolated (crates/ocpm-duckdb/src/         *)
(* provider.rs) reading the directory that SnapshotStore's writers change. *)
(* A provider opens a pool of connections one after the other; each of     *)
(* them resolves the snapshot anew (resolve_snapshot, snapshot.rs): reads  *)
(* CURRENT, then the manifest of the version it names, then, under the     *)
(* strict policy, hashes every file. Writers may act between any two reads,*)
(* and a file of a published version may be damaged from outside, which    *)
(* is what the strict policy is for. The selection is CURRENT or a fixed   *)
(* version and the layout canonical_v1; errors that do not come from the   *)
(* directory (options, client version, S3) are left out.                   *)
(***************************************************************************)
EXTENDS SnapshotStore, FiniteSets

CONSTANTS Openers,      \* threads that open a provider
          PoolSize,     \* connection_pool_size
          MaxOpens,     \* bound on the opens explored
          MaxDamage     \* bound on the files damaged from outside

ASSUME OpenAssumption ==
    /\ PoolSize \in Nat \ {0}
    /\ MaxOpens \in Nat
    /\ MaxDamage \in Nat

Pool == 1..PoolSize

\* Snapshot selection: a fixed version, or Nil for the CURRENT pointer.
Selectable == Versions \cup {Nil}

VARIABLES rpc, opening, opens,
          damage,       \* the files <<version, k>> damaged since publication
          seen          \* history: the directory when the open began

readerVars == <<rpc, opening, opens, damage, seen>>
allVars == <<vars, readerVars>>

\* The provider under construction: its source, the connection being opened,
\* what that connection has resolved so far, and what the pool is pinned to.
NewOpening(s, strict) ==
    [select |-> s, strict |-> strict, conn |-> 1, version |-> Nil, manifest |-> Nil,
     next |-> 1, pinned |-> [c \in Pool |-> Nil], expected |-> Nil]

OpenInit ==
    /\ Init
    /\ rpc = [r \in Openers |-> "idle"]
    /\ opening = [r \in Openers |-> NewOpening(Nil, FALSE)]
    /\ opens = 0
    /\ damage = {}
    /\ seen = [r \in Openers |-> [retired |-> {}, current |-> Nil, damage |-> {}]]

\* The bytes a reader finds; damaged bytes are those of no log.
FileBytes(v, k) == IF versions[v] = Nil \/ <<v, k>> \in damage THEN Nil ELSE versions[v].file[k]

\* A provider that was opened, or could not be, is dropped before the next one.
BeginOpen(r) ==
    /\ rpc[r] \in {"idle", "open", "err"}
    /\ opens < MaxOpens
    /\ opens' = opens + 1
    /\ \E s \in Selectable, strict \in BOOLEAN :
           opening' = [opening EXCEPT ![r] = NewOpening(s, strict)]
    /\ seen' = [seen EXCEPT ![r] = [retired |-> retired, current |-> pointer,
                                         damage |-> damage]]
    /\ rpc' = [rpc EXCEPT ![r] = "resolve"]
    /\ UNCHANGED damage

\* Mutation: the pointer is cached in the process and may be out of date.
ResolveVersionCached(r) ==
    /\ rpc[r] = "resolve"
    /\ \E v \in (retired \cup {pointer}) \ {Nil} :
           opening' = [opening EXCEPT ![r].version = v]
    /\ rpc' = [rpc EXCEPT ![r] = "manifest"]
    /\ UNCHANGED <<opens, damage, seen>>

\* The version to open: the fixed one, or the content of CURRENT.
ResolveVersion(r) ==
    /\ rpc[r] = "resolve"
    /\ \/ /\ opening[r].select # Nil
          /\ opening' = [opening EXCEPT ![r].version = opening[r].select]
          /\ rpc' = [rpc EXCEPT ![r] = "manifest"]
       \/ /\ opening[r].select = Nil
          /\ pointer # Nil
          /\ opening' = [opening EXCEPT ![r].version = pointer]
          /\ rpc' = [rpc EXCEPT ![r] = "manifest"]
       \/ /\ opening[r].select = Nil
          /\ pointer = Nil
          /\ rpc' = [rpc EXCEPT ![r] = "err"]
          /\ UNCHANGED opening
    /\ UNCHANGED <<opens, damage, seen>>

\* The version directory must exist and its manifest must be for this version.
ReadManifest(r) ==
    /\ rpc[r] = "manifest"
    /\ LET v == opening[r].version
           found == versions[v] # Nil /\ versions[v].manifest # Nil
                       /\ versions[v].manifest.version = v
       IN  \/ /\ found
              /\ opening' = [opening EXCEPT ![r].manifest = versions[v].manifest,
                                            ![r].next = 1]
              /\ rpc' = [rpc EXCEPT ![r] = IF opening[r].strict THEN "verify" ELSE "join"]
           \/ /\ ~found
              /\ rpc' = [rpc EXCEPT ![r] = "err"]
              /\ UNCHANGED opening
    /\ UNCHANGED <<opens, damage, seen>>

\* Mutation: the last file of the manifest is not hashed.
VerifyFileShort(r) ==
    /\ rpc[r] = "verify"
    /\ LET o == opening[r]
       IN  \/ /\ o.next < FileCount
              /\ FileBytes(o.version, o.next) = o.manifest.sha256[o.next]
              /\ opening' = [opening EXCEPT ![r].next = o.next + 1]
              /\ UNCHANGED rpc
           \/ /\ o.next = FileCount
              /\ rpc' = [rpc EXCEPT ![r] = "join"]
              /\ UNCHANGED opening
    /\ UNCHANGED <<opens, damage, seen>>

\* Strict policy: each file's hash is compared with the manifest's.
VerifyFile(r) ==
    /\ rpc[r] = "verify"
    /\ LET o == opening[r]
           k == o.next
       IN  \/ /\ k \in Files
              /\ FileBytes(o.version, k) = o.manifest.sha256[k]
              /\ opening' = [opening EXCEPT ![r].next = k + 1]
              /\ UNCHANGED rpc
           \/ /\ k \in Files
              /\ FileBytes(o.version, k) # o.manifest.sha256[k]
              /\ rpc' = [rpc EXCEPT ![r] = "err"]
              /\ UNCHANGED opening
           \/ /\ k = FileCount + 1
              /\ rpc' = [rpc EXCEPT ![r] = "join"]
              /\ UNCHANGED opening
    /\ UNCHANGED <<opens, damage, seen>>

\* Mutation: each connection keeps whatever it resolved.
SameSnapshotUnchecked(r) == opening[r].conn \in Pool

\* A connection joins the pool only if it resolved what the first one did.
SameSnapshot(r) ==
    opening[r].conn = 1 \/ /\ opening[r].manifest = opening[r].expected
                           /\ opening[r].version = opening[r].pinned[1]

\* The rest of initialize_database, which may trip over a damaged file when the
\* views read it, and the comparison with the first connection.
JoinPool(r) ==
    /\ rpc[r] = "join"
    /\ LET o == opening[r]
       IN  \/ /\ \E k \in Files : <<o.version, k>> \in damage
              /\ rpc' = [rpc EXCEPT ![r] = "err"]
              /\ UNCHANGED opening
           \/ /\ SameSnapshot(r)
              /\ opening' = [opening EXCEPT
                    ![r].pinned[o.conn] = o.version,
                    ![r].expected = IF o.conn = 1 THEN o.manifest ELSE @,
                    ![r].conn = o.conn + 1]
              /\ rpc' = [rpc EXCEPT ![r] = IF o.conn = PoolSize THEN "open" ELSE "resolve"]
           \/ /\ ~SameSnapshot(r)
              /\ rpc' = [rpc EXCEPT ![r] = "err"]
              /\ UNCHANGED opening
    /\ UNCHANGED <<opens, damage, seen>>

ReaderStep(r) ==
    BeginOpen(r) \/ ResolveVersion(r) \/ ReadManifest(r) \/ VerifyFile(r) \/ JoinPool(r)

\* Something outside the program overwrites a file of a published version.
Damage ==
    /\ Cardinality(damage) < MaxDamage
    /\ \E v \in Versions, k \in Files :
           /\ versions[v] # Nil
           /\ damage' = damage \cup {<<v, k>>}
    /\ UNCHANGED <<vars, rpc, opening, opens, seen>>

OpenNext ==
    \/ Next /\ UNCHANGED readerVars
    \/ Damage
    \/ \E r \in Openers : ReaderStep(r) /\ UNCHANGED vars

OpenSpec == OpenInit /\ [][OpenNext]_allVars
-----------------------------------------------------------------------------
\* An open provider never mixes snapshots: at any later time every connection of
\* its pool reads one directory, whose files are the log its first manifest
\* described when the pool was opened, whatever writers have done since (only
\* damage from outside can change them).
PoolPinned ==
    \A r \in Openers : rpc[r] = "open" =>
        LET o == opening[r]
        IN  \A c \in Pool :
                /\ o.pinned[c] = o.pinned[1]
                /\ versions[o.pinned[c]] # Nil
                /\ \A k \in Files : \/ FileBytes(o.pinned[c], k) = o.expected.sha256[k]
                                    \/ <<o.pinned[c], k>> \in damage

\* The strict policy never opens a version a file of which was already damaged
\* when the open began: every connection hashes every file against the manifest.
StrictRefusesDamage ==
    \A r \in Openers :
        rpc[r] = "open" /\ opening[r].strict =>
            \A k \in Files : <<opening[r].pinned[1], k>> \notin seen[r].damage

\* Opening CURRENT never pins a version that CURRENT had already left when the
\* open began: the pointer is read afresh and never moves backwards.
OpenIsFresh ==
    \A r \in Openers :
        rpc[r] = "open" /\ opening[r].select = Nil =>
            opening[r].pinned[1] \notin seen[r].retired

\* Opening CURRENT fails only when there was nothing to open at the start, when
\* CURRENT moved after the first connection joined, or on damage: no
\* connection ever trips over a half-published version, or over a pointer that is
\* gone while a writer replaces it.
OpenFailsOnlyOnMove ==
    \A r \in Openers :
        rpc[r] = "err" /\ opening[r].select = Nil =>
            \/ seen[r].current = Nil
            \/ opening[r].conn > 1 /\ opening[r].pinned[1] # pointer
            \/ damage # {}
-----------------------------------------------------------------------------
\* The parts of the inductive invariant behind the properties above.

Opening == [select : Selectable, strict : BOOLEAN, conn : 1..(PoolSize + 1),
            version : Versions \cup {Nil}, manifest : Manifest \cup {Nil},
            next : 1..(FileCount + 1), pinned : [Pool -> Versions \cup {Nil}],
            expected : Manifest \cup {Nil}]

Damages == SUBSET (Versions \X Files)

\* Type invariant of the readers and of the history of their opens.
OpenTypeOK ==
    /\ rpc \in [Openers -> {"idle", "resolve", "manifest", "verify", "join", "open", "err"}]
    /\ opening \in [Openers -> Opening]
    /\ damage \in Damages
    /\ seen \in [Openers -> [retired : SUBSET Versions, current : Versions \cup {Nil},
                             damage : Damages]]

\* What a reader saw when its open began still is, or was, the state of the directory.
Behind(r) ==
    /\ seen[r].retired \subseteq retired
    /\ seen[r].current # Nil => pointer # Nil
    /\ seen[r].damage \subseteq damage

\* A version that was read from CURRENT is published and was not left before.
ReadFresh(r, v) == versions[v] # Nil /\ v \in retired \cup {pointer} /\ v \notin seen[r].retired

\* No file of the version below the n-th was damaged when the open began.
CleanBelow(r, v, n) == \A k \in Files : k < n => <<v, k>> \notin seen[r].damage

\* What the connection being opened has resolved so far.
Resolved(r) ==
    LET o == opening[r]
    IN  /\ rpc[r] \in {"resolve", "manifest", "verify", "join"} => o.conn \in Pool
        /\ rpc[r] \in {"manifest", "verify", "join"} =>
              /\ o.version \in Versions
              /\ o.select = Nil => ReadFresh(r, o.version)
              /\ o.select = Nil /\ o.conn > 1 /\ o.version # o.pinned[1]
                     => o.pinned[1] \in retired
        /\ rpc[r] \in {"verify", "join"} =>
              /\ versions[o.version] # Nil
              /\ o.manifest = versions[o.version].manifest
        /\ rpc[r] = "verify" => CleanBelow(r, o.version, o.next)
        /\ rpc[r] = "join" /\ o.strict => CleanBelow(r, o.version, FileCount + 1)

\* What the connections that have joined the pool are pinned to.
Joined(r) ==
    LET o == opening[r]
    IN  /\ rpc[r] = "open" => o.conn = PoolSize + 1
        /\ o.conn > 1 =>
              /\ o.pinned[1] \in Versions
              /\ versions[o.pinned[1]] # Nil
              /\ o.expected = versions[o.pinned[1]].manifest
              /\ o.select = Nil => ReadFresh(r, o.pinned[1])
              /\ o.strict => CleanBelow(r, o.pinned[1], FileCount + 1)
        /\ \A c \in Pool : c < o.conn => o.pinned[c] = o.pinned[1]

\* Why an open of CURRENT failed, in terms that later steps do not undo.
FailedForCause(r) ==
    rpc[r] = "err" /\ opening[r].select = Nil =>
        \/ seen[r].current = Nil
        \/ opening[r].conn > 1 /\ opening[r].pinned[1] \in retired
        \/ damage # {}

ReaderInv(r) == Behind(r) /\ Resolved(r) /\ Joined(r) /\ FailedForCause(r)

\* CURRENT never names a version it has left, and every open is on course.
OpenInv == OpenTypeOK /\ pointer \notin retired /\ \A r \in Openers : ReaderInv(r)
=============================================================================
