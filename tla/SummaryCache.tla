---------------------------- MODULE SummaryCache ----------------------------
(***************************************************************************)
(* The byte-bounded LRU of aggregate results of one DuckDbProvider         *)
(* (SummaryCache and summarize, crates/ocpm-duckdb/src/provider.rs). The   *)
(* mutex around it is held for a whole get or insert, but not while the    *)
(* summary is computed in between, so threads may compute one key twice.   *)
(* A key stands for a serialized request; the snapshot is immutable, so    *)
(* the summary, and its size, depend on the key alone.                     *)
(***************************************************************************)
EXTENDS Naturals, Sequences, FiniteSets, SequencesExt

CONSTANTS Threads,
          Keys,
          Size,         \* bytes of key plus serialized summary
          Limit         \* maximum_bytes (result_cache_bytes)

ASSUME CacheAssumption == Size \in [Keys -> Nat \ {0}] /\ Limit \in Nat

VARIABLES cache,        \* entries (bytes per cached key), lru, retained
          pc, key,      \* summarize, per thread
          recent        \* history: keys by last hit or insert, never evicted

cacheVars == <<cache, pc, key, recent>>

\* Values are left out of entries: only the bytes charged for them matter.
Monus(m, n) == IF m > n THEN m - n ELSE 0
Without(f, k) == [x \in DOMAIN f \ {k} |-> f[x]]
With(f, k, n) == [x \in DOMAIN f \cup {k} |-> IF x = k THEN n ELSE f[x]]

\* VecDeque::retain of the elements other than k.
Retain(s, k) ==
    LET kept[n \in 0 .. Len(s)] ==
            IF n = 0 THEN <<>>
            ELSE IF s[n] = k THEN kept[n - 1] ELSE Append(kept[n - 1], s[n])
    IN  kept[Len(s)]

\* A key that is used goes to the back.
Touch(s, k) == Append(Retain(s, k), k)

CacheFrom(keys) ==
    /\ cache = [entries |-> <<>>, lru |-> <<>>, retained |-> 0]
    /\ pc = [t \in Threads |-> "idle"]
    /\ key \in [Threads -> keys]
    /\ recent = <<>>

CacheInit == CacheFrom(Keys)

\* Mutation: a hit does not move the key to the back.
GetUntouched(c, k) == c

\* SummaryCache::get: a hit moves the key to the back of the lru queue.
Get(c, k) ==
    IF k \in DOMAIN c.entries THEN [c EXCEPT !.lru = Touch(@, k)] ELSE c

\* One round of insert's while loop: unless the new entry fits by now, the front
\* of the queue is popped and its entry, if there is one, is dropped.
EvictStep(c, oldest, bytes) ==
    IF c.retained + bytes <= Limit
    THEN c
    ELSE [entries |-> Without(c.entries, oldest),
          lru |-> Tail(c.lru),
          retained |-> IF oldest \in DOMAIN c.entries
                       THEN Monus(c.retained, c.entries[oldest])
                       ELSE c.retained]

\* The loop runs until the new entry fits or the queue is empty.
EvictFor(c, bytes) ==
    LET after[n \in 0 .. Len(c.lru)] ==
            IF n = 0 THEN c ELSE EvictStep(after[n - 1], c.lru[n], bytes)
    IN  after[Len(c.lru)]

\* Mutation: an entry that is replaced stays charged.
DropReplacedCharged(c, k) ==
    IF k \notin DOMAIN c.entries
    THEN c
    ELSE [c EXCEPT !.entries = Without(@, k), !.lru = Retain(@, k)]

\* An entry that is replaced is uncharged and leaves the queue first.
DropReplaced(c, k) ==
    IF k \notin DOMAIN c.entries
    THEN c
    ELSE [entries |-> Without(c.entries, k),
          lru |-> Retain(c.lru, k),
          retained |-> Monus(c.retained, c.entries[k])]

\* SummaryCache::insert.
Insert(c, k) ==
    IF Limit = 0 \/ Size[k] > Limit
    THEN c
    ELSE LET room == EvictFor(DropReplaced(c, k), Size[k])
         IN  [entries |-> With(room.entries, k, Size[k]),
              lru |-> Append(room.lru, k),
              retained |-> room.retained + Size[k]]
-----------------------------------------------------------------------------
\* summarize: look the request up under the lock; a hit returns.
Lookup(t) ==
    /\ pc[t] = "idle"
    /\ \E k \in Keys :
          /\ key' = [key EXCEPT ![t] = k]
          /\ cache' = Get(cache, k)
          /\ IF k \in DOMAIN cache.entries
             THEN recent' = Touch(recent, k) /\ UNCHANGED pc
             ELSE pc' = [pc EXCEPT ![t] = "compute"] /\ UNCHANGED recent

\* The summary is computed without the lock, and the computation may fail.
ComputeFails(t) ==
    /\ pc[t] = "compute"
    /\ pc' = [pc EXCEPT ![t] = "idle"]
    /\ UNCHANGED <<cache, key, recent>>

\* The result is stored under the lock, whoever stored it meanwhile.
Store(t) ==
    /\ pc[t] = "compute"
    /\ pc' = [pc EXCEPT ![t] = "idle"]
    /\ cache' = Insert(cache, key[t])
    /\ recent' = Touch(recent, key[t])
    /\ UNCHANGED key

CacheNext == \E t \in Threads : Lookup(t) \/ ComputeFails(t) \/ Store(t)

CacheSpec == CacheInit /\ [][CacheNext]_cacheVars
-----------------------------------------------------------------------------
TotalBytes(entries) == SumFunction(entries)

\* retained_bytes is exactly the bytes of the entries held and never exceeds
\* the limit, even after threads replaced each other's entry for one request.
BytesBounded ==
    /\ cache.retained = TotalBytes(cache.entries)
    /\ cache.retained <= Limit

\* The queue lists every cached key once and no other key, so an eviction never
\* pops a stale name and no entry becomes impossible to evict.
QueueMatchesEntries ==
    /\ ToSet(cache.lru) = DOMAIN cache.entries
    /\ IsInjective(cache.lru)

\* The account and the queue of the cache describe its entries (SummaryCache::insert).
CacheConsistent == BytesBounded /\ QueueMatchesEntries

Position(s, k) == CHOOSE i \in DOMAIN s : s[i] = k

\* An entry is evicted only after every entry used less recently has gone.
EvictsLeastRecent ==
    [][\A k \in DOMAIN cache.entries \ DOMAIN cache'.entries :
          \A other \in DOMAIN cache.entries \cap DOMAIN cache'.entries :
              Position(recent, k) < Position(recent, other)]_cacheVars

-----------------------------------------------------------------------------
\* The parts of the inductive invariant.

CacheStates == [entries : UNION {[K -> Nat] : K \in SUBSET Keys}, lru : Seq(Keys), retained : Nat]

CacheTypeOK ==
    /\ cache \in CacheStates
    /\ pc \in [Threads -> {"idle", "compute"}]
    /\ key \in [Threads -> Keys]
    /\ recent \in Seq(Keys)

\* The cache between two calls, or between two rounds of the loop in insert.
Consistent(c) ==
    /\ \A k \in DOMAIN c.entries : c.entries[k] = Size[k]
    /\ ToSet(c.lru) = DOMAIN c.entries
    /\ IsInjective(c.lru)
    /\ c.retained = TotalBytes(c.entries)

\* The elements of s are among those of r, in the same order.
OrderedAs(s, r) ==
    /\ \A i \in DOMAIN s : s[i] \in ToSet(r)
    /\ \A i, j \in DOMAIN s : i < j => Position(r, s[i]) < Position(r, s[j])

CacheInv ==
    /\ CacheTypeOK
    /\ Consistent(cache)
    /\ cache.retained <= Limit
    /\ IsInjective(recent)
    /\ OrderedAs(cache.lru, recent)
=============================================================================
