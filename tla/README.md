# TLA+ models of ocpm-engine

ocpm-engine answers object-centric process-mining questions (executions,
directly-follows graphs, variants, conformance, predictions, bottlenecks) over
logs held in memory, in PostgreSQL or in immutable Parquet snapshots read
through DuckDB. This directory holds TLA+ models of the parts of it that are
hard to test, the TLC configurations that check them, and TLAPS proofs.
`PROJECT.json` maps every definition to the source lines it models.

Check a run with `tlc -config SnapshotStore.cfg MCSnapshotStore`, a proof with
`tlapm SnapshotStoreProofs.tla`.

## Inventory

| Component | Source | State | Operations | What is hard |
|---|---|---|---|---|
| Snapshot writer | `ocpm-duckdb/src/writer.rs` | snapshot root on disk: `versions/`, staging directories, `CURRENT`, pointer files; `STAGING_ID` | `write_canonical_snapshot` | threads and processes racing for a name, I/O errors and crashes between any two file-system calls, pid reuse |
| Snapshot resolution | `ocpm-duckdb/src/snapshot.rs` | none of its own, reads the root | `resolve_snapshot`, `validate_canonical_manifest`, views | reads at different times while writers act; damaged files |
| DuckDB provider | `ocpm-duckdb/src/provider.rs` | connection pool, `next_connection`, summary cache, canonical fallback | `open`, `open_isolated`, `with_connection`, `with_connection_context`, `exact_local`, `summarize`, scans | lock order, cancellation and timeout racing completion, watcher threads, panics and poisoned locks, cache accounting |
| Execution context | `ocpm-provider/src/lib.rs` | cancellation flag, deadline | `cancel`, `check` | arrives at any moment |
| Provider contract | `ocpm-provider/src/lib.rs` | none | `resolve_population` and the trait's default methods | rewriting a view before and after using it |
| Local provider | `ocpm-local/src/lib.rs` | canonical log and its indexes | executions (leading, connected), constraints, snapshot, profile | union-find, temporal joins, filters that interact |
| PostgreSQL adapter | `ocpm-postgres/src/lib.rs` | prepared statements | capability probe, row streams, factorised batches, binding capsules | folding an ordered stream, choosing a strategy |
| Core | `ocpm-core/src/*.rs` | values | event batches and summaries, binding capsules, frequency kernels, canonical order | overflow, encoded input, equal results on different paths |
| Engine facade | `ocpm-engine/src/lib.rs` | a provider handle | `append`, delegation, import and export | lost updates, monotonic watermark, id assignment |
| Discovery, conformance | `ocpm-discovery`, `ocpm-conformance` | a model artifact with its hash, kept by the caller | `discover`, `check` | fixpoints with a bound, recursive cuts of traces, a search with outdated heap entries, artifacts changed between the calls |
| Prediction | `ocpm-prediction` | an artifact of context statistics | `fit`, `predict`, `evaluate_temporal_holdout` | backoff through contexts, no look into the future |
| Enhancement | `ocpm-enhancement` | none | `enhance` | lifecycles that overlap or are incomplete |
| Bottlenecks | `ocpm-bottleneck` | none | `analyze`, `analyze_with_context` | interval arithmetic at equal times, causes that overlap, a context stopped between phases |
| Graph network | `ocpm-gnn` | weights | train, score | floating point |
| Import and export | `ocpm-io` | none | JSON, CSV, XES, OCEL | id assignment, round trips |
| Python | `ocpm-python`, `src/ocpm_engine` | handles | planner, facade | choosing what to push down |

How they interact: a provider is opened on a snapshot root that writers in other
threads and processes may be changing; the engine and its analyses call the
provider from many threads; requests may carry an execution context that some
other thread cancels; every request uses one pooled DuckDB connection, directly
or to load a whole log into a cached local provider.

What makes each part correct:

- writer: whole, immutable versions; `CURRENT` only moves forward; success means
  published; no litter except after a crash or a failed removal;
- open: one version per pool, no version older than the call, damage refused
  under the strict policy, no failure caused by a publication in progress;
- pool: an interrupt reaches the request it is meant for, a stopped request
  returns and never with a success, a panic does not disable the pool, no
  deadlock;
- summary cache: exact and bounded byte account, every entry evictable, LRU;
- event summaries: the same exact summary whichever way a log is read, an error
  rather than a wrong total, and no error without a cause;
- append: nothing lost, ids never reused, a watermark that does not go back;
- executions: the connected ones are the components of the graph, whatever order
  the joins come in, and the recursion that finds them stays shallow; a view can be
  applied before or after;
- scans: every fold of the row stream, and the aggregation inside DuckDB, give what
  the local provider would, and nothing of one object leaks into the next;
- populations: the resolved view describes the selected executions and no others,
  and an empty selection never turns into "any object";
- binding capsules: a capsule decodes to the rows it was made from, or to an error;
- bottlenecks: starts and completions are paired in order, every moment of a wait has
  one cause, and queues, busy times and overtakings are what counting would give;
- discovery and conformance: a model fits the log it came from, its places are all the
  maximal ones, an alignment is the cheapest over all paths of the graph;
- prediction: an answer comes from the occurrences of the longest known context, and a
  holdout keeps executions whole and learns from the earlier ones;
- enhancement: the measures of one pass account for every event and every moment.

## Modules

**`SnapshotRegistry`** is the abstract specification: versions appear whole and
never change, and `CURRENT` moves to a published version it has not named.

**`SnapshotStore`** is the writer, one action per file-system call. `versions`,
`staging`, `pointerTemp` and `pointer` are the tree; `stagingId` is
`STAGING_ID`; `wpc` and `job` are a thread's position and local variables. `Begin`
is the call with a valid name and log, `CheckExists` the test for `final_root`
and the first `fetch_add`, `MakeStaging` the `create_dir_all`, `WriteFile` a
round of the COPY loop with its hash, `WriteManifest` the last file, `Publish`
the first rename and the second `fetch_add`, `WritePointer` and `SwapPointer` the
pointer, `IoError` any `?`, `Cleanup` the removal after an error (which may fail
unseen), `Crash` the death of a process, which comes back with the same pid and
`STAGING_ID` at 1. A log stands for the bytes of its five files and for their
SHA-256. `retired` and `orphans` are history variables. Calls with an invalid
version or log return before they touch anything and are left out. Processes
have distinct pids.

**`ProviderOpen`** extends `SnapshotStore` with readers. Each connection of a
pool is opened by `ResolveVersion` (fixed version or `CURRENT`), `ReadManifest`,
`VerifyFile` per file under the strict policy, and `JoinPool`, which compares it
with the first connection. `open` and `open_isolated` differ in the catalog and
the spill directory only, so one action stands for both. `Damage` overwrites a
file of a published version from outside. S3 roots, the root selection and the
other two layouts are left out.

**`ConnectionPool`** models the requests that use an open provider:
`with_connection` (`Call`, `Lock`, `ReleasePlain`), `with_connection_context`
(`Enter`, `TryLock`, `RetryScan`, `ReleaseContext`, `FinishContext`) with its
watcher thread (`WatcherPoll`, `WatcherTest`, `WatcherFire`), and `exact_local`
(`EnterFallback`, `BuildLocal`). `Cancel` and `Expire` come from outside at any
time. DuckDB is external: a statement starts (which clears the interrupt flag),
completes, fails, or stops on the flag. When a call returns, its context and
local variables are reset, since nothing reads them again.

**`SummaryCache`** models `get` and `insert` as operators on the cache and
`summarize` as `Lookup`, `ComputeFails` and `Store`, with the lock released in
between. Summaries are abstracted to the bytes they take. The eviction loop is a
recursive function on the cache (`EvictFor`), its `retain` the operator `Retain`.

**`EventSummary`** models the summaries of event-log windows. `AddCases` is the
arithmetic of `EventSummaryBuilder`, used by `PushBatch` and `PushCase`; `CountsFit`
is the outcome of all its checked additions; `Decode` is `EventBatch::decode`
with numbers of two bytes, which is enough for a header that reads the same in
both byte orders. `Choose` picks the strategy, `DeliverBatch` and `FinishBatches`
are the factorized path, `Fetch`, `TakeRow` and `CloseWindow` the two row
readers: the Rust adapter opens a stream per window, the Python fallback reads
one stream and looks a row ahead (`pending`). The server is external: it sends
each row of the windows once, in any order, cut into any batches, possibly with
wrong dimensions or window ordinals, and may break off. `Reference` counts the
same things from the cases one by one. Mean durations are kept as their two
totals; the division in `finish` and the Python float seconds are left out.

**`CanonicalLog`** is the data model as operators: `Valid` is
`CanonicalLog::validate`, `Snapshot` what `LocalProvider::snapshot` keeps of a
log for a view, `Extended` and `Accepts` the log that `Engine::append` builds and
the conditions under which it returns it. Tables are sets, because a valid log
repeats no row and `sort_canonical` fixes the order; `NoRepeats` states for a
batch what `validate` would find in rows that a set merges. A timestamp is an
instant, except the watermark, whose derived order also compares the source text.
Values are opaque but for being finite, and the status is the one attribute of an
event, so the view's `event_attributes` filter is left out; so are its duration
filters, which `snapshot` does not read.

**`AppendLog`** makes engines: `FromLog` from a log, `AppendTo` by `append`,
`Export` by writing a view as canonical JSON and reading it back. Engines are
immutable and may be used again, so `engines` is a tree, each one with its
`parent` and `origin`. Logs to start from are `FirstLogs`, views to write `ExportViews`.

**`UnionFind`** is the disjoint-set forest of the local provider. `root` is
recursive and rewrites parents as its frames return, so `stack` holds its frames
and each call (`Descend`), the base case (`AtRoot`) and each return (`Return`) is
a step; `LeftRoot` and `Link` are the rest of `join`, `Found` the end of a lookup
from outside. `rank` saturates at `MaxRank`. The history variable `class` is the
partition that the joins so far describe.

**`Executions`** holds, as operators, what an execution is and which ones
`leading_executions` of the local provider returns. The sorts of the code are
`Ranked` of **`Sorting`**: the element with k smaller ones comes at position k + 1.

**`LocalExecutions`** composes `UnionFind` and `Executions`. A behaviour is one
request on one valid log: `AnswerLeading` is `leading_executions`, `NextJoin`,
`RunForest`, `StartGrouping`, `NextRoot`, `GroupObject` and `AnswerConnected` are
`connected_executions` with every step of its forest, `AnswerPopulation` is
`resolve_population`. Objects are the forest's elements; the code numbers them
with indexes. `Joins` lists the calls of `join` in the order of the loops. An execution is its objects, its events in canonical order and its
event-object pairs; the set of executions replaces the list, whose order is left
out. The explicit constraints of a query are left out.

**`ExecutionScan`** models how the DuckDB provider answers the requests about
single objects. `Selection` is the set of rows that a generated statement selects
from a snapshot, in either layout; `InOrder` its ORDER BY. `PathOf` chooses the way:
`ScanRow` and `CloseScan` are `scan_executions`, `ProjectRow` and `CloseProject`
`summarize_projected`, `PairRow` and `ClosePairs`
`scan_projected_bottleneck_observations`, one row a step, with the variables the
code keeps between rows; `Aggregate` is the one statement of
`summarize_aggregated`, whose window functions `Aggregated` spells out; `RowFails`
is a time that the policy cannot read. `Clock` gives the wall-clock time of an
instant, so that folds and gaps of a time zone are in the model. `Fallback` is what
the engine computes without a provider's summary. `Streamed` is what an execution is for
this layout: the local provider's (`Leading`, on the rows that `load_log` reads), where the
rows of one event that follow each other are one event (`Merged`). DuckDB is external: rows are
distinct and come in the order asked for. Mean durations are left out (the
aggregated statement divides inside DuckDB), and so is the order of the list of
executions.

**`BindingCapsule`** models `BindingCapsule::decode`, one action per part of the
bytes (`DecodeHeader`, `CheckColumns`, `DecodeIdColumn`, `DecodeLabels`,
`DecodeViolations`, `DecodeValues`, `DecodeGroups`, `DecodeSizes`, `DecodeEntries`,
`DecodeEnd`), and then the two iterators that may be used side by side: `NextRow` and
`NextExpandedRow` for rows, `NextGroup` for groups. `capsule` is what arrived, `rest`
what the cursor has left, `reserved` the largest vector asked for. A byte holds
`PayloadBits` and a continuation bit and numbers have `Width` bits, so that every
overflow of a varint, of a zig-zag delta and of a product of sizes is within reach. A
label is a sequence of bytes, valid text unless one of `InvalidText` is in it.

**`Intervals`** and **`BottleneckKernels`** hold the algorithms of the bottleneck
analysis as operators: merged intervals with prefix sums, the two Fenwick trees and the
sweep, then what each phase computes with them. They keep the code's way of computing
(binary searches, tree nodes, clipping) because that is what the properties question.
Times are integers, means are totals, quantiles are scaled by their denominator. The
p-values come from floating-point distributions and are arguments: any of `PValues`, but
1 where the code says so. The burstiness, a quotient of roots, is left out.

**`BottleneckAnalysis`** is one call: `Validate`, `Observe` (the provider, twice with a
comparison view), the nine phases and `Finish`, each followed by a look at the context
(`Advance`) that `StopContext` may stop at any moment.

**`Discovery`** has `discover` as operators: both directly-follows graphs, the alpha
algorithm with its rounds of joined candidates, object-centric nets, the process-tree
cuts and the declarative constraints. A process tree in which `trace[0]` of an empty trace
would be read contains the node `Panic`.

**`Conformance`** has the methods of `check` the same way, and the moves of the
alignment search. **`ModelLifecycle`** composes the two: `Discover`, `Keep` (the caller
keeps the artifact, edits and seals it again, or damages it), `Check`, and for alignments
`Align`, `PopStale`, `Pop` and `SearchFails`, one popped heap entry a step. A hash is the
value it covers.

**`Prediction`** models `Fit`, `KeepArtifact`, `Predict` with its backoff and its refit
when no artifact is given, `PredictFails`, and `Evaluate`, the temporal holdout. A
statistic is the list of its samples. The fraction to hold out is a quotient of integers;
its product with a number of executions, of floats in the code, may fall just short of a
whole number (`Splits`).

**`Enhancement`** models `enhance`: `Measure` for the kinds that need one view,
`AskComparison` and `MeasureDrift` for the two that need another, `RejectVersion` and
`ProviderFails` for the errors. A measure is the list of its spans; the logarithms of the
divergence are left out and its shares kept.

**`SnapshotStoreProofs`** (with those about `ProviderOpen`), **`ConnectionPoolProofs`**,
**`AppendLogProofs`**, **`LocalExecutionsProofs`** (with those about `UnionFind`),
**`ProviderProofs`** (`ExecutionScan` and `SummaryCache`, what callers share of the DuckDB
provider), **`EventSummaryProofs`** and **`AnalysisProofs`** (`Prediction` and
`BottleneckAnalysis`) hold the theorems, and
**`SetInduction`** the facts about recursive functions, sums, sorted lists and extremes that
several of them need. `MC*` modules give the constants values. `MCEngine`, `MCHost` and `MCAnalyses` each put
several components that share no state side by side: the variable `which` says which one
a behaviour runs, and each component's own `MC` module holds its inputs. That is why
these components call their initial condition `ProviderFrom(inputs)`,
`ScanFrom(inputs)` and so on. Definitions named after another one and commented "Mutation" are that
definition with a plausible bug; they are used only to see that the properties
notice it.

## Runs

| Run | Shows |
|---|---|
| `snapshot_store` | the writer's invariants and action properties, and that it implements `SnapshotRegistry` |
| `snapshot_atomic` | *violation*: "publishes it atomically" does not hold when a call fails between its two renames |
| `connection_pool` | safety of the pool with every kind of request |
| `connection_pool_live` | a stopped request returns, when statements end by themselves |
| `connection_pool_lost_interrupt` | *violation*: it need not return when only an interrupt would end its statement |
| `engine` | append: whatever is imported, appended and exported, snapshots stay valid, appends lose nothing, relation ids stay apart and the watermark stays monotonic; local executions: roots of the forest decide membership and the recursion is logarithmic, connected executions are the graph's components, an exported view has the executions of the view, a resolved population is the selected one |
| `scan_lifecycle` | *violation*: a summary of whole lifecycles through a filter differs between the providers |
| `host` | open: a pool opened among racing writers is whole, fresh and fails only for a cause; cache: exact with threads that compute the same request; event summaries: three ways to read a log give the one exact summary or an error, and an error has a cause; capsules: every capsule decodes to its rows, whatever arrives |
| `analyses` | scans: every way through the row stream gives the executions, summaries and observations that the view describes; bottlenecks, discovery and conformance, prediction and enhancement against their declarative definitions |
| `discovery_panic` | *violation*: discovering a process tree panics on a valid log |
| `alignment_cost` | *violation*: an alignment has not the documented unit cost of log and model moves |
| `pooling_time` | *violation*: pooling is not measured from the first arrival of an event's objects |

Properties that hold in several parts are one name: `CacheConsistent` is the byte
account and the queue of the cache, `InterruptsOwnOperation` says whose connection and
whose statement an interrupt reaches, `CapsuleExact`, `MeasurementsExact`,
`DiscoveryFaithful` and `PredictionSound` are conjunctions of the definitions above them.

Bounds. `SnapshotStore`: three threads in two processes give races within and
across processes; two versions and two logs tell "mine" from "theirs"; two files
give a first and a last one; three calls let one version be published, left and
raced for; one crash reuses one pid, and `MaxId` 6 is never reached with three
calls. `ProviderOpen`: two writers publish both versions while a pool of two, the
smallest that can disagree, is opened once; each open starts afresh and leaves nothing
behind, so that a second one would meet only what a later first one meets. `ConnectionPool`: two requests,
because every property relates a request to at most one other holder of a
connection; pool 2 for safety and pool 1 for liveness, where one request has to
wait; one statement per operation, and an operation without any.
`SummaryCache`: sizes 1, 2, 3 and 7 in a cache of 5 make entries that fit
exactly, evict several others, or never fit. `EventSummary`: two windows with up
to two cases each and five traces give shared and different paths, repeated
activities, a case id that occurs in both windows, batches of one and two cases;
the largest count (6), duration (4), ordinal (4) and a byte of three values put
some logs on each side of every limit. `AppendLog`: an empty, a full and a
broken log, eleven batches (accepted or refused for each reason append has) and
15 views over every filter; four engines are an import, an export and two
appends, or two branches; `MaxRelationId` 12 is reached and passed. `LocalExecutions`:
four objects of two types and three events, two of them at the same instant, with
every set of event-object pairs and some object relations (1536 logs), eight views
and 15 population selectors; four objects are the fewest that make two components
of two, a rank of 2 and a path of three frames; `MaxRank` is the 255 of the code, which
no forest in a computer's memory reaches. `ExecutionScan`: three objects of two types and three events with every set
of relations of two of them, or four events of the entity-link layout at, between and
after a fold and a gap of the clock, some repeated, divided between two objects in every way, in adjacent rows or with a row of
another event between; 40 views (eight filters, five windows) and every kind of request. In
this run entity-link times are whole microseconds (see Findings). `BindingCapsule`: a byte of
two payload bits and numbers of five make varints of up to three bytes, the last one
partly used; every schema with up to four rows, all groups of one or two entries, all
byte strings of up to four bytes after a header, and every byte of two larger capsules
changed or cut off. `BottleneckAnalysis`: three jobs on one resource with nine ways to be
ready, start and complete within five instants (waits that nest, touch, coincide or
overtake), chains of four with `MaxDepth` 3, every lifecycle of four events of which two
are at one instant, and pairs of objects compared with a baseline under three p-values.
`ModelLifecycle`: all pairs of traces of up to three events over three activities, triples
with longer ones, every trace aligned with sixteen graphs; `MaxAlphaCandidates` 6 and
`MaxCutDepth` 2 (65536 and 128 in the code) are reached and passed. `Prediction`: three
executions over six paths, both encodings, orders 1 and 2, two split points, and 21 equal
executions, the fewest with a context that has the support 20 of the spec and a sample to spare. `Enhancement`:
four events with every lifecycle and activity, two sets of times and of objects, and all
pairs of executions of up to three events. These three are also bounded by what a
property compares: a pair of events, of executions or of contexts.

The stores, opens and engines stop at their bounds, and a summary or a
provider's request ends when it returns, so deadlock is not checked there, nor in
`host` and `analyses`, where most parts are single calls; the pool runs for ever.

Fairness. Only `StoppedReturns` needs it: every thread that can take a step of
its own keeps running (`WF` on `RequestStep` and `Watcher`), which an operating
system's scheduler provides. Acquiring a lock is not fair, since Rust mutexes
promise nothing; the context path needs no such promise because it polls. In
`FairSpec` statements also end by themselves; `LongStatementsSpec` leaves that
out.

## Findings

- `snapshot_atomic`: after the version directory is renamed, an error or a crash
  before the rename of `CURRENT` leaves the version visible to readers that
  select it by name, never current, and impossible to publish again. The spec
  (`docs/duckdb-parquet-provider-spec.md:689-691`) says it is published
  atomically.
- `connection_pool_lost_interrupt`: the watcher interrupts once. A cancellation
  noticed before the statement starts, or between two statements, is used up
  before there is anything to interrupt, and the statement then runs to its own
  end. The spec (`docs/duckdb-parquet-provider-spec.md:648-650`) says such
  queries are interrupted.
- `scan_lifecycle`: a summary of complete lifecycles with an event filter. The
  engine compares the window with the filtered events, the DuckDB provider with all
  events of the object. The spec (line 826) wants equal results across providers.

- `discovery_panic`: `process_tree_cut` strips what all traces begin or end with and keeps
  a trace that is used up as an empty one; beside traces that still differ, its first
  activity is indexed and the code panics (`ocpm-discovery:375`). Traces `a` and `aab` are
  enough. The release profile aborts on a panic, and the spec
  (`docs/ocpm-engine-1.0.0-spec.md:411`) says that panics may not cross the FFI.
  `DiscoveryFaithful` states that nothing else makes it panic.

- `alignment_cost`: the spec (`docs/ocpm-engine-1.0.0-spec.md:675`) gives an alignment
  "unit log/model cost, zero synchronous cost". `align_dfg` also takes an event together
  with another activity for 1 (`ocpm-conformance:372`, and `:333` at the start), enters the
  graph for free (`:329`) and has no log move before its first activity. A trace `c` costs 1
  on the graph of `b` where a log and a model move cost 2; a cost may also be one too high.
  `AlignmentOptimal` asks for the documented cost where these moves make no difference, and
  bounds the difference elsewhere.
- `pooling_time`: the spec (lines 689-690) measures pooling from the *first* arrival of an
  event's objects, `performance` from the last one (`ocpm-enhancement:214`).

Other differences between `docs/ocpm-engine-1.0.0-spec.md` and the analyses. The modules have
what the code does; the properties of `analyses` leave these cases out or state what both say.

- Performance (lines 686-691). The documented pooling is what `performance` reports as
  lagging, the documented lagging (focal object against last arrival) is not measured, and
  flow is a value for each object of each event instead of the span of an execution.
  Sojourn is measured from the previous completion, which stands for the enablement.
  `PerformanceAddsUp` speaks of service, waiting, sojourn and synchronization only.
- Alpha (line 670) is to work on one flattened object type and with the classic relations.
  `discover_alpha` takes all executions it is given, and it keeps an activity that follows
  itself as a candidate. `AlphaPlacesMaximal` is about Petri nets of logs of one type in
  which no activity follows itself.
- Object-centric nets (line 672) are to merge an inductive net per type. `discover` runs
  Alpha once over the executions of all types and adds typed arcs. No property says
  which places such a net has.
- Declarative constraints (line 673) are to come from twelve templates with a support of 1.0
  unless one is given; `discover_declare` finds existence and response, from 0.8 on.
  The properties speak of the constraints that were found.
- Prediction (lines 715-720) is to use counts of order 2 smoothed with alpha 1, to back off
  to the activity, the object type and all executions, to use a level of remaining time from
  support 20 on, and to learn outcome and risk by logistic regression. `fit` takes raw counts of
  contexts up to a chosen order, in one of two encodings, takes the longest known context
  whatever its support, and answers outcome and risk from the same counts. `PredictionFromContext` therefore speaks of next activities, whose ranks
  within a context smoothing does not change, and of remaining times with a support of
  20; not of shares, of outcomes and risks, nor of what is said without a context.
- The spec splits executions by their first events, by default 70/15/15 (lines 709-712);
  `evaluate_temporal_holdout` splits in two by their completion, at a fraction the caller gives.
  `HoldoutIsLater` asks for later tests where both orders agree. A long execution that begins
  first and ends last is tested on, not learnt from.
- `performance` refuses a log as `InvalidData` if an activity starts before an earlier
  completion and completes after it (`ocpm-enhancement:244`), so logs whose activities
  overlap are not measured. `MeasuresAddUp` states that only such logs are refused.
- The holdout is split at the floor of a product of floats (`ocpm-prediction:362`): a
  fraction of 0.9 of 10 executions leaves 0.999... of them for training, hence none, and
  is refused. The model splits exactly.

Three smaller differences came up in `ExecutionScan` and bound what its properties
say: `summarize_projected` compares durations made of truncated microseconds with
limits in nanoseconds (`provider.rs:668`); `event_object_ids` of a local execution has
events outside the view and that of a DuckDB execution has not (`ocpm-local:181`,
`provider.rs:444`), so `ScanFindsExecutions` compares objects and events only; and an
event that two groups list is twice in an execution if another event's row lies
between (`provider.rs:439`; the test at `provider.rs:2541` expects it), where the local
provider refuses such a log. `Merged` says so in the properties.

## Proofs

`SnapshotStoreProofs` proves, for every set of writers, processes, versions and
logs, every number of files and every bound, that `SnapshotStore` satisfies
`TypeOK`, `VersionsIntact`, `OkMeansPublished`, `VersionsImmutable` and
`NoPointerResurrection`, and that it implements `SnapshotRegistry`. The
assumptions are `StoreAssumption` (sizes are naturals, every thread has a
process) and `NoneAssumption` (the absent value is none of the others).

None of these is inductive alone. `VersionsIntact` needs to know that what is
renamed is complete (`StagingFilled`), which needs that no two running calls
share a staging name (`NamesDistinct`), which needs that ids already drawn lie
below `STAGING_ID` (`JobsSet`); a crash resets the counter, but then the process
has no running call. `NoPointerResurrection` needs that between the two renames
a version has one call that will make it current and has never been current
(`PublishedOnce`), which needs that everything `CURRENT` ever named is published
(`RetiredPublished`), since then the rename that publishes a version proves it
new. `StoreInv` is the conjunction; one lemma per action shows that the action
preserves it, with a step per conjunct. The action properties and the
refinement follow from it by looking at the two actions a reader can see,
`Publish` and `SwapPointer`.

`AppendLogProofs` proves, for any logs, batches, views and number of engines,
`SnapshotNeverFails`, `AppendKeepsEverything`, `NewRelationIdsFresh` and
`WatermarkMonotonic`. It assumes `RelationIdAssumption` (the largest id is a
natural) and `EnginesAssumption` (imported ids fit their width, a watermark has
integer parts). Two theorems are about single logs: `SnapshotIsValid`, since each
kept row's references are kept with it, and `DefaultSnapshotIsComplete`, which
needs a valid log, because the default view keeps a relation only if its ends
exist. The invariant `EngineInv` therefore carries `LogsWellMade`. That
`LastRelationId` is the largest id, a `CHOOSE` over a bounded set of integers, is
the lemma `LargestExists`.

`LocalExecutionsProofs` first proves, for any set of elements and any largest rank, that
`UnionFind` satisfies `TypeOK`, `RootDecides` and `RanksRise`, from
`ForestAssumption` (the largest rank is a natural, the absent element is none of
the others). The invariant `ForestInv` says that a parent is in its child's class
(`ParentsKeepClass`), that a class has one root (`OneRootPerClass`), and what a
call in progress may rely on: its frames are in the class of the element it looks
for (`FramesInClass`), what it found is still a root (`FoundIsRoot`), and so is the
left root of a `join` while the search for the right one compresses paths
(`LeftIsRoot`). These do not mention ranks: a wrong rank can make the forest slow
or deep, not wrong. `RanksRise` needs the order of the frames (`FramesRise`).

`RecursionIsShallow` is another argument, by size. `ShallowInv` says that a root of
rank r has at least 2^r members (`RanksSized`), that ranks rise strictly towards the
root (`RanksStrict`) and along the frames (`FramesStrict`), so that a call n deep is
under an element of rank n. With a saturating rank the second would fail, hence
`SizeAssumption`: there are finitely many elements, fewer than the largest rank can
count. The code's ranks are `u8`, so it holds below 2^256 objects. That two joined
components have the sum of their members, and that powers of two rise, are lemmas
about cardinalities and about `SetInduction`'s `PowerOfTwo`.

`SnapshotStoreProofs` also proves `NoStrayStaging`, from the same `StoreInv`: a staging
directory that no running call owns was left by a crash or by a failed removal, because
every other way out of a call renames the directory or removes it.

The second part of `SnapshotStoreProofs` proves `PoolPinned`, `StrictRefusesDamage`, `OpenIsFresh` and
`OpenFailsOnlyOnMove` for any readers and any size of pool beside any writers. Its
assumption is `OpenAssumption` (sizes are naturals, a pool has a connection). It extends
the writer's proofs: versions do not change and `CURRENT` does not come back, so what a
reader read stays true. `OpenInv` is stated for one reader (`ReaderInv`) and says what
each connection has resolved so far (`Resolved`), what the connections in the pool share
(`Joined`), and that a failure has a cause that no later step undoes (`FailedForCause`:
the pinned version is one that `CURRENT` has left, not merely one that it does not name
now). Every action of the writers and every other reader keeps it.

`ConnectionPoolProofs` proves `TypeOK`, `InterruptsOwnOperation`, `LockOrder`,
`ContextNeverPoisons` and `StoppedNeverSucceeds` for any pool and any set of requests,
from `PoolAssumption`. `PoolInv` adds which kind of request may be where (`KindsMatch`),
that a watcher lives only inside its request's scope and fires only when the request is
stopped (`WatcherScoped`, `StopsInside`), and that a raised interrupt flag over a running
statement was raised for the request that runs it (`SignalsMeant`), which is what the
clearing of the flag at the start of a statement is for.

The second part of `ProviderProofs` proves `CacheConsistent` and the action property
`EvictsLeastRecent` for any threads, keys, sizes and limit (`CacheAssumption`: sizes are
positive, as the length of a serialized summary is). `CacheInv` is that the account is the sum of
the entries, that the queue lists each entry once, and that it is ordered as the history
`recent`. The loop of `insert` is a recursive function, so that what it preserves is
proved by induction on the length of the queue, with the theorems of `SetInduction`. These
take the set of good numbers as a parameter, where the library's take a predicate: the
provers can instantiate the former. `SumFunctionSums` there says
that the library's sum over a finite domain adds up its values one by one, in any order.

`LocalExecutionsProofs` then proves `ComponentsExact`, `UsesForest`, `ExportKeepsExecutions`
and `PopulationFaithful` for every valid log and every request. The assumptions are
`TablesAssumption` (tables are finite, ids and times are integers, the objects of a log
are elements of the forest) and `RequestsAssumption` (a request is of one of the three
kinds, its view has the fields of a view, the absent value is no view).

- `ProviderInv` follows a connected request. `JoinsComplete`: every pair of `Joins` still
  waits, is being joined, or has its ends in one class. `JoinsSound`: a set of objects
  that no event and no relation leads out of separates nothing that was joined. At the
  end the classes are therefore the least closed sets, `Component`; together with
  `GroupsFollowRoots` (objects are grouped under the root of their class) and
  `OneRootPerClass` of the forest the answer is exact. `UsesForest` is a step-by-step
  implication, and carries `RootDecides` and `RecursionIsShallow` over to the provider
  (`ProviderForestSound`).
- `RankedLists` of `SetInduction` is the fact about sorting: for a total order on a finite
  set `Ranked` lists every element once and in order.
- `ExportExact` shows that the filtered tables contain what the filter looks at.
- `PopulationFaithful` goes kind by kind. Each execution is named by its one object, so
  that as many are counted as chosen (`ChosenExact`), and narrowing the view to these
  objects finds them again, since no filter of an object but that of ids changes
  (`NarrowedLeading`). For `contained` windows the first and the last event decide because
  events are in order of time (`WindowHoldsAll`); for case sets the emptied filter, which
  would mean "any object", is where `CasesChosen` needs its case split.

The first part of `ProviderProofs` proves `ScanFindsExecutions` and `ObservationsExact` for every valid
log, every request and every clock. It assumes

- `ScannedAssumption`: tables are finite, with integers for ids, times and sequence numbers;
  attributes of the entity-link layout, which has no time for them, are dated after
  every window (`snapshot.rs` gives them the largest timestamp);
- `AskedAssumption`: a view has the fields of a view, only summaries ask for whole
  lifecycles, and the end of a window in a time zone is an instant of its clock;
- `ClockAssumption`: of two times of day that the clock ever shows the earlier one is
  first shown first and last shown first. Putting a clock back or forward respects this;
- `AbsenceAssumption`: the absent value is none of the others.

The argument is that the fold never needs to look back. `ScanInv` says of the first k rows
of a stream (`Progress`): `current` is what the rows of its object amount to, merged, and
`out` has what each object before it adds, all of it. A row of another object is therefore the
moment at which the object before is complete (`ReachedAll`) and nothing of the new one was
seen (`ReachedNone`): the statement's order puts an object's rows side by side
(`RowsOrdered`). Within an object a row comes after all that were kept, although times were
converted since the statement sorted them (`TimesInOrder`, which is where the assumption on
the clock is needed), so that comparing its id with that of the last kept event is enough to
merge (`MergedGrows`). That the statement's filters and those after it together are
the view's is `RowInView` and `ViewHasRows`; a window is pushed into the statement only where
its limits are instants (`WindowPushed`). `PairRow` keeps only the projected last event, of
which the invariant says that its id survived the projection. `Gathered` and `Finish` put the
types of a request together.

`EventSummaryProofs` proves `SummaryExact` and `RefusedForCause` for any number of windows,
any cases and events in them, any size of an integer or of an encoded one, and a server that
delivers in any order and cut. It assumes

- `LogAssumption`: a window has finitely many cases, a case has an event, its events are in
  order of time, and its length and its timestamps can be encoded;
- `SizeAssumption`: sizes are naturals, a byte has at least two values, the absent value
  is none of the others.

The invariant `SummaryInv` says that a running call can be described by a cut (`Running`):
for each case of each window a number of first events that were read, such that

- the server, or the row that the reader has fetched, still has exactly the others (`CutAt`);
- every builder is `SummaryOf` the events before the cut, without the case that is
  buffered (`BuiltTo`);
- batches cut a case as a whole or not at all (`BatchState`); with rows the buffered case
  is its first events (`OpenTo`), windows to come are untouched, no more rows were counted
  than events read, and as long as the stream was tidy only the buffered case is in part
  read and the fetched row is its next or the first of another (`InOrder`).

The heart is `SummaryGrows`: adding to a summary the cases of one path, as `push_batch` and
`push_case` do with ten counters, is the summary of the larger set of cases. It is proved
counter by counter. The bags are counts of a function's values (`TallyUnion`), an event
or an edge counts once per case (`GrownEvents`), an activity once per case that has it
(`GrownPresence`), and the duration of an edge is the sum over all its occurrences, which
the code adds up batch by batch (`GrownDuration`). These sums rest on `SumUnion` and
`SumRenamed` of `SetInduction`. `PartFits` is the other half: every total of some of the
events is at most that of all, so an overflow on the way is an overflow of the whole, in
any order of arrival. It needs that times do not fall within a case. `DecodeHonest` and
`DecodeMisshapen` say what `Decode` makes of a batch: its timestamps or, when the length
reads the same in both byte orders, a refusal; and that no batch whose dimensions do not
fit is ever accepted.

`AnalysisProofs` proves `PredictionSound`, both parts, for any executions, parameters,
asked paths and holdouts. It goes through what the code does in every case (`CountsContext`:
an answer is made of the positions of the longest known context, whatever its support;
`TestsLast`: what is tested completes last), from which the parts that the spec shares
follow (`CountsAnswer`, `LastIsLater`). `JobsAssumption` is that values have their types, that the absent
value is no integer, and that a provider names executions apart (both functions ask for
executions of leading objects, named by an external id that a valid log has once).

The invariant `PredictionIInv` follows the artifact: what `fit` leaves is that of the
executions (`KeptFromExecutions`), and one that `predict` takes, finds usable and made for
the asked target is the artifact it would have fitted itself (`UsedFromExecutions`), for a
damaged one does not match its hash and a foreign encoding is refused. What remains is
about data, and is proved from the definitions that the actions are built from:

- `SamplesOfKey`: the samples with the key of the asked context are, one for one, the
  positions where the context occurs. Its core is `KeysMatch` (equal keys are equal
  contexts, for both encodings; a tabular key names its length by itself) and `SampleForm`.
- `BackoffLongest`: the order that backing off ends with is known, and no longer one is.
- `FiberSum`: counts of activities add up to the number of the samples they were
  counted from, so that the support is the number of positions.
- `AscendingRanks` and `AscendingCovers`: fewer than k values are below the k-th and at most
  n - k above it; with the rounding of `quantile` at most 5 percent, and half a value, are
  outside on either side.
- `ByCompletionOrders`, `Halves` and `HoldoutSound`: the order of completion is total because
  ids differ, so sorting loses nothing and every split point separates earlier from later;
  `EveryPrefixAnswered`: with sequences the empty context is known as soon as one execution
  to learn from has an event; `PositionsCounted`: the prefixes are as many as the events.

The same module proves `PairsInOrder`, the pairing of `lifecycle_instances`, for any
observations of finitely many events whose ids and times are integers and whose id names one
event (`InputsAssumption`). The invariant `BottleneckIInv` carries it to the phases: from the
pairing on they read the instances of the call's own observations. The rest is about data.
`PointsTimed`: `PointOrder` is total on an object's events, so each is there once and their
times never fall. `InstancesSound` is an induction over the events, whose hypothesis `Paired`
says of each activity after n of them (`QueueSound`) that

- its queue is ordered by start, and none in it has started later than an event to come;
- no instance of it has started after any start that still waits;
- starts waiting and instances made are as many as the starts so far, and the instances as
  many as the completions less those that found the queue empty (`Skipped`, the largest
  surplus of completions over starts at any moment);

and of all instances that none completes after an event to come (`DoneSound`). `QueueStart`,
`QueueComplete`, `QueueOther` and `QueueApart` are its steps, `CountsStep` the arithmetic. One
consequence: the test `point.timestamp < start` of the code never holds (`QueueComplete`).
`LifecycleTimely` collects the objects (`FlattenType`).

What stays with TLC, and why:

- liveness (`StoppedReturns`): the prover does not reason about fairness;
- `ModelLifecycle` with `Discovery` and `Conformance`: the cuts of a process tree are
  recursive operators, which put these modules out of the prover's reach;
- `SummaryCountsExecutions`: of its three ways one is a statement with window functions
  (`Aggregated`) whose counts would need an induction over the rows for each column;
- `BindingCapsule`, `Enhancement` and the kernels of `BottleneckAnalysis` after the pairing:
  not attempted so far. Those that use the library's folds over sequences (`FoldLeft`) would
  need an induction over data for each.

## Plan

What is left is to prove more of it, within the modules that hold theorems now.

1. `BindingCapsule`: no vector is reserved that the bytes could not fill, for capsules of
   any length.
2. `ExecutionScan`: the summaries that come through `scan_executions`, with the bounds of
   lifecycles in `ScanInv`.

## Not modelled

- The text of generated SQL, which runs inside DuckDB or PostgreSQL, and the functions
  that bind parameters and decode rows.
- The graph network: a floating-point training loop, of which only the version and hash
  of its artifact would remain; `Prediction` shows the same scheme.
- Import and export of text formats (`ocpm-io`): parsing and formatting. What an import
  yields is validated as in `CanonicalLog`.
- Query constraints, their validation, the profile of a log and the frequency kernels:
  single passes over tables or columns that keep no state between calls.
- The Python extension and planner: conversions and text; the reader of event batches is
  in `EventSummary`.
- Benchmarks and packaging.
