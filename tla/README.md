# Ferrite DB in TLA+

Specifications, model-checking configurations and machine-checked proofs for
Ferrite DB, an embedded vector database written in Rust. Every definition is
translated from the source; `PROJECT.json` maps each one to its lines, lists
the hazards of the code with the properties that cover them, and records where
the code and its own documents disagree.

Run a check with `tlc -config <run>.cfg <module>` and the proofs with
`tlapm <Module>Proofs.tla`.

## The system

| Part | State | Operations | Talks to | Hard part | Correct when |
|---|---|---|---|---|---|
| Delta (`write_path.rs`) | rows in insertion order, sealed chunks, Tombstones by (id, generation), set of hidden ids, generation counter | `insert`, `delete`, `update` | searched by `search`, rebuilt by `merge` | legal call sequences over chunk boundaries | generations increase, Tombstones hide rows of this lineage, a hidden row has no older visible version |
| Compaction (`compaction.rs`) | none | `evaluate_trigger`, `merge` | reads a Delta, makes another | classification by insertion order, the 20% gate, re-hiding | no id is lost, revived or duplicated |
| Lifecycle (`compaction.rs`, `concurrency.rs`) | published snapshot, last report, stop flags | `insert`, `delete`, `compact`, `search`, background job | callers' threads and jobs share one coordinator | read, build and commit are not one step | acknowledged writes stay, readers see whole lineages, jobs run and stop |
| Search admission (`admission.rs`, `search.rs`) | a counter | `try_admit`, permit drop | one gate for the process | compare-and-swap loop | counter = permits held <= capacity, Busy only when full |
| Segment storage (`storage.rs`) | `<id>.fseg.tmp`, `<id>.fseg`, a writer | `create`, `append_vectors`, `tombstone`, `commit`, `open` | no caller in the engine yet | failing writes, crashes between steps | a Segment is absent or whole |
| Index substrate (`index_substrate.rs`) | LanceDB rows and index, background-build state and error | `write`, `build`, `apply_ladder`, `remove_indexes`, `query`, `calibrate` | clones share one build state | claim, spawn and build race with appends | one background build, every build settles, the reason of a failure is there |
| Search (`search.rs`) | none | predicates, exhaustive top-k | reads a Delta snapshot | total order with ties and NaN | same answer before and after a merge, up to duplicates |
| Tables (`table.rs`) | name -> schema | create, open, drop | used by the sessions | none | names unique and valid; a row fits its Metadata Schema |
| Browser session (`ferrite-wasm`) | tables over `WritePath`, borrow counts | create, insert, delete, search, profile, export | called by the worker | a call that aborts keeps its borrows; several search paths that should agree | holds what it acknowledged, searches agree with one another |
| Worker protocol (`search.worker.ts`, `main.ts`) | session, pending requests | messages | page <-> worker | flows that interleave at each await, an await inside `engine()`, resets | every request settles once, every flow ends, a reset builds a fresh session |
| Explorer server (`explorer`) | the published dataset behind one read-write lock | ingest, status, query, bench, reindex | HTTP handlers and their threads in parallel | a lock held across an await, clients that disconnect, concurrent ingests | an answer is about the dataset that is current, every request ends |
| Corpus generator (`corpus-gen`) | five fixture files | generate, write, load, load SIFT | files read by the harness | a generator that dies half-way over an older fixture | a whole fixture loads, a partial file never does |
| Benchmark harness (`harness`) | none | load, ingest, measure, judge | reads fixtures, calls `search` | guards against bad fixtures, ties, percentile ranks | full recall of an exhaustive search, exit code follows the ceilings |

## Modules

| Module | Models |
|---|---|
| `Listing` | how the code runs through a set of numbers in order |
| `Rows` | ids, payloads, batches, write requests, what a batch or a delete does to a map from ids to payloads |
| `Delta` | one lineage: `Insert`, `Delete`, sealing, Tombstones, what a lineage promises (`Lineage`), its newest visible payloads |
| `VisibleTable` | abstract: a Table is a map from id to newest payload, and each write called takes effect exactly once before it returns |
| `Compaction` | `evaluate_trigger` and `merge` on a Delta value |
| `Lifecycle` | the calls of `Lifecycle` and its background jobs, interleaved; refines `VisibleTable` |
| `Semaphore` | abstract: an atomic, queueless semaphore |
| `Admission` | the gate's counter and the searches that hold permits; refines `Semaphore` |
| `SegmentCatalog` | abstract: a Segment is absent or whole, appears at once and never changes |
| `SegmentStore` | writer, commit, reader and a file system that can crash; refines `SegmentCatalog` |
| `SubstrateLadder` | ladder policy, inline builds and the background-build state machine over an external table |
| `WorkerSession` | the page's flows, the messages, the worker and the session it hosts |
| `Ranking` | distances with ties and NaNs, the stable sort, truncation and the oracles' insertion loop |
| `Predicates` | Metadata Schemas, Predicate Trees, their validation and evaluation, the JSON the browser session accepts |
| `Retrieval` | one Table's Delta and every way the code searches it: engine, session, oracle, profile, inspector; composes `Delta`, `Compaction`, `Ranking`, `Predicates` |
| `IndexParams` | build parameters and query knobs, and what `validate` accepts |
| `CalibrationGrid` | the grid of knobs, its costs and the choice of `calibrate`, without state |
| `Calibration` | the calibration of the substrate's knobs, query by query, while rows and index change; extends `CalibrationGrid`, `Ranking`, `Listing` |
| `DatasetRegister` | abstract: one register holds the published dataset; an answer is about its value at that moment |
| `Explorer` | the explorer's handlers, their threads, the read-write lock and disconnects; refines `DatasetRegister` |
| `Fixture` | both generators, the files they write step by step, the loads and the SIFT loader |
| `Harness` | what the benchmark does with whatever loads; extends `Fixture` |
| `MCLifecycle`, `MCWorkerSession`, `MCRetrieval`, `MCExplorer`, `MCHarness`, `MCCalibration` | the small instances |
| `CompactionProofs`, `LifecycleProofs`, `SegmentProofs`, `ExplorerProofs`, `WorkerSessionProofs` | the theorems about the modules they are named for; `CompactionProofs` also holds the lemmas about `Rows` and `Delta` |
| `RankingProofs` | `OraclesAgree` and the lemmas about listing, sorting, truncating and the oracles' insertion loop, which the next two use |
| `RetrievalProofs` | the theorems about every search path: the gate (`Admission`), `Retrieval`, `Fixture` and `Harness` |
| `SubstrateProofs` | the theorems about the substrate: `SubstrateLadder`, `IndexParams`, `CalibrationGrid` and `Calibration` |

### How state and actions correspond to the code

*Delta.* `records()` is the only way the code walks a Delta, so sealed chunks
and the active chunk are one sequence `rows` plus the number of sealed chunks,
each of exactly `TARGET_SEGMENT_ROWS` rows. A vector with its metadata is one
abstract payload, and a row that `validate_record` rejects carries `Malformed`.
Generations do not wrap: the 64-bit counter restarts at every merge.

*Lifecycle.* A write reads the snapshot and builds its replacement
(`BeginInsert`, `BeginDelete`, `BeginCompact`, `BeginBackgroundMerge`), then
commits it (`Commit`, `CommitMerge`). Building touches only the thread's own
copy, so it belongs to the reading step; the commit holds both locks, so it is
one step; nothing is held in between. A compaction stores its report in a third
step. `call` holds the arguments of the write a caller is executing, from which
`VisibleTable` knows what the commit owes: a commit that does anything else, or
a compaction that changes a visible payload, is not a step of it. The background
job tests its stop flag (`Wake`), reads one snapshot to evaluate the trigger
(`Evaluate`) and another to merge; commits and stops fall in between.
Lock poisoning and a thread that cannot be spawned leave the state unchanged.

*Admission.* `fetch_update` is its first load (`TryAdmit`), then `Swap`, `Retry`
with the value found, or `Shed`. A refused call is on its way out as soon as its last read
found a full counter, which is the linearization point of the refinement.

*SegmentStore.* A file is a header and a body of units: one per row, `Torn` for
a fragment left by a failed write, one for the bitmap. The checksum is the rows
it was computed from. `commit` is four steps: bitmap, header, `sync_all`,
rename. `Crash` drops writers, may damage bytes that were not forced, and may
undo directory entries made since the last crash. `Careful` callers drop a
writer whose append failed, append before they tombstone, and do not reuse a
committed id; the engine has no caller yet, so this is a usage condition of the
run. The types hold for every caller. With `Careful = FALSE` the same module
shows why the rest needs it: `CommittedOrAbsent` then fails by an append after a
`tombstone`, which gives the rows a fresh bitmap, and by a commit after a failed
append.

*SubstrateLadder.* Rows only grow. A build reads the rows it will cover and
later replaces the index, or fails. `try_claim` is a load (`Claim`) and a
compare-and-swap (`Swap`); the job stores its error before its state.
An open error counts as zero rows, as `open_rows` makes it. A caller with a
running job does not call: another caller stands for it.

*WorkerSession.* An async function of the page is a flow: a script of groups of
requests, where a group is posted at once and awaited as a whole. The worker
handles a message in one step, because nothing it awaits after `engine()` waits
for anything but microtasks; before a session exists, `await engine()` waits for
a WASM load (`Receive`, then `Loaded` or `LoadFails`), and the generated glue
shares no load in flight. A Table is the sequence of the write requests it
accepted, and an answer carries the sequence its request read. Dimension,
literal and predicate checks are a choice between accepting and refusing.

`profile_search` reads `std::time::Instant`. The browser target
wasm32-unknown-unknown has no clock, so the call panics, and a panic on that
target aborts the call without unwinding: its borrow of the `RefCell` and its
reference to the session stay counted (`Abort`, `handle = "borrowed"`). Calls
that borrow mutably panic from then on, and `free()`, which claims sole
ownership, throws after the handle's pointer was cleared (`handle = "freed"`).
The committed `ferrite_wasm_bg.wasm` was run in an interpreter to confirm each
of these steps: profile, insert and create abort; search and list go on; free
throws; a call on the cleared pointer throws.

*Retrieval.* A search reads one Delta value, which nothing else changes, and
changes nothing. So every search path is an operator of the Delta and the
request, the actions are the writes and merges that produce Deltas, and each
invariant asks every request of every reachable Delta. A distance is the rank of
its `f32` in the order of `total_cmp`, NaNs are ranks no comparison orders, and
metadata values are ranks of their column's order. The JSON predicates of the
session are translated leaf by leaf, refusals included. A Predicate Tree is the
sequence of its nodes, children before their parent and the root last, so that
the recursive descents of `validate`, `matches` and `parse_predicate_json` are
functions over the positions of the sequence. `NodesAssumption` states this
form; every finite tree has one.

*Explorer.* The handlers meet at one tokio `RwLock`, which hands itself out
first come first served. Each await is a step: the thread of an ingest or a
query ends (`CreateOk`, `CreateErr`, `ComputeEnd`, `BuildEnd`), the handler goes
on (`JoinIngest`, `Respond`), the lock is granted (`Publish`, `Status`, `Start`,
`NoDataset`). `Disconnect` drops a handler wherever it waits, with its place in
the queue or its guard, while its thread goes on. There is no update of rows
under way in a published dataset: an ingest replaces it whole.

*Fixture and Harness.* A file is a configuration and a length: what the
generator writes for that configuration, cut where the last `write_all` got to.
`write_to_dir` creates and fills five files one after the other, over whatever
an earlier process left; `Fail` stops it anywhere. A load reads them one by one
meanwhile. The harness is sequential, so a run is an operator of what was loaded
and of its own configuration, with an outcome of its own (`Panic`) for an index
past the end. PRNG streams, distances and latencies are constants.

*Calibration.* `calibrate` copies a window of the rows, then queries each of
eight candidates with each sample. Each query is one step (`ScoreQuery`) that
sees the table and the index as they are then; between two queries rows are
appended, the index is rebuilt or removed. What an index build makes reachable
with given knobs is the constant relation `Reaches`. Recalls are counted hits
over a denominator common to all candidates, so that comparing them is exact.

## What is checked

| Run | Bounds | Result |
|---|---|---|
| `lifecycle_serial` | 1 writer, 5 calls, 2 ids, 2 payloads, chunks of 2, batches of up to 3 rows | types, exact merges, refinement of `VisibleTable` |
| `lifecycle_race` | 1 writer, 2 jobs, 2 calls | well-formed lineages, stopped jobs are joined, an over-threshold Table is merged |
| `lifecycle_lost_update` | 1 writer, 1 job, 3 calls | violated: an acknowledged write is overwritten by a stale merge |
| `admission_gate` | 4 callers, 2 permits, unbounded calls | counter = holders, refinement of `Semaphore`, lock freedom, no deadlock |
| `segment_commit` | 1 id, 2 vectors, files of up to 3 row units, unbounded crashes | absent or whole, refinement of `SegmentCatalog` |
| `ladder_auto` | 2 callers, rows 0..3 with every threshold in range | one background build, reasons behind failures, no untrained IVF-PQ, builds settle |
| `session_page` | 2 tables, chunks of a seed: 2, 2 clicks of a patient user or 1 of an impatient one | every request settles exactly once, the session is what was acknowledged, every flow ends |
| `session_reset` | the same with 1 chunk and patient users | violated: a reset after a query keeps a freed session |
| `retrieval_search` | 4 writes or merges, 2 ids, 3 payloads (two tie, one is NaN from a query on each side), 13 JSON predicates, every top_k to past its limit | search is the newest visible top k, the oracle agrees up to search's limit of top_k and goes on beyond it, profile and inspector agree as far as they promise, comparisons partition the rows, an update replaces or leaves the Delta |
| `harness_fixture` | 2 writers one after the other, 5 configurations, 4 SIFT directories, 15 benchmark runs of whatever loads | whole fixtures load, no partial file does, runs stay in bounds, exhaustive recall is full, only slow runs fail |
| `explorer_server` | 4 requests of any kind, 3 session specs | the lock's queue and guards are those of the connected handlers that wait, only built datasets are published, refinement of `DatasetRegister`, every request ends |
| `calibration_race` | windows of 3 rows, 2 samples, 8 candidates, 2 appends, 2 builds or removals, top_k of 2 and 100 | no more hits than expected answers, the choice costs no more than the default and finds as much |

Why the bounds are enough. Five calls reach: an id inserted, deleted and
inserted again with a merge in between; one insert that seals a chunk alone and
one that seals because of earlier rows; a dead ratio of exactly 20%, below it and
above it; retained hidden rows between a full and a partial merge batch
(`MergeBatch` = 2). `lifecycle_race` needs two jobs so that a stale merge can
follow a merge, and two calls so that one of them can be overwritten. Its change
fraction of 9/10 is 2.7 of 3 rows, which the code truncates to 2, while 2 rows
need the floor of 2: `ArmedIsCompacted`, which states the threshold without
`ChangeLimit`, tells a truncated product from a rounded one. Three
callers suffice to make a swap fail twice for two permits; the run takes four. The methods
of a writer touch only its own two paths, so Segments of different ids do not
interact and one id suffices. The ladder's three thresholds are 1 < 2 < 3 in
place of 10k < 50k < 1M, in the order of the code.

The page's own seed and two clicks give three flows, enough for a reset or a
delete between two chunks of an ingest, for two creates of one name and for a
reset that follows a query. `Clicks` are the kinds that can disturb each other;
`Refusable` lets the engine refuse an insert, whose refusal ends an ingest
half-way. A patient user clicks once some request was answered well, or nothing
is pending; only then does `SessionIsAcknowledged` speak, since clicks during
the first load can lose a Table (see below).

`Retrieval` and `Harness` quantify over every request in every state, so depth is
needed only for the Deltas and directories: four calls make an id that is
deleted, inserted again and merged, with rows on both sides of a chunk boundary;
two writers make every mixture of two fixtures, and a third would only replace a
mixture by another. Four requests put a writer behind a reader and a reader
behind the writer, with one more ingest beside them. A calibration needs a
batch appended between two candidates and one index change; two of each also
give an index that was removed and built again. `CategoryWidth = 2` plays the 16
bits of a category.

Fairness. `Lifecycle`: weak fairness of each started call's commit and report,
and of each spawned job's wake, evaluation, merge and join, because
operating-system threads are scheduled and the job's sleep is finite; no caller owes a call, a spawn or a
stop. The fairness of `BeginBackgroundMerge` is stated through `Arms`, the same
step as far as `pc` sees it, so that evaluating ENABLED does not evaluate a
merge. `Admission`: a call that began keeps running; a single caller may lose
every swap, so the promise is lock freedom and not freedom from starvation.
`SubstrateLadder`: calls and spawned threads keep running and a LanceDB build
returns; a thread that could not be spawned is owed nothing, and `BuildSettles`
speaks of builds that got their thread. `WorkerSession`: the event loops turn and a WASM load
ends, as one weak-fairness condition on everything but clicks; every script is
finite, so nothing can be passed over for ever. `Explorer`: each request's own
progress is weakly fair, because threads are scheduled, the work of each is
finite, and tokio's lock is fair (first come first served, external); nobody
owes a request or a disconnect. Deadlock checking is off where
callers or users may simply stop (`Lifecycle`, `WorkerSession`, `Retrieval`, `Calibration`),
everything may be done (`Explorer`, `Harness`) or a stale tmp file blocks the last id
(`SegmentStore`).

## What is proved

All theorems hold for every value of the constants under the named assumptions
of the modules, which TLC evaluates on the runs. The assumptions say what the
types of the program say of its inputs (batches are sequences of rows, counts
are unsigned numbers, a marker is none of the values it marks the absence of).
Three say more: `DistanceAssumption`, that generated vectors of one dimension
are at no NaN distance, as sums over their components are finite;
`CalibrationAssumption`, that LanceDB measures a number between any two vectors
a caller may append; and `NodesAssumption`, the sequence form of a tree. The
bounds of the runs (`MaxWrites` and the like) are arbitrary numbers here.

| Theorem | States |
|---|---|
| `MergeIsSound` | a merge of a well-formed lineage is a well-formed lineage with the same newest visible payloads |
| Lifecycle: `TypeCorrect`, `EveryLineageWellFormed` | `Spec => []TypeOK`, `Spec => []LineagesWellFormed` for any writers and jobs |
| `EveryMergeIsExact` | `Spec => []MergeIsExact`: every merge retains the visible rows, once each, and reports what it dropped |
| `SerialWritesImplementTable` | for any writers and jobs, while no two threads hold a replacement at once, `Spec` implements `VisibleTable` |
| `SingleWriterImplementsTable` | its corollary: with one thread in all, `Spec` implements `VisibleTable` |
| `GateTypes`, `PermitsNeverLeak`, `AdmissionIsSemaphore` | the gate's counter is exact, and the gate implements `Semaphore`, for any callers and capacity |
| Ladder: `TypeCorrect`, `OneBuildAtATime`, `FailureHasReason`, `NoUntrainedIvfPq` | the ladder's safety properties for any callers and thresholds |
| Segments: `TypeCorrect` | every live writer owns its tmp and hides rows of its payload only, for every caller |
| `CommittedIsWhole`, `StoresImplementCatalog` | with careful callers a Segment is absent or whole after any failures and crashes, and storage implements `SegmentCatalog` |
| Explorer: `TypeCorrect`, `LockAgreement`, `PublishedBuilt`, `ExplorerIsRegister` | for any number of requests, the lock's queue and guards belong to connected handlers that wait, each guard pins its thread's dataset, only built datasets are published and the server implements `DatasetRegister` |
| `DefaultsAreAccepted`, `CandidatesAreAccepted` | for every dimension and top_k, the parameters FerriteDB chooses itself are accepted by its own guards |
| `SelectionIsCheapestAtParity` | what `calibrate` selects is the cheapest candidate at the default's recall, for every count of hits |
| `CalibrationInvariant`, `CalibrationTypes` | whatever is appended, built and removed between its queries, a calibration counts no more hits than it expects answers, and chooses one of its candidates, at no more than the default's cost |
| `SelectionKeepsParity` | what was chosen finds, within epsilon, what the default finds, as long as the index is still the one of the snapshot and only new ids were appended, for any table, index and metric |
| `SessionInvariant`, `SessionTypes`, `RequestsAnsweredOnce` | for any flows, tables and clicks, every request is queued, waiting for a load, answered by one frame on its way, or settled, and in one of these places only |
| `PatientSessionAcknowledged` | a patient user's session holds exactly what was acknowledged since the last reset |
| `DeltaInvariant` | whatever is inserted, deleted, updated and merged, in any order, the Delta is a well-formed lineage |
| `SearchesAnswerNewest` | a search of a Delta with one visible version per id answers the nearest k of the newest visible payloads, for every predicate, k, tie and NaN |
| `OracleIsLikeForLike` | while nothing is marked deleted, the oracle refuses and answers what search does up to the limit of `with_top_k`; beyond it search refuses every request, and the oracle refuses only what search refuses at the limit and otherwise continues its answer (`OracleFollows`, for every k) |
| `ProfilesCountSearches`, `InspectorsMatchProfiles` | the session's profile and inspector agree with the search and with one another as far as they promise |
| `UpdatesReplace` | an accepted update replaces the rows of its ids and no others, a refused one leaves the Delta as it is |
| `ComparisonsPartition` | the six comparisons split the rows of a column as their complements say, NaN included |
| `OraclesAgree` | the insertion loop of the generators and the harness answers what the engine's sort and truncation answer, for every corpus in row order |
| `FixtureInvariant`, `FixtureTypes` | wherever generators stop and whatever they write over, each file is a prefix of what one configuration writes |
| `WholeFixturesLoad`, `OnlyWholeFiles` | what a generator finished is loaded as generated by its family's load and refused by the other's, with the one exception of a top_k above its rows; no load accepts a data file cut short, whatever writers do during its five reads |
| `RunsInBounds` | whatever loads and whatever the harness is asked, no run reaches past the end, but for SIFT directories with more answers than queries |
| `FilteredRunsFull`, `SlowRunsFail` | a filtered run of the exhaustive search has full recall, and an unfiltered run of one whole fixture, with a top_k no smaller than the fixture's, fails for nothing but its latencies |

*Delta and merge.* `InsertLineage` and `DeleteLineage` show that both
operations keep the four conjuncts of `Lineage`; `InsertIsPut` and
`DeleteIsRemove` show what they do to the newest visible payloads. The conjunct
to notice is `HiddenIsPrefix`: a hidden row has no older visible version. An
insert appends a visible row and a delete hides every row of an id, so it is
preserved, and `merge` depends on it: otherwise an id could have its last row
hidden and an older one visible, and re-deleting it would take the carried row along.
`merge` is two inserts, a delete and an insert into an empty Delta, so
`MergeIsSound` follows once the batches it builds are known to be duplicate-free
and well typed, which rests on `Ascending` being a bijection onto a finite set of ids.

*Lifecycle.* The inductive invariant `IInv` is `TypeOK`, `LineagesWellFormed`
and `Holding`: a thread about to commit holds a replacement. `LineagesWellFormed` speaks of replacements in flight
because a commit publishes one that may be stale. For the refinement, a second
invariant says that what is about to be committed was built, as its call asks,
from what is still published. It is inductive under `OneAtATime`: no two threads
are between snapshot and commit at once, which is what ADR 0005 asks of the
callers of `Lifecycle`, and which one thread keeps by itself. The code does not
enforce it, so it is a hypothesis (`[]OneAtATime`) and not a theorem;
`lifecycle_lost_update` shows that it cannot be dropped.

*Admission.* `in_flight` equals the cardinality of the holders; a successful
swap adds a caller that was not one. *Ladder.* The invariant adds that a caller
at the swap loaded a claimable state, so that a live claim makes the swap fail,
and that the rows counted for an IVF-PQ choice are still there when the build
reads them.

*Merges.* `MergeIsExact` compares two counts of one list of ids, the ids a
merge carries, with the visible rows before and after. `MergeKeeps` needs that
list to be free of duplicates (`CarriedDistinct`: an ascending enumeration of a
set of ids) and every row to go to one class only, which is where
`HiddenIsPrefix` is used again.

*Segments.* The invariant follows one writer through `commit` (`Written`): the
body of an open writer's tmp is its rows, then the rows and the bitmap, then
there is a header that describes them, and a writer past `sync_all` has nothing
unforced. `WholeFileReadsBack` shows that `open` accepts such a file and returns
what was written, so the rename publishes what `commit` acknowledges. The same
invariant says that an id without a tmp has no unforced bytes, which is why a
crash can lose a committed Segment but not damage it.

*Explorer.* A reader's guard pins the slot: `ReadersPinDataset` says that the
target of a thread whose handler still holds its guard is the published one.
`LockAgrees` adds that the lock's own queue and guards are those of the handlers
that are connected and wait: a dropped future leaves the queue from any place in
it, and the others keep their order (`RemoveHolds`).
The types, which the proof needs and `LockAgrees` relates, are proved and not run.

*Calibration.* The sort by cost, probes and position is packed into one number,
whose least value over the candidates that meet parity is the choice; the
default is among them, so there is one. That is about one set of counts, but the
candidates are not scored on one table: rows are appended between two queries.
The invariant `CalInvariant` is about this. A count is the number of expected
rows with fewer than k found rows in front of them (`OverlapIsHits`), so rows with
new ids can only push an expected row out (`AppendedRowsOnlyPush`), and a count
on a longer table is no larger. The default is scored first, hence on the
shortest table: it found no less, and every other candidate no more, than on the
table as it was when the default's last query ended (`Favoured`). So whoever
reaches the default's count reaches it there too (`SumsCompare`,
`ParityGrows`). Build numbers are fresh, so an index that was replaced does not
come back and the claim lapses for good (`Stays`); without an index all
candidates find the same (`AllFindTheSame`). The new ids are needed: an appended
row with the id of an expected one is counted as a hit.

*Sessions.* The inductive invariant `SessionInv` has three parts beside the
types. `Places` puts the ids of all requests into four disjoint sets (the
worker's inbox, handlers waiting for a load, answers on their way, settled) and
orders the frames of one request; `EveryRequestOnce` counts members of these
sets. `FlowsWait` says that a running flow always has a request to wait for.
`Acknowledged` splits a patient user's history at the first acknowledged
request: before it there may be several loads, but no session holds a Table and
at most one request could create one; after it no handler waits for a load and
the inbox is served in order, so each Table lists its writes in the order of
their ids. Both halves are needed: without the first, a second load could
replace a session that already holds a Table, which is what an impatient user
runs into.

*Searches.* The inductive invariant is `DeltaInv`, the types and `Lineage`; each
action keeps it by a lemma of `CompactionProofs`. The answers are functions of
the Delta, so the rest is about operators. `TotalOrderRanks`: a strict total
order on a finite set gives each member a rank of its own and leaves no rank out
(by the pigeonhole principle); hence `SortBy`, which places each element at its
rank, is a sorted permutation (`SortByLists`), and truncating it leaves a top k
(`NearestIsTopK`). `FoundArePassing` maps the rows a search keeps to the ids that
are visible, which is where one version per id is needed. The inspector's sums
follow from counting prefixes (`TotalIs`, `DeadSplits`).

*Oracles.* `IsBest` characterises the best k of the first n rows; there is only
one such list (`BestIsUnique`). Sorting the first n and cutting at k gives it
(`SortedIsBest`), and considering one more row keeps it (`ConsiderIsBest`): the
case to notice is a tie with the worst kept, where the row that came first stays
and has the smaller id, as the sort decides. Recursive functions, such as the
loop's, are compared with a closed form at the least position where the two
differ (`LeastOfNats`), in place of an induction.

*Fixtures.* The invariant `FixtureInv` says that every file is a prefix of what
some configuration writes, that a writer is between two files of the list, that
what it has finished is whole, and that what a reader has read were such
prefixes, each at its own moment. A header announces
the length of the body, so a data file that is accepted has that length and is whole;
its magic names its family; yet the five files may be of five writers, as far as
their counts agree (`LoadedIs`). A whole file is readable (`WholeIsReadable`),
except for a ground truth whose header asks for more neighbours than there are rows.

*Runs.* `RunsInBounds` follows the lengths the loads checked (`LoadedFixture`,
`SiftLoaded`) through the filter, the answers and the recalls. For
`FilteredRunsFull` the expected answers come from the oracle's loop and the
found ones from the engine's sort and cut, over the same rows, so `OraclesAgree`
makes them one list (`SameListIsFound`).
`SlowRunsFail` does the same with the truth file in place of the loop
(`TruthIsSorted`), whose answers are cut at the fixture's k.

Only model-checked: liveness (`StopJoins`, `ArmedIsCompacted`, `LockFree`,
`BuildSettles`, `EveryFlowEnds`, `EveryRequestEnds`). Its fairness speaks of
ENABLED, which is out of the prover's reach. Every safety property of a passing
run is stated by a theorem; that of `VisibleTable` carries the hypothesis
described above. What the generators' streams and the metrics compute is not in
the models, so no theorem is about it.

## Disagreements between the code and its documents

`PROJECT.json` quotes each. Shown by a run: lost updates under the background
job the library itself spawns; a session freed and kept by a reset after a
query. Read in the source, and contained in the models:

- engine: duplicates collapsed by merges; Tombstones erased by a later append; a
  committed Segment lost in a crash; a commit after a failed append publishes an
  unreadable file; the bitmap has no checksum; a committed id can be
  overwritten; `AlreadyInProgress` after a failed spawn; a failed background
  build is terminal; `purge_ratio` is never read; `is_tombstoned` stays true for
  a re-inserted id; a repeated `compact` may report absorbed segments; the
  documented recall target of a calibration is never read.
- browser: clicks during the first load can lose a Table, because `engine()`
  builds a session per load; no profile, and so no query of the page, can
  succeed; the recall oracle ranks tombstoned rows, and has no upper limit of
  top_k although search refuses more than 1000; the profile and the
  inspector count re-inserted ids as hidden; the JSON predicates accept leaves
  the engine refuses and refuse scalars their comment accepts.
- explorer: nothing takes the lock documented to serialise ingests, which the
  swap under the write lock makes unnecessary; IVF-PQ builds ask for a number of
  sub-vectors that need not divide the dimension; a listing that fails after a
  build empties the index names.
- fixtures and harness: a mixture of two fixtures of one shape loads; a fixture
  with a top_k above its rows is written and refused; one `load` does not read
  both families; a SIFT directory with more answers than queries panics a run;
  the guard for filtered runs without categories cannot be reached; recall@k is
  measured against the fixture's k; categories of zero or more than 65536 values
  are not what their comment says.

## Not modelled, and the plan

Left out: error texts, metrics, markup, generated bindings, CI, the spike,
distance and PRNG arithmetic. LanceDB is external: the models contain what
`index_substrate.rs` and the explorer rely on, an append-only table, builds that
cover the rows there were, queries that may miss covered rows.

Abstractions worth knowing when reading a result. In `Lifecycle`, floating-point
ratios are exact fractions. The engine and the generators compute distances by
different sums (for L2 the generators add the two norms and subtract twice the
product, the engine sums squared differences); `Harness` takes them to order the
rows alike, so rounding differences between the two are not examined. Nor is a
zero vector under Cosine, which the generators put at infinity
(`corpus-gen/src/lib.rs:38-48`) and the engine at distance 1
(`search.rs:367-382`): with one in a corpus the two may order rows differently
and an exact search may miss its ground truth. `Calibration` compares
counts of hits instead of their quotients, with epsilon as the fraction 1/100.
The clustered generator checks its deviations and not its `center_mean`
(`clustered.rs:206-224`); a mean that is not finite is left out, as are numbers
so large that distances overflow to NaN. The fields of a report, a status or a profile that are
only displayed are left out, as are the harness's evidence programs (`bin/`).
`TableManager`, a map of validated names to schemas without concurrency, is
represented by the Tables of `WorkerSession` and the schemas of `Predicates`.
`Delta::update` has no caller: `WritePath` does not wrap it, so it is modelled
as an operation of a Delta (`Retrieval`) and not of a `Lifecycle`.

What could come next: the heap poll and the lifecycle snapshot of the page, as
reading flows of `WorkerSession`; and a caller of `SegmentStore`, once the engine
has one, in place of `Careful`.
