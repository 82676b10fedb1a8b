# memolite in TLA+

A model of memolite (`src/src/*.rs`): an embedded memory engine for agents that
keeps memories in SQLite and their embeddings in a vector store.  It says what
the engine promises when its calls interleave, fail and crash, checks it with
TLC and proves the core of it with TLAPS.  All line numbers refer to `src/src/`.

## 1. The system

| Part | State | Operations | Modelled in |
|---|---|---|---|
| Memory engine (`engine.rs`) | table `memories`, table `embeddings`, vector index | `open`, `store*`, `get`, `update`, `forget`, `purge_expired`, `rebuild_vector_index`, `compress_old_memories` | `MemoryEngine` |
| Version history | the `superseded_by` column | what any of the above may do to it | `VersionHistory` (abstract), `MemoryEngineHistory` (refinement) |
| Maintenance controller (`maintenance.rs`, `engine.rs:656-721`) | `maintenance_running`, the spawned task, its token and handle | `start_maintenance`, the loop, `shutdown`, drops | `Maintenance` |
| Vector store (`vector_store/`) | map id -> vector | `insert`, `delete`, `replace_all`, `search` | `InMemoryVectorStore`; for the engine `index` of `MemoryEngine`, `Search` of `Recall` |
| Schema, migrations (`migrations.rs`) | the file, `schema_migrations` | `run_migrations` at every open | `Migrations`; foreign keys and their check in `MemoryEngine` |
| Compression helpers (`compression.rs`) | none | eligibility, clustering, summary | `Clustering`; eligibility in `MemoryEngine` |
| Recall, confidence (`engine.rs` 202-405) | `access_count`, `last_accessed`, `confidence` | `recall`, `recall_query` | `Recall`; the ranking formulas as a free choice |
| Temporal queries, `stats` (`engine.rs` 738-825, 1053-1143) | none (reads) | range scans, active and stale memories, counters | `Queries` |
| Version chains (`engine.rs` 827-859) | the chain read so far | `find_superseded_chain` | `ChainWalk` |
| Streaming ingestor (`streaming.rs` 122-245) | bounded channel, task, token, report | `spawn`, `sender`, `clone_handle`, `send`, `shutdown_now`, `finish` | `StreamIngestor` |
| Sentence buffer (`streaming.rs` 65-122) | pending text | `feed`, `finish` | `SentenceBuffer` |
| Embedder, errors, crate root, `generic_http.rs` (empty), examples | none of interest | | not modelled |

How the parts interact.  Every public method of the engine is `async` and takes
`&self`, so an `Arc<MemoryEngine>` shared by several tokio tasks (callers, the
maintenance loop, the ingestor) runs calls concurrently.  A call is a chain of
sections: a transaction under the connection mutex, an embedder call under its
mutex, an awaited vector-store call.  **No lock is held from one section to the
next**, so between any two of them every other call may run and the process may
end.  SQLite survives, the default vector store does not and is rebuilt by
`open`.  A vector store may be a custom backend, so each of its calls may fail;
the engine answers with compensations (delete the row again, reconcile the
index), which can fail in turn and are then reported as `CompensationFailed`.

The hard behaviours are therefore: two updates of one version; compression
working on candidates it read long ago; the index being replaced by a snapshot;
forget and purge meeting a store half-way; foreign keys that make a `DELETE`
fail as a whole; failures of compensations; crashes between sections; a chain read
one version at a time; a flag that two parties clear; and two processes that
migrate one file.  `PROJECT.json` lists each at its line under
"hazards".

What makes each part correct:

- engine: the database passes every check of the next open at every moment; the
  version graph is acyclic and a successor is final; one of several racing
  updates wins; failed writes leave nothing; active memories are in the index and
  forgotten ones are nowhere; expired rows are purged; calls return; drift
  between database and index is reported;
- maintenance: one loop at a time, a flag that is free again after shutdown,
  a shutdown that returns, a loop that does not outlive its engine;
- recall: nothing that was gone is returned, nothing that was there is missed,
  every access counts once, and a memory is promoted at the threshold exactly;
- ingestor: the report accounts for every chunk, finish drains, order is kept,
  shutdown_now is prompt, and dead consumers release producers;
- queries and chains: all of them mean the same by active, stale and expired; a chain
  is in order and is not cut short while its newest version exists;
- migrations: what the record says has happened, whoever opens finds it all done,
  openers do not keep each other out;
- sentence buffer, clustering, vector store: no text is lost or doubled however it
  is fed; clusters partition the candidates; hits are the best there are, and a call
  that failed has changed nothing.

## 2. The modules

| Module | Content |
|---|---|
| `MemoryEngine` | the storage core: state, one action per section, fairness |
| `MemoryEngineProperties` | its invariants, action and liveness properties |
| `MemoryEngineDrift`, `DriftProofs` | a history variable for "a failed compensation was admitted": reported as `CompensationFailed`, or the clean-up of a compression, which the code does at best effort and does not escalate (`engine.rs:985-993`); with its properties; their theorem |
| `VersionHistory` | abstract specification of the `memories` table |
| `MemoryEngineHistory` | the refinement mapping onto it |
| `MemoryEngineProofs`, `SettledProofs`, `VersionProofs` | type and table invariant; ids in flight and what calls leave behind; versions, finality, expiry and the refinement |
| `Recall`, `RecallProofs` | `recall_query` over `MemoryEngine`, with its properties; its theorems |
| `Queries` | the read-only methods as operators over `Recall`, with their properties (theorems in `RecallProofs`) |
| `ChainWalk` | `find_superseded_chain` over `MemoryEngine`, with its properties (theorems in `VersionProofs`) |
| `Maintenance`, `MaintenanceProofs` | the controller with its properties; its theorems |
| `StreamIngestor`, `StreamIngestorProofs` | the ingestor with its properties; its theorems |
| `Migrations` | the migrations by several processes, with their properties |
| `SentenceBuffer`, `Clustering`, `InMemoryVectorStore` | the three remaining parts with their properties |
| `Sorting` | the sorted sequence of a finite set |
| `PartsProofs` | the theorems of these four parts |
| `MCMemoryEngine`, `MCMemoryEngineDrift`, `MCChainWalk`, `MCRecall`, `MCMaintenance`, `MCServices`, `MCParts` | instances for TLC |

### MemoryEngine

`memories` is the table as a function from ids to rows, `embeddings` the set of
`memory_id`s of the other table, `index` the ids in the vector store, `now` the
clock, `issued` the number of UUIDs generated, `up` whether an engine exists, and
`job[t]` what the suspended future of task `t` remembers: its program counter
(`pc`, the next section), the request, the ids it collected (`batch`, `group`) and,
once it is idle, the outcome the caller got (`res`).

| Code | Actions, in order |
|---|---|
| `store_with_options_id` 97-200 | `Store`; `CommitRow` or `CommitFails`; `InsertVector`, or `InsertVectorFails` then `UndoInsert` / `UndoInsertFails` |
| `update` 496-568, `mark_superseded` 570-597 | `UpdateRead` or `UpdateRefused`; `UpdateDraft`; the actions of store; `MarkSuperseded`, or `MarkSupersededFails` then `UndoRow*`, `UndoIndex*` |
| `forget` 462-494 | `Forget` or `ForgetFails`; `ForgetVector`, or `ForgetVectorFails` then the reconciliation |
| `purge_expired` 599-654 | `Purge` or `PurgeFails`; `PurgeVector` per id; `PurgeEnd`, with the reconciliation if one failed |
| `rebuild_vector_index` 890-899, `reconcile_vector_index` 1174-1247 | `Rebuild`; `Reconcile` or `ReconcileFails`; `ReplaceAll` or `ReplaceAllFails` |
| `compress_old_memories` 918-1021, `mark_all_superseded` 1026-1040 | `Compress` or `CompressFails`; `FetchEmbedding` per candidate, `FetchMissing` or `FetchFails`; `Summarise`, the actions of store, `MarkAllSuperseded` or `MarkAllSupersededFails` with `Undo*`, per cluster; `CompressEnd` |
| `open_with_store_internal` 45-79, `run_migrations` | `Crash` (also: dropping the engine), `Open` |

`Deletable` is the foreign key `superseded_by REFERENCES memories(id)`: a
`DELETE` that would leave a dangling reference fails and changes nothing.
`DeleteRows` carries the `ON DELETE CASCADE` of `embeddings`.

Abstractions.  Ids are numbers in the order they are generated; content,
metadata, access counts and confidence are left out; `clutter` stands for the
two attributes the compression filter reads (`Episodic`, importance below 0.3);
time is counted in whole units, and so are TTLs; which candidates are similar is
data, so `Summarise` may form any cluster of `MinCluster` or more remaining
candidates (or none).  Requests that are refused without touching anything
(`InvalidArgument` of store, malformed UUIDs) are left out.  A read that fails ends
its call with a plain error: the `get` of update in `UpdateRefused`, the scan of a compression in
`CompressFails`, its reads of embeddings in `FetchFails`.  Their guard is `ReadFails`: SQL itself fails, or what is read
does not decode, which leaves every write as it is.  `UpdateRead` takes
`get` and the clock reading that follows as one step; a supersession in
between makes the mark fail as it does in the model when it comes right after.

Constants.  `Tasks`, `Calls` (which method each task may call), `Faults` (which of
SQL, reads alone, embedder, vector insert / delete / replace may fail, and whether the process
may end), `Ttls`, `NewExpiries`, `Clutters`, `SummaryTtl`, `CompressAge`, `MinCluster`
are the environment; `MaxMemories` and `MaxTime` are the only bounds on the
state.  `Spellings` says how callers write an id given to forget; `EarlyReads` whether
a caller may use the id of a memory whose store has committed but not yet
returned (it can be read with `query_by_time_range`, 738-761).

### Recall

`Recall` extends `MemoryEngine`: its next-state relation is a step of the storage core
(`EngineStep`, which adds the columns `access_count`, `last_accessed` and `confidence`, in
`usage`, to the rows the core inserts and deletes) or a section of a recall (`reader[r]`).

| Code | Actions |
|---|---|
| argument checks, embedding 215-246 | `Call` |
| `store.search` with the pool, no hits 248-261, `in_memory.rs` 89-104 | `Search` |
| rows, filters, ranking, cut 263-355 | `Fetch` |
| UPDATE with promotion 357-389 | `Bump` |
| second read 391-405 | `Refetch` (`Answer`) |
| any of them fails | `RecallFails` |

Which vectors are similar and which items rank high is data: `Cut` chooses any of the
right number.  Of the filters on stored attributes one is modelled (`no_clutter`); those
on expiry, supersession, staleness and the time of creation all are.  The clock is read
after the search and before the rows, `clock` of `reader[r]`.  `barred` and `owed` are history: what was gone and what was
there when the recall was called.

### Queries and ChainWalk

The methods of `Queries` read under one lock, so they are operators on the state of
`Recall`: `CreatedWithin`, `TouchedSince`, `ActiveMemories`, `StaleMemories`, `Stats`.
`find_superseded_chain` locks once per version, so `ChainWalk` makes it a process beside the
storage core: `walker[w]` holds the chain read so far; `StartWalk` and `Hop` are one `get`
each, `WalkFails` a `get` that fails, `EndWalk` and `GiveUp` its ends: `GiveUp` is the guard of
10,000 hops (`MaxHops`), which answers `Internal`.

### Migrations

`disk` is the committed file, `conn[p]` the connection of a process: the statement it is at
(`pc`), the migration (`at`), its file lock and what its transaction has read (`saw`).

| Code | Actions |
|---|---|
| `Connection::open`, PRAGMA, `CREATE TABLE schema_migrations` 6-14 | `Connect`, `EnsureLog` |
| either transaction begins with its reads 16-25, 84-92 | `Read` |
| nothing is missing | `Skip` |
| the first statement that writes, and the commit 27-63, 94-117 | `Reserve` or `ReserveBusy`; `AwaitReaders`, `Commit` |
| `foreign_key_check` 67-80 | `Check` |
| the process ends, a wait times out, an I/O error | `Fault` |
| the engine stores a memory | `StoreRow` |

The locks are SQLite's, in the rollback-journal mode the code leaves on: readers
share, a reader that wants to write while another connection has reserved the file is
refused at once (waiting would be a deadlock), a commit waits for the readers to leave.
The file is new or was left behind by the release that had the first migration only.

### SentenceBuffer, Clustering, InMemoryVectorStore

| Code | Actions |
|---|---|
| `feed` 88-113 | `Feed` appends the text; `CutSentence` per round of the loop; `Fed` when no boundary is left |
| `finish` 118-122 | `Finish` |
| `greedy_cluster` 85-107 | `PassOver` or `NewCluster` per round of the outer loop; the inner loop is the set `Joining` |
| the loop over clusters `engine.rs` 954-960, `summarize_cluster` 121-145 | `SkipSmall`; else `PushContent` per member, then `Summarize` |
| `insert`, `delete`, `replace_all` (and `clear`), `search` | `Insert`, `Delete`, `Replace`, `Search` |

`SentenceBuffer` distinguishes stops, whitespace and other characters; `fed` and `cuts` are
history.  The loops of `feed` and `summarize_cluster` are loops of steps rather than recursive
operators, so that their invariants can be stated and proved.  Similarity in `Clustering` is any
symmetric relation.  In
`InMemoryVectorStore` every call is one action (the map's lock is held throughout), a vector
is its similarity to the query at hand, and `told` is what the callers have been told.

### Maintenance

A run `r` is one successful `start_maintenance`: its task (`loop[r]`), its token
(`cancelled[r]`) and its handle (`handle[r]`).  `flag` is `maintenance_running`.
`Start` is the swap and the spawn, `TickFires`/`WorkEnds` a purge or compression on
an upgraded `Arc`, `EngineGone` the failed upgrade, `LoopSeesCancel` and `Leave` the end
of the task, `Shutdown` and `LoopJoined` the two halves of `shutdown` around its await,
`DropHandle` and `DropEngine` the drops.  `Overlapping` says whether anyone starts
a loop while a shutdown is awaiting; `LoopPanics` whether the task may panic.

### StreamIngestor

`sender[h]` is what the holder of a cloned `IngestorSender` is doing, `sent[h]` how many
of its sends returned Ok; `waiters`, `free` and `queue` are the channel, `task` and
`current` the spawned future, `received`, `stored`, `errors` its report, `persisted` the
memories it made, `owner` what became of the `StreamIngestor` value.  A chunk is the pair
of its sender and its number.

| Code | Actions |
|---|---|
| `sender`, `clone_handle` 143-147, 221-223 | `Clone` |
| `send` 129-141 | `Send` when there is a free slot; else `Block`, then `Push` (granted) or `Refused` (closed); `AbandonWait`, `AbandonGrant` when the future is dropped |
| the loop 178-211 | `SeesCancel` or `NotCancelled` (first arm of the biased select), then `Receive`, `Wait` or `Drained` (second arm); `StoreOk`, `StoreFails`, `Panic` |
| `shutdown_now` 228-233, `finish` 239-245 | `ShutdownNow` or `FinishIngest`, then `Joined`; `DropIngestor` |

The two arms of the select are two steps, since another thread may cancel between the
two polls.  The channel is tokio's, modelled by what the code relies on: permits are
handed to waiting senders in order, a sender keeps its permit when it is preempted
before it pushes, and a receiver that is dropped refuses the waiting senders and
forgets the queue.  A send that a closed channel refuses at once changes nothing and is
left out.  `store_with_options` is one step here: what it does is `MemoryEngine`'s.

## 3. What TLC checks

| Run | Instance | Properties |
|---|---|---|
| `versions` | two tasks, one of them storing and updating, the other updating, forgetting (any spelling), purging and rebuilding; all faults but the embedder's | `TypeOK`, `DatabaseReopens`, `ChainsAcyclic`, `OneWinnerPerVersion`, `SupersessionIsFinal`, `ImplementsVersionHistory` |
| `searchable` | two tasks, all calls but rebuild; read, insert, crash faults | `ActiveIsSearchable`, `ForgottenStaysGone`, `FailedWriteLeavesNothing` |
| `expiry` | a caller, the purging loop and a walk; updates keep the expiry | `SuccessorOutlives`, `ChainInOrder`, `ChainReachesNewest`, `ExpiredRowsLeave` |
| `drift` | one task, all calls, all faults | `DriftIsReported`, `EveryCallReturns` |
| `recall` | two recalls, one asking for superseded memories and one for stale ones, and a writer; insert, crash faults | `NoAccessLost`, `PromotedExactly`, `NothingBarred`, `FindsWhatIsThere`, `ReturnsOwnAccess`, `AccessClockSane`, `StaleAgree`, `StatsNeverFall` |
| `services` | the maintenance loop with three starts and panics, no overlapping start; or the ingestor with two senders of two sends each, two slots, failing and panicking stores | `AtMostOneLoop`, `ClosedMeansStartable`, `ShutdownReturns`, `LoopEndsWithEngine`; `ReportAddsUp`, `FinishDrains`, `InOrder`, `StopIsPrompt`, `SendersReleased`, `OwnerReturns` |
| `parts` | three openers of one file with faults; feeds of up to two characters; four vectors; three ids in the store | `RecordIsTrue`, `OpenMeansMigrated`, `OpenedInTheEnd`, `SplitsExactly`, `ClustersAreGreedy`, `HitsAreBest` |

The parts of the last run share nothing: a behaviour of `MCParts` exercises one of them
while the others rest, so that the run is the sum of four and not their product.  The same
goes for the two background tasks in `MCServices`.

What `stats` counts is read at two moments to say anything: `StatsNeverFall` compares its
numbers before and after each step that deletes nothing.  Updates, compressions and recalls
may add superseded, expired, explicit and reinforced memories, and never take one away
(`engine.rs:1053-1058` has a caller compare two calls).  `StaleAgree` says where the numbers of
`stats` differ from what the other methods call expired: in the very second of the expiry.

Every property has a mutant in `PROJECT.json`: a plausible slip in one definition
(a dropped `AND superseded_by IS NULL`, foreign keys left off, a compensation
forgotten, ...) under which the same run finds the property violated.

Five runs show disagreements between the code and what it says of itself:

- `maintenance_overlap` violates `AtMostOneLoop`.  The task clears the flag itself
  (`engine.rs:717`); a new start may claim it; the first handle's `shutdown` then
  wakes up and clears it again (`maintenance.rs:78`); the next start runs a second
  loop.  `engine.rs:661` says "at most one such task is active".
- `compress_overwrites` violates `SupersessionIsFinal`.  `mark_all_superseded` lacks
  the `superseded_by IS NULL` guard it is said to mirror (`engine.rs:1024`), so it
  replaces the successor a concurrent update has set after the scan.
- `rebuild_race` violates `ActiveIsSearchable`.  `reconcile_vector_index` reads the
  rows, releases the connection, and replaces the index by them; a store in
  between is missing from recall until the next rebuild.
- `purge_blocked` violates `ExpiredRowsLeave`.  After an update that asks for a
  shorter expiry the new version expires while the old one lives and points at it:
  the single `DELETE` of every purge fails on the foreign key, for all expired rows.
  (A compression of a memory that lives longer than 365 days does the same.)
- `compress_false_alarm` violates `CorruptionIsTrue`.  The comments of
  `compress_old_memories` take a candidate without an embedding for a corrupted database
  (`engine.rs:905-908`, `939-943`).  The scan and the reads of the embeddings are separate
  sections, so a memory forgotten in between is reported as `Corruption`, although
  row and embedding left together and the database is sound (`DatabaseReopens`).

Two more are visible in the same model and have no run of their own.  With
`Spellings = {"canonical", "other"}`, `searchable` violates `ForgottenStaysGone`: forget
compares the argument's text with the stored id (`engine.rs:470`) but gives the vector
store the parsed UUID, so an upper-case id loses its vector, keeps its row, and
the caller is told Ok.  With `EarlyReads = TRUE` it is violated by a forget between
the commit and the vector insert of a store, which leaves a vector without a row.

A third is visible in `Open` and `Reconcile`, which index active rows only
(`engine.rs:1190-1195`).  The originals of a compression are said to be recoverable with
`include_superseded(true)` (`engine.rs:911-914`, `compression.rs:6-7`), the old version of an
update likewise (`Changelogs/19thjuly.md:71-72`), and the plan of the rebuild asks for a test that
this still holds after it (`Docs/V6final_architeture_build_plan.md:1691-1692`).  It does not: after
a rebuild or a restart a superseded memory is in no index, so no recall finds it, and only `get` and
`find_superseded_chain` reach it.  No property is stated about it; `FindsWhatIsThere` asks
for active memories only.

Some behaviour is as the code means it and still worth knowing.  `last_accessed` is written with the clock reading of the recall that
writes, so an overlapping earlier recall may turn it back and `created_or_accessed_since`
may miss a memory that was recalled since (`AccessClockSane` bounds it below by the
creation).  A chain of more than 10,000 versions would be called a cycle, with `MemoliteError::Internal`
(`ChainInOrder`: it takes that many).  `SentenceBuffer` takes a stop at the end of a feed for the end of a
sentence, so "3." and "14" become two; `SplitsExactly` has these cuts in its reference.
A summary is cut at its limit while all originals are superseded, so the content of the last
ones may be in no active memory.  An opener that finds another one migrating may be refused with
BUSY at once, without the busy timeout; somebody gets in (`OpenedInTheEnd`).

The ingestor keeps its promises with two remarks.  `shutdown_now` says that queued
chunks "are never processed" (`streaming.rs:225-226`); one chunk may be, when the token
is cancelled between the two polls of a select (`StopIsPrompt` says: one at most).  And
Ok from `send` means accepted, not stored: a chunk accepted before a cancellation or a
panic is dropped with the queue, and a sender that was granted its slot just before
is told Ok although the receiver is gone by the time it pushes.

Recall excludes what was superseded or expired when it read the rows, not when it
returns: an update that marks a memory between the filters and the second read makes
recall return an item with `superseded_by` set, and bump it.  And a full pool is an
excuse of `FindsWhatIsThere` because it is one of the code: superseded and expired
vectors that are still in the index count against the pool before they are filtered.

### Bounds

Two tasks are enough for the races in the code: every conflict is between one
call's suspended state and one other call.  Three ids allow a version, a racing
second version and a third update of the winner (`compress_overwrites` uses four:
two originals, a summary and an update; `compress_false_alarm` as many).  One or two clock ticks let a row be
alive in one section and expired in the next; `expiry` uses two so that a
successor's clock starts later than its predecessor's, `searchable` so that a summary (`SummaryTtl = 1`)
may be purged before its originals are marked, and `MaxHops = 1` so that the guard
trips with three versions.  `CompressAge = 0` and
`MinCluster = 2` stand for 14 days and 3 members: the control flow
does not depend on the numbers.  Symmetry of the two tasks is used where both may
call the same methods and only safety is checked.  Deadlock checking is off where
a run may stop because a bound is used up and liveness needs no further step:
`expiry`, `purge_blocked`, `parts`, `services` and `maintenance_overlap`, whose sends,
starts and opens are finite.  Two slots and two senders of two chunks make the channel full with a sender
waiting, and let a chunk arrive from one while the other's is being stored.

In `recall` the limit is 1 with two memories, so that the limit is felt.  The pool is 2, which the
index never exceeds in this run: `Search` never leaves a hit out for want of room, and what a
full pool hides is covered by the theorem `FindsActive` alone.  The
threshold is 2 and no recall starts after an access, so that the second access comes from
a concurrent recall.

`EveryCallReturns` is checked with one task: no action of a call has a condition on the state
of another task's call, so one task with every fault shows the loops of purge and
compression to end.  Three openers are one that reserves, one that reads and one that is refused;
with two opens each and two faults every one can be killed and come back.
`MaxText = 6` is the shortest text with a stop in the middle, one at the end of a feed and a
blank piece; four vectors are the fewest with two clusters that compete for an entry; a
summary of ten characters is full with two contents of four and fits three of one.

### Fairness

`Running` is weak fairness of the next step of each call under way: tokio polls a
ready future again, the mutexes are released at the end of every section and the
SQLite calls return.  Nobody is obliged to start a call, except that the
maintenance loop purges again and again (`Maintained`, used by `PurgingSpec` only,
with `Tick`: an interval timer fires as long as time goes on).  Faults are never
fair.  `FairDriftSpec` adds weak fairness of `Open`: a caller whose process died opens the
database again.  In `Migrations` the step of each opener is weakly fair: SQLite's busy handler
polls and a process goes on; nobody has to open, and a fault is an excuse.  Walks and
recalls are not fair, nothing is asked of them.  In `Maintenance`, `LoopSeesCancel` is strongly fair because `select!` without
`biased` picks at random among ready branches: the token, once cancelled, is
ready at every poll between two ticks.  The remaining actions of the task and
`LoopJoined` are weakly fair; `TickFires`, `LoopPanic`, `Start`, `Shutdown` and the drops are
not fair at all.  In `StreamIngestor` the task, `Joined`, `Push` and `Refused` are weakly
fair (tokio polls what it has woken, `store_with_options` returns); nobody has to send,
to drop a sender or to stop.

## 4. What is proved

Every invariant and every action property of a passing run is stated by a theorem; only the
liveness properties are not.  Proofs are in the eight modules that end in `Proofs`, for all values
of the constants (any number of tasks, readers, walks, openers, ids and ticks, any calls, any
faults, texts and candidates of any length).  The
only assumptions are the named `ASSUME`s of the modules, which give the constants their
types, and where a theorem says so one of these:

- `NoCompression`: no task compresses (`compress_overwrites` shows that it is necessary);
- `ExpiryKept`: no update asks for another expiry (`purge_blocked` shows what a shorter one
  does);
- `NoReconciliation`: no caller rebuilds the index and the vector store deletes what it is
  asked to, so that nobody swaps the whole index beside other calls (`rebuild_race`);
- `Canonical` and `~EarlyReads`: ids are written as they are stored, and learned from the
  call that returns them; `~SqlFails`: the database does not fail, though rows may be unreadable (section 3 has the
  traces that need the opposite);
- `Tasks = {t}`: one caller, for what is said of the moments between calls.

`MemoryEngineProofs`.  `TypeOK` and `DatabaseReopens` are not inductive: to
see that the mark on an old version keeps the chain acyclic one must know that
the new version was generated after it, and to see that an update is typed that the
ids it collected are ids.  `IInv` therefore adds: rows are written for issued ids only; a
successor is a younger row that exists; `embeddings` are exactly the rows; every job is
typed and its target, its batch and its group are older than the id it is writing.
The proof has lemmas for the three SQL statements (`DeleteOK`, `SupersedeOK`,
`InsertOK`) and for steps that only move a call (`MoveOK`, `ReturnKeepsIInv`), then one
step per action.

- `Invariance`: `Spec => []IInv`;
- `TypeCorrect`, `AlwaysReopens` (`DatabaseReopens`);
- `NoCycles` (`ChainsAcyclic`): the greatest id of a set of rows has its successor
  outside of it, because successors are younger.  `find_superseded_chain` stays
  within the number of rows.

`SettledProofs`.  What follows about deletion needs a fact `IInv` does not have: a row that is
gone does not come back.  `Settled` says it through the ids in flight (`Drafts`): an id whose
row is still to be written is in no table, in no index and in no other call, and no two calls
store the same one.  Every step is put into one of a few shapes first (`Draws`, `Writes`,
`MovesOn`), and the invariant is proved for the shapes (`AlwaysSettled`).

The second half of the module is about what a call that ended has left behind.  `Tidy` says
of every call that the id it has removed or taken back is in no row, in no vector and in
no call that could still write it (`Traceless`); that no row points at an id that may be
taken back, so the foreign key does not stop a compensation; and that what is active is indexed.  Again every
step is first summed up (`Changes`), and `Tidy` proved from that.

- `FailedWritesLeaveNothing` (`FailedWriteLeavesNothing`), assuming `NoReconciliation`;
- `ForgottenAreGone` (`ForgottenStaysGone`), with `Canonical` and `~EarlyReads` too;
- `ActiveAreSearchable` (`ActiveIsSearchable`), assuming `NoReconciliation`, `Canonical` and
  `~SqlFails`.

`VersionProofs`.  `VersionInv` adds what a call may report: an update that was told Ok has
its target superseded by its own version, and that never changes.

- `OneWinner` (`OneWinnerPerVersion`);
- `SupersededForGood` (`SupersessionIsFinal`) and `HistoryImplemented`
  (`ImplementsVersionHistory`: every step is one of `VersionHistory` or none), without
  compression;
- `SuccessorsOutlive` (`SuccessorOutlives`), without compression and with `ExpiryKept`: an
  update carries what is left of its target's expiry from the read to the row it writes
  (`Outliving`), and the clock only moves on in between.

The chain walk is in the same module.  `WalkOK` says of every version read that it points at the next one, that
the next is younger, and that the k-th one has at least the k-th id; from the last it follows
that the guard trips, and answers `Internal`, only after that many versions were written.

- `WalksTyped`, `ChainsInOrder` (`ChainInOrder`);
- `WalksReachNewest` (`ChainReachesNewest`), without compression: a version
  that is still there still points where the walk saw it point, by `SupersededKept`, and a
  successor is deleted only with or after all that point at it.

`RecallProofs`.  A recall only stutters for the storage core (`CoreUnaffected`), so its
theorems hold beside recalls (`ReopensWithRecalls`).

- `EveryAccessCounts` (`NoAccessLost`) and `PromotionIsExact` (`PromotedExactly`) follow from an
  invariant of a single row's columns (`SoundUsage`), which needs both: the promotion is
  right only if the count is;
- `NothingGoneIsFound` (`NothingBarred`) needs `Settled`: what was forgotten cannot be a
  row again, and what was superseded or expired stays so (`UnwantedForGood`);
- `CountsItself` (`ReturnsOwnAccess`), `AccessNotBeforeCreation` (`AccessClockSane`);
- `FindsActive` (`FindsWhatIsThere`), under the assumptions of `ActiveAreSearchable`: what is
  owed to a recall is in nobody's hands any more, so it stays indexed while it is active,
  and the hits, and the items, are all there are or as many as there may be (`Finding`).

The methods of `Queries` read states:

- `QueriesAgree` (`StaleAgree`) follows from the soundness of rows and of their columns;
- `CountsNeverFall` (`StatsNeverFall`) needs to know what a step does to a row: `RowHistory` of
  `SettledProofs` for the storage core (a row that stays keeps its expiry, and is not
  restored), and for recalls that the promotion leaves every level but Inferred alone.
  The sets counted then only gain members (`RowsProgress`, `CountGrows`).

`DriftProofs`.  `DriftIsReported` is about the moments between the calls of one caller; in the
middle of a call index and table do differ.  `DriftInv` says by how much, for every section of
every call: by the vector of the row it has just written (`Missing`) and by those of rows it has
just deleted (`Stray`), unless something has failed and the call is about to replace the index
or to admit that it could not (`Repairing`).  When the call is over all three are empty.

- `SingleCallersDriftIsReported` (`DriftIsReported`), with `Tasks = {t}` and `Canonical`.
  Nothing is assumed of faults: SQL, embedder, insert, delete, replace and the process may fail in
  any combination, and reconciliation is in the proof.

`PartsProofs`.  In `Migrations`, `MigrationInv` has two halves.  Of the file: what is recorded
has happened.  Of each connection: what it read is still true while it holds a lock, since at most
one connection has the file reserved (`OneWriter`) and a commit waits until nobody reads;
and the migrations before the one it is at are recorded.

- `MigrationsTyped`, `RecordAlwaysTrue` (`RecordIsTrue`), `OpenIsMigrated`
  (`OpenMeansMigrated`).

The other three parts of that module keep sequences, and rest on lemmas about sorting
(`Arrangement`, `SortedHits`, `SortedNumbers`): a finite set with a strict total order can be listed in that
order, since every element has the place that the number of its predecessors says.  The argument counts, so
no induction over data is needed.  The modules use `Sorted` because the community modules' `SetToSortSeq`
rests on an operator of `TLC` that has no definition to expand.

- `SearchesFindTheBest` (`HitsAreBest`): `StoreInv` says that the map is what the callers have been told, and the
  lemmas about sorting give a prefix of its entries in order.
- `SentencesSplitExactly` (`SplitsExactly`).  `SplitsExactly` speaks of the moments
  between calls.  `SentenceInv` holds within the loop too: the buffer has reached an end `c` of the text
  (`Reached`), has returned every piece up to it, and holds the text after some `t`, with nothing but
  whitespace from `c` to `t`; the ends after `c` are the boundaries of what it holds (`Open`).  A piece
  up to an end is never blank, as it has the stop in it, so `Rank` counts the sentences.
- `ClusteringIsGreedy` (`ClustersAreGreedy`).  `GreedyInv` says of every cluster that its head is an
  anchor, that its members are similar to it and to no earlier anchor, that clusters are disjoint, and that
  an entry in none is similar to no anchor so far.  `SummaryInv` says that the text being built has the
  contents of the members visited (`Building`), which a cut keeps unless the summary is full.

`MaintenanceProofs`.  `OneLoop` proves `AtMostOneLoop` assuming `~Overlapping`, exactly
the assumption whose absence `maintenance_overlap` refutes; its invariant says that a
live loop or an awaiting handle keeps the flag set or is the only one engaged.
`ShutdownFrees` proves `ClosedMeansStartable`, and `TypeCorrect` the types, for overlapping
starts too.

`StreamIngestorProofs`.  The four safety properties follow from one invariant.  Its
heart is `Kept`: as long as nobody cancels and nothing panics, the accepted chunks
are those stored, reported, queued or under way; and `Ended`: a task that ended
uncancelled has an empty queue and no sender left, which closes the gap between its
end and the moment `finish` returns.  `Ordered` carries the order of each sender's
chunks from `sent` through the queue and the task to `persisted`; `Prompt` says that the
arm of the select is entered anew after every chunk.

- `FinishIsComplete` (`FinishDrains`), `ReportAdds` (`ReportAddsUp`), `StoredInOrder`
  (`InOrder`), `PromptStop` (`StopIsPrompt`).

Model-checked only: the liveness properties, since fairness and ENABLED are out of the prover's reach
(`ExpiredRowsLeave`, `EveryCallReturns`, `ShutdownReturns`, `LoopEndsWithEngine`, `SendersReleased`,
`OwnerReturns`, `OpenedInTheEnd`).

## 5. Not modelled, and what is left

Not modelled: the embedder (a pre-trained model behind a mutex, for the engine a call that
may fail); the arithmetic of ranking and of cosine similarity, which only decides which
hits come first; the decoding of rows (`engine.rs` 1249-1320), which may fail (`ReadFails`);
the policies `ExistingOnly` and `UpsertLocal` of `open_with_store_internal`, which nothing but
the crate's own unit tests passes; `error.rs`, the crate root, the empty `generic_http.rs` and
the examples, which have no state.

Next proofs: the index properties of several callers with reconciliation admitted while no
other call is under way; and the safety half of the liveness properties, that every section of
a call has a successor.
