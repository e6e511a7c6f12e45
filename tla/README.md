# Verification of GitNexus

GitNexus indexes a source repository into a LadybugDB knowledge graph and serves
queries about it over MCP, HTTP and a command line. This directory holds TLA+
modules of its concurrent and failure-prone parts, TLC configurations that check
them on small instances, and TLAPS proofs about them for every instance. Paths
below are relative to `gitnexus/src/` unless they start with another directory.

Run from this directory: `tlc -config MCFetch.cfg MCResilientFetch` checks a
configuration, `tlapm ResilientFetchProofs.tla` checks a proof module.

## The system

An analysis (`core/run-analyze.ts`) runs the twelve phases of the ingestion
pipeline. The parsing phase hands the files to worker threads. The graph goes to
the repository's LadybugDB directory, and the repository into a global registry.
The query layer (MCP backend, HTTP routes, CLI tools) reads the database through
a connection pool. The HTTP server also starts analyses in child processes and
embedding runs in its own process. Calls to embedding services, language models
and the web backend go through a circuit breaker with retries.

| component | state | operations | interacts with | what is hard | what makes it correct |
|---|---|---|---|---|---|
| connection pool, `core/lbug/pool-adapter.ts` | `pool`, `dbCache` with reference counts, per entry connections, `checkedOut`, waiters | init with lock retries, execute (checkout, wait, check in), timeouts, LRU eviction, idle sweep, close | MCP backend, group sync, wiki, augmentation, embedder | awaits between look-up and registration, queued callers with timers, close while queries run | connections conserved, exclusive and handed over; shared databases counted |
| circuit breaker, `resilientFetch`, `withRetry`, HF download (`gitnexus-shared/src/integrations/`, `core/embeddings/hf-env.ts`) | breaker state, failure count, permit; per call its attempt | check, record success / failure / neutral; attempt, sleep, retry | embedding HTTP client, wiki LLM client, web client, embedders | calls admitted before a trip end after it | permit never lost, recovery, bounded retries |
| parse worker pool, `core/ingestion/workers/worker-pool.ts` | job queue, worker slots, `activeWorkers`, results, sticky failure | dispatch, messages, idle timeout with split or retry, replacement, fail, terminate | `parsing-processor.ts`, `parse-impl.ts`, `parse-worker.ts` | timers against messages, workers replaced while peers fail | no file lost or twice, dispatch settles, no thread leaks |
| server jobs, `server/analyze-job.ts`, `analyze-worker.ts`, `api.ts` | jobs, child processes, retry timers, locked paths | post, cancel, timeout, worker messages and exit, retry, embed, delete | child running the analysis, LadybugDB adapter, MCP backend | callbacks on jobs that are already over; a lock released by several paths | one writer per index, slot and lock always freed |
| full analysis, `core/run-analyze.ts`, `core/incremental/`, `storage/file-hash.ts` | `meta.json` with hashes and dirty flag, database rows, vectors | early return, full rebuild, incremental write, embedding, finalise | registry, adapter, embedder, caches | a stop between any two steps, edits during a run, which rows to replace | metadata without the flag describes the database; an incremental write equals a rebuild; vectors survive |
| registry, `storage/repo-manager.ts`, `cli/remove.ts` | `registry.json`, each repository's `meta.json` | register, unregister, validating list, remove | every process of the user | read, await and whole-file write by several processes, a torn file | no alias given twice, nothing lost without a race or a crash, orphans pruned |
| session adapter, `core/lbug/lbug-adapter.ts`, `lbug-config.ts`, `extension-loader.ts` | one module-wide connection and database, session lock, FTS flag | `withLbugDb`, `closeLbug`, busy retries, extension load | analysis, server routes and embedding | close outside the lock, a database switched during a retry's sleep | each operation on its own database, no handle dead or leaked |
| embedding run, `core/embeddings/embedding-pipeline.ts` | embedding rows with content hashes | delete stale, embed in batches, index | adapter, embedder | failure between delete and insert | every row has a vector of its present content in the end |
| groups, `core/group/` | bridge database, backup, sidecars, `meta.json` | sync, staged swap, open with recovery | registry, pool | swap of several files against readers, writers and crashes | a published bridge is never lost nor replaced by an older one |
| phase runner, `core/ingestion/pipeline-phases/`, `core/ingestion/pipeline.ts` | results by phase | sort, run, report | every phase | a list edited without its dependencies | each phase after all it reads, the error names a cycle |
| scopes and imports, `gitnexus-shared/src/scope-resolution/`, `core/ingestion/scope-extractor.ts` | scope tree, position index, bindings | nest captures, look up positions, host declarations, link imports | captures of each language | cycles of files, re-exports that are renamed, scopes that touch or coincide | a name leads to the def the language would take |
| heritage and methods, `core/ingestion/model/`, `mro-processor.ts` | heritage map, method registry | order ancestors, look up, override and implementation edges | call resolution, graph | diamonds, cycles, mixins, overloads | the method a call would reach |
| other phases and languages | in-memory graph, syntax trees | parsing, types, calls, routes, ORM, communities, processes | worker pool, graph | volume, not concurrency | output, checked by tests |
| MCP backend, `mcp/local/local-backend.ts` | map of repository handles, initialised ids, staleness throttle | refresh, resolve, initialise, staleness check, tools | pool, registry | refreshes that interleave at every entry, ids that move, indexes rebuilt behind a pool | an answer comes from the repository that was named, and not from an index known to be older |
| MCP over HTTP, `server/mcp-http.ts` | sessions with a time of last use | open, request, close, idle sweep | MCP backend | sweep during a long request | sessions in use stay |
| wiki, search, augmentation, graph, netcore index, CLI, web UI, evaluation, deployment | local | sequential processing | pool, breaker | little | output, checked by tests |

`PROJECT.json` lists every part with what is modelled of it, and the hazards of
this code at the lines where they bite.

## The modules

| module | role |
|---|---|
| `ConnectionPool` | the pool; `MCConnectionPool` its instances; `ConnectionPoolProofs` its proofs |
| `CircuitBreaker` | the breaker's state and one operator per method, used by the next two |
| `ResilientFetch` | concurrent calls of `resilientFetch` sharing one breaker; `MCResilientFetch`, `ResilientFetchProofs` |
| `HfDownload` | concurrent `withHfDownloadRetry` calls over the same breaker; `MCHfDownload`; its proofs are in `ResilientFetchProofs` |
| `ParallelMap` | what the worker pool promises: an answer with every file once and in order, or a rejection |
| `WorkerPool` | the worker pool; `WorkerPoolRefinement` maps it to `ParallelMap`; `MCWorkerPool`; `WorkerPoolProofs` |
| `AnalyzeServer` | job manager, repository lock and the handlers that use them; `MCAnalyzeServer`, `AnalyzeServerProofs` |
| `AnalyzeRun` | one `analyze` after another on the disk state they share; `MCAnalyzeRun`, `AnalyzeRunProofs` |
| `Writeback` | what an incremental analyze rewrites, as functions on graphs; `MCWriteback` evaluates them on bounded inputs; its proofs are in `AnalyzeRunProofs` |
| `PhaseRunner` | the order of the ingestion phases, the error of a cyclic list and the run; `MCPhaseRunner` evaluates them |
| `ScopeExtraction` | the scope tree of a file, positions, hosts of declarations and chains of type names; `MCScopeExtraction` |
| `FinalizeImports` | linking of imports over all files and the merging of bindings; `MCFinalizeImports` |
| `MethodResolution` | heritage map, ancestor orders, method lookup, override and implementation edges; `MCMethodResolution` |
| `BridgeSwap` | the staged swap of a group's bridge database; `MCBridgeSwap`, `BridgeSwapProofs` |
| `Registry` | several processes on one `registry.json`; `MCRegistry`, `RepositoryProofs` |
| `McpRepos` | repository map, staleness check and pools of an MCP server; `MCMcpRepos`, `RepositoryProofs` |
| `LbugSession` | the process-wide LadybugDB session, its lock and its retries; `MCLbugSession`, `LbugSessionProofs` |

An action is a run of the event loop from one await, callback or message to the
next, because nothing else runs in between in Node. In each module some definitions are
marked as mutants: plausible faults of the definition that follows them, which
`PROJECT.json` pairs with the property that notices them.

### ConnectionPool

`pool`, `dbCache`, `available`, `checkedOut`, `waiters`, `closed` and `age` are the
variables of the module; `init` holds the program counter of each `doInitLbug`;
`call`, `onEntry`, `onConn` where each query is. Pool entries are incarnations, so a
query can hold a connection of an entry that was closed and initialised again.
`openDbs` and `openConns` are what the native library has open. Times are ticks.
`Events` selects what the environment does: a query or a waiter timing out, callers
that close, and two ids on one path initialising at once.

Not modelled: `initLbugWithDb` (used by tests only), the FTS flags and the Windows
guard, stdout silencing, and a `createConnection` that throws after the reference count
was raised: the native call is taken to succeed on an open database.

### CircuitBreaker, ResilientFetch, HfDownload

The breaker is `state`, `consecutiveFailures`, `probeInFlight` and the rest of the
cooldown in ticks. A call is idle, in an attempt or asleep. `SlowCalls` says whether a
call may outlast a cooldown; the proof about solo probes assumes it cannot. A download looks at the
breaker before its first attempt and after a failure, never before a retry. `met` is history:
how many failures each has met on the open circuit since it tripped. The backend is healthy or
not, and changes. Which HTTP result is success, failure or neutral
follows `classifyOutcome`; header parsing and delays are left out.

### WorkerPool

Each file is a number, a job an interval of files with its attempt count. `run` and
`job` are the slot's closure state, `thread` and `told` the worker thread's. The byte
budget of `createJobs` may cut anywhere, so the model takes any cut into runs of at
most `MaxItems`. `Events` allows silent, failing and crashing workers and replacements
that do not start. A message that loses the race with the idle timer is one that was
never sent, as the timer removes the listeners.

`WorkerPoolRefinement` maps the pool to `ParallelMap`: what happens inside does not show
in what a dispatch answers. The answer is defined by rank: a line is a file of a result, a
result keeps its files in order, lines of different results are ordered by `startIndex`,
and the n-th line is the one with n - 1 before it. That is what the code's sort gives, without
a recursive definition that the prover could not use.

### AnalyzeServer

`status`, `retryCount` are fields of the analyze jobs; `cloning`, `retrying`,
`reloading` say which promise or timer of a job is pending; `child` is its worker
process (`working`, `erring` after an error message while it still runs, `leaving` after
its last message), `killed` that SIGTERM was sent. `lock` is `activeRepoPaths`. An
embedding job has `pipes`, the pipelines running for it. `deleting` are the DELETE
handlers inside their `try`. Handlers that release the lock do so whoever holds it.

Not modelled: the hold queue of `resolveRepo`, SSE delivery, read-only routes,
shutdown, expiry of embedding jobs, and messages a worker sends between its
error report and its exit other than progress and the result of the analysis.

### AnalyzeRun

The disk outlives a run: `meta` (`meta.json`), `rows`, `shared` and `emb` (the database:
file rows, communities and processes, vectors), `registered`. The locals of
`runFullAnalysis` are `opts`, `base` (`existingMeta`), `commit`, `cache`, `graph`,
`hashes` and `write`; `pc` names the await the run is at. Contents, hashes, rows and
vectors are version numbers of a file, so "row and hash agree" is an equation. `Abort`
stops a run between any two steps with any part of the current step done; `Edit` and
`Commit` are the user, also in the middle of a run. `DeleteRows` draws any further
files into the write set; which ones exactly is `Writeback`'s subject. `RestoreEmbeddings` puts cached vectors back in
batches whose failures nobody sees, for a key that is there or, with `restore_fail`, for any other
reason; with `dims` the embedding model has other dimensions and the whole cache is discarded.
Three variables are history: `spoiled`, a full rebuild stopped after its wipe, files changed between
parsing and hashing, or a fast run forgot files; `found`, the vectors the run read;
`unrestored`, the files a failed batch left out.

### Writeback

A graph is a function from node ids to rows and a set of edges, both for the
in-memory graph and for the database. Each function of the code is one operator:
`diffFileHashes`, `shadowCandidatesFor`, `queryImporters`, the importer search of
`runFullAnalysis` (four rounds, written out), `computeEffectiveWriteSet`,
`extractChangedSubgraph`, `deleteNodesForFile`, `deleteAllCommunitiesAndProcesses` and
`loadGraphToLbug`. `IncrementalWrite` and `FullRebuild` compose them as
`runFullAnalysis` does. A path is directories, a name with the number of `.d` it ends in, and an
extension, so that `.d.ts` is read as the code reads it. A query that fails during the search or a delete, which the
code skips, is not modelled.

### PhaseRunner

A list of phases is a sequence of names with the names they depend on. Kahn's queue, the search
for a cycle and the loop over the phases are recursive operators, one turn each. `CorePhases`,
`ScopeResolutionPhase` and `GraphPhases` are the phases with their dependencies, `ReadsOf` what each
asks for with `getPhaseOutput`.

### ScopeExtraction

A position is one number and a range two, since the code compares lines and columns
lexicographically everywhere. A capture is a range and a kind. The operators are the
passes of `extract` that decide structure: nesting with the stack, the invariants of
`buildScopeTree` in the order they are tested, the binary search of `atPosition`, hosts, strengths
of type sources and `followChainedRef`. Names with a dot, which are not followed, are left out, and so
are references and the captures that each language emits.

### FinalizeImports

A workspace is a sequence of files with their defs and imports. `resolveImportTarget` of the
language is part of the input (`targets`), `expandsWildcardTo` a parameter. `TarjanSccs` is the
iterative code written recursively; the closures of re-exports are computed pass by pass, with the
code's cap. `FinalizeDraft` takes the closures as they are, so one pass of the
code's fixpoint is all of it. Statistics are left out.

### MethodResolution

Classes are names, an optional number is a set of at most one member. `C3Step` is one turn of the
loop with its explicit stack and shared cache; tail counts are replaced by what they count.
`RubyOrder` lists the walk of the mixin strategy. The second half is `mro-processor.ts` on a
graph of classes with `EXTENDS`, `IMPLEMENTS` and methods. Implementor files, lookup by name
alone, reasons and confidences other than "sure" are left out.

### BridgeSwap

Every file is told apart by the sync that wrote it. Each rename and removal of
`writeBridge` is an action, main file and sidecars apart; `Recover` is the reader that
puts a `.bak` back. `Abort` is a crash, an error or a rename refused as busy. `raced` is
history: a reader recovered into a swap in progress.

### Registry

`file` is `registry.json` or `Torn` while it is being written; `entries` is the list a
process has read, or computed and not yet written. Registration, removal and validating
listings share the actions `Read`, `Validate`, `Truncate` and `Write`, as the code
shares `readRegistry` and `writeRegistry`. `Crash` stops a process anywhere. The list is a
set of entries, since nothing that is modelled depends on their order. The module's names differ from those of
`McpRepos` (`registryVars`, `RegistryInit` and so on), so that one module can prove about both.

### McpRepos

`repos`, `initialized`, `throttled` and `reinit` (for each id the call whose promise it is) are the
fields of `LocalBackend`. Of the pool adapter there are `pool`, the database each id is open on, `cached`,
which is `dbCache`: the database open on each path and how many ids share it, and `opening`, which is
`initPromises`: how far `doInitLbug` is for an id. It looks for the file and for a database that is open on
it (`Look`), opens one (`OpenDatabase`), shares it (`ShareDatabase`) and enters it (`EnterPool`), with an await
between each two, in which an analysis may rewrite the index and another call may join. A handle is an
object: a call that checks one sees the date another sets on it, while a refresh puts a new object into the
map; its `mark` says which object of the id it is. The registry and the entries of a refresh are
sets, and a refresh takes them in any order, which covers the order of the file. A call goes through `read`, `apply`
(once per registry entry, with an await each), `ensure`, `wait` (for another's reopening), `check`,
`reopen`, `open` and `query`. `Analyze`, `Register` and `Remove` happen in other processes at any moment.
`masked` is history: the ids that may be open on an index older than their handle says. A refresh
dated the handle past the database, a reopening joined an opening that had its database already
(`pool-adapter.ts:326`), or an opening was given the database another id has open on the path, however old
(`pool-adapter.ts:355`). It lasts until the id opens the database itself.
`FreshAnswer` is about the repository the staleness check looked at, which is the handle's;
that this is the one that was asked for is `RightRepository`.

### LbugSession

`conn`, `db`, `path`, `fts` are the module's variables, `queue` the chain of promises
behind the session lock. `safeClose` is three steps, because flushing, closing the
connection and closing the database are awaited one by one, each with the
module's variables as they are by then. `CloseLbug` takes the same steps without the
lock. A request that finds the database busy closes it inside the lock, leaves the
queue, sleeps and queues again.

## What is checked

| run | instance | shows |
|---|---|---|
| `pool_checkout` | one repository, two connections, four calls, timeouts and closes | `Conservation`, `ExclusiveCheckout`, `NoIdleConnWhileWaiting`, `NoConnLeak`: connections are counted, exclusive, handed over and closed |
| `pool_live` | two repositories on one path, capacity one, three calls, fairness | `RefCountExact`, `DbOpenWhileHeld`: the shared database is closed with its last user and never under a query; `NobodyStuck`: initialisations end and waiters are served |
| `fetch` | three calls, threshold 2, cooldown 2, slow calls, fairness | `PermitHeld`, `Recovers`, `CallEnds`: the half-open permit comes back, the breaker closes again, every call ends |
| `hf_download` | three downloads, three attempts, fairness | `OneFailureWhileOpen`: retries that were asleep when another download tripped the circuit meet it once each and no more; `DownloadEnds` |
| `workers` | two workers, two dispatches of three files, all faults, fairness | `AnswerComplete`, `ImplementsParallelMap`, `DispatchSettles`, `NoThreadLeak` |
| `server_live` | two jobs, one embedding job, two repositories of which one is asked for, one retry, all hazards, fairness | `SlotFreed`: the single slot is never stuck; `JobsSettle`: every job comes to rest |
| `server_locks` | three jobs, two embedding jobs, two repositories, crashes and expiry | `WritersExclusive`, `LockMeansActive` |
| `analyze` | two files, two versions, one edit, one abort, five option sets, caches that cannot be read, batches that fail, dimensions that change, fairness | `TrustedMeta`, `Repaired`; `GeneratedAll` and `EmbeddingsKept`: every file is embedded and every vector kept but for what a failed batch or new dimensions take; and the assumptions of `MCWriteback`, `MCPhaseRunner`, `MCScopeExtraction`, `MCFinalizeImports` and `MCMethodResolution` |
| `bridge` | one writer, two readers, three syncs, two faults | `NeverLost`, `Published`, `Paired`, `NeverOlder` |
| `registry` | two processes, two repositories of one name, three operations, one crash, fairness | `RegistryTypeOK`: entries keep their shape; `AliasUnique`, `NothingLost`, `OrphansPruned` |
| `mcp_repos` | two calls, two repositories of one name, two analyses, listings and removals | `TypeOK`, `RightRepository`, `FreshAnswer`, `OwnId` |
| `session` | two requests, one closer, two databases, fairness | `RightDatabase`, `SessionIntact`, `HandlesSane`, `RequestEnds` |

Types are checked in the runs of `Registry` and `McpRepos` and proved of every state machine. Deadlock is checked in every run but
`bridge`: with its bounded syncs and faults spent and nothing to open, a group may
come to a stop.

`MCWriteback` states what its functions compute as assumptions, which TLC evaluates
with the run `analyze`: on all import graphs of three files and on rows and rings of
six the search finds exactly the importers within four imports; on all pairs of graphs
of two files and a community, an incremental write equals a rebuild exactly when the
graphs agree away from the files written and deleted; the barrel example of
`subgraph-extract.ts` needs, and gets, the unchanged importer in its write set.

The modules on phases, scopes, imports and methods are functions too, and their assumptions,
each with a comment of its own, compare them with definitions that say what
is wanted and not how it is found:

* `MCPhaseRunner`, all lists of three phases: a list is refused exactly when it has a cycle, the
  cycle in the message is one, a phase runs with the outputs of all it depends on; under all options every
  phase is given what it reads, and what parsing accumulated is disposed of after its last reader.
* `MCScopeExtraction`, all lists of few captures on a short file: extraction accepts exactly what nests, a
  position leads to its innermost scope, comparing neighbours finds every overlap of scopes that are
  not empty, chains of type names are followed to their end unless they are cycles.
* `MCFinalizeImports`, all import graphs of three files and sparse ones of four, re-export chains over three:
  components are maximal and in order, a file offers exactly the names that some chain leads to, an import is
  linked exactly when its target defines or offers the name, merging one by one equals merging at once.
* `MCMethodResolution`, hierarchies of three and four classes: an order is found exactly when one exists that
  keeps its constraints, the shared cache changes no answer, a call finds a method when there is one,
  the edges agree with the calls where classes only extend, what implements a method is concrete and at
  or above the class.

Four classes give a diamond with a bottom, three files a cycle with a way out, and two scopes in a
module siblings and nesting; larger shapes are compositions of these. Other assumptions are examples of
a hazard, or record a divergence (below).

### Bounds and why they are enough

* Pool: two connections and four calls let a hand-over, a timeout and a new caller
  race on one queue while another connection is still out. Two ids on one path tell the
  last user of a shared database from another; the proof covers any number. One lock retry
  distinguishes retrying from giving up; the proof covers any number.
* Breaker: threshold 2 and cooldown 2 separate counting from tripping and
  partial from complete cooldown. With three calls one can probe, one can end
  late and one can be refused. With three downloads two can be asleep while one trips the circuit.
* Worker pool: three files in jobs of at most two files give jobs that split, jobs
  that retry and a queue that is longer than the slots once something was
  requeued. Two dispatches let a second one meet the first one's leftovers.
* Server: two jobs meet in the slot, three let a third meet the remains of two. One retry
  tells "one more" from "exhausted"; `server_locks` has the two of the code. The constraint
  `OneBusyRepo` leaves the second repository of `server_live` only to embedding requests that
  are refused because the first is being embedded.
* Analyze: two files separate rewritten rows from rows left alone, two versions and
  "absent" give changed, added and deleted files, one abort and one edit are followed
  by any number of runs. The proofs cover any number of each.
* Bridge: the third sync finds what the second left of the first's backup; two faults
  break a swap and the sync that should repair it.
* Registry: two repositories with one default name and an alias let two registrations
  choose the same name; three operations let a third see what a race or a crash left.
* MCP: two repositories of one name compete for the plain id; two analyses give an
  index, its successor and a handle that knows only the first, pools that open on the older one while it is
  rewritten, and calls that join them. That an id is given the older database of another and finds it out
  takes three analyses: with one call and `MaxVersion = 3`, `FreshAnswer` without that exception is violated.
  Two calls and three analyses at once are beyond a run of minutes; the proof covers any number.
* Session: two databases and two requests switch under each other's retries; two
  retries (three in the code) separate repeating from giving up; the proof covers any.

Bounds appear as constants. `MaxAge`, `MaxDispatches`, `MaxPipelines`, `MaxVersion`,
`MaxAborts`, `MaxEdits`, `MaxSyncs`, `MaxFaults`, `MaxOps`, `MaxCrashes` and `MaxCloses`
cap what the code does not cap; the others are constants of the code.

### Fairness

Weak fairness is assumed only of what the runtime guarantees: settled promises and
expired timers get their turn, native calls and child processes end (or their timers
end them), a worker that was told to terminate exits. Crashes and cancellations are never fair,
and requests in one place only: `Recovers` is about a breaker that calls go on asking, since an
idle one stays half-open for good, so a call of `ResilientFetch` starts again some time. `CallEnds` and `DownloadEnds` rely on bounded attempts,
`DispatchSettles` on bounded splits and retries, `JobsSettle` on counted retries:
their mutants drop exactly that count. `Repaired` assumes that `analyze` is run again
where the index is not up to date, as the hooks and the agents' instructions ask;
`OrphansPruned` that repositories are listed again, as an MCP server does on each miss.

## Where the code does not keep what it says

The regular runs check what the code keeps; what a comment, a document or a careful
caller would expect beyond that is stated in the modules as well. The following
configurations exhibit where the code does not keep it. They are not among the runs above: each is
there to be run by hand, checks one property, and TLC finds it violated:

| configuration (module) | property | what happens |
|---|---|---|
| `MCPoolSharedPath` (`MCConnectionPool`) | `OneDbPerPath` | two ids on one path both miss `dbCache` and open it twice |
| `MCFetchProbes` (`MCResilientFetch`) | `OneProbe` | a late call's outcome releases another call's half-open permit |
| `MCAnalyzeRebuild` (`MCAnalyzeRun`) | `UpToDateMeansIndexed` | a full rebuild wipes the database without the dirty flag; stopped there, the old `meta.json` is believed (`repo-manager.ts:90`, `GUARDRAILS.md:38`) |
| `MCRegistryLost` (`MCRegistry`) | `RegistrationKept` | of two overlapping registrations one is overwritten (`repo-manager.ts:537`) |
| `MCMcpRemoved` (`MCMcpRepos`) | `AlwaysRightRepository` | a removed repository's pool stays open under an id that another repository is given (`local-backend.ts:280`) |

More follow from these files with a few lines changed, the properties of a file replaced by the one named:

| start from | change | violated | what happens |
|---|---|---|---|
| `MCPoolCheckout` | invariant `OneQueryPerConnection` | `OneQueryPerConnection` | a timed-out query's connection is checked in and reused while the native query still runs on it |
| `MCPoolSharedPath` | `MaxPoolSize = 1`, invariant `PoolBounded` | `PoolBounded` | overlapping initialisations, or a pool of busy entries, exceed `MAX_POOL_SIZE` |
| `MCFetchProbes` | property `CooldownRespected`, no symmetry | `CooldownRespected` | a late success closes the breaker during its cooldown |
| `MCFetchProbes` | property `EachAttemptTimed`, no symmetry | `EachAttemptTimed` | later attempts reuse the first attempt's timeout signal |
| `MCHfDownload` | invariant `OneDownloadProbes` | `OneDownloadProbes` | downloads never ask `check`, so none is held back when the circuit is half-open |
| `MCWorkers` | invariant `ProgressHonest` | `ProgressHonest` | an arriving result is counted twice in the reported progress |
| `MCWorkers` | property `FirstFailureReported` | `FirstFailureReported` | the exits of terminated workers replace the failure that later dispatches are rejected with |
| `MCServerLocks` | `Events = {"cancel"}`, invariant `SingleSlot` | `SingleSlot` | a job cancelled while cloning comes back to life beside its successor |
| `MCServerLocks` | `Events = {"slow_init"}` | `WritersExclusive` | a worker that exits before `backend.init()` is done is taken for a crash and forked again |
| `MCServerLocks` | `Events = {"embed_timeout"}` | `WritersExclusive` | the embedding timeout unlocks a repository its pipeline still writes |
| `MCServerLocks` | `Events = {"embed_busy"}` | `LockMeansActive` | a refused embedding request leaves its repository locked for good |
| `MCAnalyzeRebuild` | invariant `UpToDateRegistered` | `UpToDateRegistered` | a stop between `saveMeta` and `registerRepo` leaves an index that is up to date and never registered |
| `MCAnalyzeRebuild` | `MaxAborts = 0`, `MaxEdits = 2`, `Options <- PlainOptions` | `UpToDateMeansIndexed` | uncommitted edits are indexed under the commit of HEAD; after they are reverted the index is "already up to date" (`run-analyze.ts:427`) |
| `MCAnalyze` | invariant `EveryFileEmbedded` | `EveryFileEmbedded` | vectors whose restoration failed count as present, by the hashes of the cache, and are not computed again (`run-analyze.ts:932`, `embedding-pipeline.ts:310`) |
| `MCAnalyze` | invariant `NoVectorLost` | `NoVectorLost` | a failed batch, or a cache of other dimensions, loses vectors that the wiped database had (`run-analyze.ts:917`) |
| `MCAnalyzeRebuild` | `MaxAborts = 0`, `Options <- DropOptions`, invariant `DropWipes` | `DropWipes` | an incremental run with `--drop-embeddings` leaves the vectors in the database (`run-analyze.ts:499`) |
| `MCAnalyzeRebuild` | the same, invariant `NoOrphanVector` | `NoOrphanVector` | `deleteNodesForFile` looks for vectors whose node id starts with the path, but ids start with a label (`lbug-adapter.ts:1257`) |
| `MCBridge` | `LiveSpec`, no symmetry, property `Recovered` | `Recovered` | the impact query looks for the database before it calls the function that would put the backup back (`cross-impact.ts:356`; `test/unit/group/bridge-db-edge.test.ts:48` tests that function alone) |
| `MCBridge` | invariant `AlwaysPublished` | `AlwaysPublished` | a reader puts the backup back under a writer about to publish (`bridge-db.ts:674`) |
| `MCBridge` | invariant `AlwaysPaired` | `AlwaysPaired` | a sidecar's refused rename is swallowed (`bridge-db.ts:597`) |
| `MCBridge` | `Writers = {w1, w2}` | `NeverLost` | two syncs of one group move each other's backup away (`bridge-db.ts:381`) |
| `MCRegistryLost` | `Procs = {r1}`, `MaxCrashes = 1` | `RegistrationKept` | a file torn by a crash is read as an empty registry and written back |
| `MCMcpRemoved` | invariant `RebuildServed` | `RebuildServed` | `list_repos` refreshes the handle that the staleness check compares with (`local-backend.ts:472`) |
| `MCMcp` | a third path `p3` in `Paths`, `Suffix <- OneSuffix`, `MaxVersion = 3` | `OwnId` | two paths whose encodings share six characters get one id (`local-backend.ts:349`) |
| `MCMcp` | `Events = {"list", "overlap"}` | `OwnId` | two refreshes of the map run into each other |
| `MCSession` | invariant `SessionUndisturbed` | `SessionUndisturbed` | `closeLbug`, which takes no lock, closes the connection under a running operation (the comment at `lbug-adapter.ts:182` says no switch can happen then) |
| `MCSession` | invariant `NothingLeaked` | `NothingLeaked` | the last assignment of `closeLbug` forgets a database that a request opened meanwhile |

`RebuildServed` has two more ways to fail, the other exceptions of `FreshAnswer`: a reopening that joins an
opening which had its database before the index was rewritten (`pool-adapter.ts:326`), and an opening that
is given the older database another id holds (`pool-adapter.ts:355`). `MCMcp` shows the first when `CheckStale` leaves
`masked` alone; the bounds above say what the second takes.

`MCFetch` with `SlowCalls = FALSE` and the invariant `HalfOpenSolo` passes: without calls that
outlast a cooldown a half-open breaker admits one at a time.

Five assumptions of `MCWriteback` record where an incremental write differs from a
rebuild. Folders are nodes with a path, and no hash names them: a file that is the first
in a directory two levels of which are new leaves the upper one out (`NewDirectoryLost`),
and directories of deleted files stay (`OldDirectoryStays`). The nodes of ORM models have
an empty path and are not graph-wide: a new one is not written (`NewModelLost`). A route or a tool has an
id made of its URL or name and the file that declares it first; when a new file takes it over from
one that does not change, the load meets the old row and leaves it (`MovedRouteStays`, `routes.ts:153`,
`tools.ts:89`). `middleware.ts` is written into the rows of routes in other files, which a change of it does not
draw in (`MiddlewareStays`, `routes.ts:184`).

Assumptions of the other function modules record, likewise, what the code computes where a comment
or a careful reader expects something else:

| assumption | what happens |
|---|---|
| `SecondCycleCounted` | a second cycle is reported as dependents that are blocked (`core/ingestion/pipeline-phases/runner.ts:79`) |
| `ListOrderMatters` | scope resolution runs before the graph phases only because of the order of the list, which is said not to matter (`runner.ts:144`) |
| `ParentIsInnermost` | a scope's parent is the innermost around it; the comment says the outermost (`scope-extractor.ts:329`) |
| `EndStillInside` | the position where a scope ends belongs to it, although siblings are compared with open ends (`scope-tree.ts:277`) |
| `EmptyHidesOverlap` | an empty scope between two hides their overlap (`scope-tree.ts:16`) |
| `DeclaredAround` | a declaration is bound inside its own body when a scope in there starts where it starts (`scope-extractor.ts:497`) |
| `OuterScopesFirst`, `OwnNameStops` | type chains depend on the order of scopes; `a = a` hides the outer type |
| `RenamedChainCut` | passes over a cycle are capped at one more than its files, which a chain that renames around the cycle needs more than (`finalize-algorithm.ts:549`) |
| `WildcardWinsInCycle` | within a cycle a wildcard can win over a named re-export, by the names of the files (`finalize-algorithm.ts:552`) |
| `WildcardTakesFirst` | a wildcard takes the first def of a name, a direct import the function (`finalize-algorithm.ts:752`) |
| `TwiceRefused` | a class that both extends and implements another has no C3 order |
| `DepthLimited` | the walk stops at 32 levels, C3 does not |
| `ExtendLeaks`, `ExtendHides` | Ruby: what an `extend`ed module inherits is found for instances, and an `extend`ed module that the superclass includes is not (`resolve.ts:389`) |
| `RubyDisagrees` | of two included modules the override edge names the first, the call takes the last |
| `ClassWins` | an interface reached through the base class counts as a class (`mro-processor.ts:730` knows it) |
| `OverloadsCollide` | two overloads of one ancestor count as a collision of two (`mro-processor.ts:268`) |
| `SelfEdge` | a class that implements what its base extends makes a method implement itself (`mro-processor.ts:576`) |

## What is proved

The theorems hold for every value of the constants that the modules' assumptions
allow. Each invariant below is inductive: the initial states satisfy it and every
action preserves it, with one lemma or step per action.

**ConnectionPoolProofs.** `PoolInvariant` proves `[]IInv`. `Conservation` and
`NoIdleConnWhileWaiting` alone are not inductive: a check-in must know that the waiter it
hands over to is really waiting on that entry, once (`QueueShape`), that calls hold
connections of the entry they name (`CallShape`), and that initialisations have fresh
entries (`EntryShape`). From `IInv` follow `PoolTypeCorrect`, `PoolConservation`,
`PoolExclusive`, `NoLostWakeup` and `PoolNoLeak`. Assumed: finite sets of repositories,
connections and calls, and natural-number bounds.

`PoolRefCountExact` and `PoolDbOpenWhileHeld` are about the databases that several repository ids
share by their path. `RefCountExact` alone is not inductive: `CacheInv` adds that a path has one
initialisation at a time, that this one opens a database only while nobody counts on the path, that
whoever counts on a path has entries on its cached database, and that no two paths have one database.
`CloseCache` is the step for everything that closes entries, several at once: it
computes how many references go and shows that a database is closed exactly with its last user.
From there `HeldInv`, that a call which holds a connection holds one of a registered entry, gives
`DbOpenWhileHeld`: eviction and the idle sweep only take entries whose `checkedOut` is zero, and
`IdleEntry` derives from `Conservation` and `ExclusiveCheckout` that nobody holds a connection of those. Both
theorems exclude `overlap`, two initialisations on one path at once, because `initPromises` is keyed by
repository id and the code breaks the count then (`MCPoolSharedPath`). The second also excludes
`close`, since `closeLbug` closes an entry without looking at `checkedOut`.

**ResilientFetchProofs.** `FetchTypeCorrect` bounds attempts and counters.
`PermitNeverOrphaned` proves `PermitHeld`. `HalfOpenAdmitsOne` proves `HalfOpenSolo` from
`SlowCalls = FALSE`; `Recovering` is the strengthening: no call is in flight when a
cooldown ends, so the first call of the half-open state takes the permit.
The module also extends `HfDownload`, whose names differ for that reason: `DownloadTypeCorrect` bounds
the attempts of a download and `OpenCircuitMetOnce` proves `OneFailureWhileOpen`. Its invariant `MetInv` adds
that who has met the open circuit has ended, and that the count is zero whenever the circuit would let a
download start.

**AnalyzeServerProofs.** `SlotNeverStuck` proves `SlotFreed` for all hazards, by types
alone. `LockExcludesWriters` and `LockNotLeaked` assume `CrashesOnly`: workers crash, fail
or finish and jobs expire, but nothing is cancelled, times out, overlaps or reloads
slowly. Each excluded event breaks one of them, as the configurations above show or the
hazard list says. The invariant `LockInv` ties every job's status to what is under
way for it (`JobsSane`), every embedding job to its one pipeline, and every held lock to
one holder in both directions (`LockHeld`, `HoldersExclusive`, `LockUsed`).

**WorkerPoolProofs.** `NoFileLostOrDoubled` proves `FilesConserved` and `NoEarlyAnswer`
proves `AnswerComplete`, for any number of workers and files, any cut into jobs and all
faults; `WorkersTypeCorrect` proves `StateTypeOK`. `AnswerComplete` needs to know that the
slot which brings `activeWorkers` to zero is the last one with anything to do. That is
`ActiveOK`: the slots that run a job or replace their worker are never more than
`activeWorkers` says. With `Conserved`, an empty queue and no other busy slot then leave
only the results for every file. `PutBack` is the step for split and retried jobs,
`HandIn` the one for results and finished replacements, `StartPlaces` the one for
`createJobs`.

`PoolIsParallelMap` proves the refinement, `ImplementsParallelMap`: every step of the pool is a step of
`ParallelMap` or does not show. It has two parts. `AnswerInOrder`: the results of a resolved dispatch do
not overlap and cover the files, so that a line precedes another exactly when its file does, the lines
before that of file n are n - 1 (`CountLines`, by a bijection), and the sorted answer is the
files in the order of the input. `FailureInv`: what runs belongs to a pool that works, what has
stopped without an answer has failed, and a pool that works and runs nothing has idle slots only, so
that a late message of an earlier dispatch cannot answer or fail the next.

**AnalyzeRunProofs.** `MetaTrusted` proves `TrustedMeta`, for any files, edits, options and
aborts. The invariant `MetaInv` says of each phase what the rows already agree with: while
the database is being rewritten `meta.json` is dirty or the history says it is spoiled;
before that it is what the run read; after the load rows and hashes agree. `AllGenerated`
and `KeptEmbeddings` come from `EmbedInv`, which relates vectors, cache, what was found and what was not restored
from the moment the cache was read. Neither assumes that restoring works: both name what it can lose.

The same module proves about `Writeback`. These are facts about graphs of any size, without any state. `SearchLosesNothing`:
asking only for the importers of newly drawn in files gives what asking for all again
would; `Asked` is what a round keeps. `LoadMeetsOnlyMoved`: the ids the bulk load meets are exactly the routes
and tools that moved from a file left alone to one it writes, and the edges it meets end at these; the ids of
all other nodes name their file, every id its label, and the edges of a database join its nodes. `IncrementalIsRebuild` and `AnalyzeIsRebuild`: the write equals a rebuild, provided that
unchanged files keep their rows and that an edge changes only with an end in the
effective write set. That provision is what the analysis of the languages has to fulfil and what
the search and the boundary are for; the five assumptions above are cases that do not fulfil it. `ShadowsMutual`:
shadow candidates are symmetric, but for `foo.d.js` and `foo.d/index.js`, which list `foo.d.ts` and are
not listed by it (`TakenForDeclaration`).

**BridgeSwapProofs.** With one writer (`OneWriter`; the code takes no lock, and the table above shows
what two do) `BridgeNeverLost`, `SwapNeverOlder` and `SyncPublished` follow from `SwapInv`, which says
for each phase of the swap which of file, backup and staged file holds the newest bridge.
`SidecarsPaired` proves `Paired`; its invariant `PairInv` follows the sidecars, which move one step
behind their database, through the phases as long as nothing has failed and no reader interfered.

**RepositoryProofs, the registry.** `RegistryTypeCorrect`, and `AliasNeverShared`, which proves
`AliasUnique` for any number of processes that overlap and die: no lock is needed, as a list that is
written keeps the property of the list that was read, whatever happened to the file in between.
`SerialLosesNothing` proves `NothingLost`: while nothing has overlapped or died one process is at work at most, and
its invariant says for each of its steps how the list in its hands relates to the file and to what
is expected.

**RepositoryProofs, the MCP server.** `McpTypeCorrect`; then three results on ids and versions.
`CallsReachTheirRepository` proves `RightRepository`. Its invariant `RepoInv` says which
repositories an id can belong to (`IdInv`): those of its name or suffix, and the bare name only to the
repository that the map has under it, as long as a repository that stays uses it. `RefreshInv` carries that
through a refresh, whose pruning must not drop an id in use: an id of a repository that stays has been given
again or its entry is still to come. `RefreshGivesOwnIds` proves `OwnId` from the same invariant. Both assume
two things. One refresh runs at a time (`overlap` is not among the events; the code does not see to it, and `OwnId` fails otherwise).
And the ids suffice (`IdsSuffice`): repositories of one name that share a suffix are two in all. The suffix is the
first six characters of the encoded path, so clones below one home directory share it; the
theorems cover two such clones of one name (`Twins`: one has the long id only while the other has the
bare name), and with a third the code gives two of them one id, as the table above shows. `NoticedRebuildIsServed`
proves `FreshAnswer` with neither assumption. `PoolInv` bounds the version of every database that is open for an id,
or being opened (`CoversAll`), from below by the handle in the map, by the handle a call is about to check
and by what a call found on disk, unless the id is masked; `MarkInv` says that handles of one
id with one mark are one object, so that a date set on one is seen by all that hold it.

**LbugSessionProofs.** `IInv` ties the queue to the program counters (`LockOK`: whoever is past the
lock is its head, so `LockExclusive` holds), every open handle to the path it was opened on (`Opened`) and,
as long as nobody called `closeLbug`, the module's variables to the holder's phase
(`Undisturbed`). `OwnDatabase` needs no such exception: `closeLbug` can take the
connection away from an operation but cannot put another database's in its place.

**Only model-checked.** The liveness properties `NobodyStuck`, `Recovers`, `CallEnds`,
`DownloadEnds`, `DispatchSettles`, `NoThreadLeak`, `JobsSettle`, `Repaired`, `OrphansPruned` and `RequestEnds`,
because fairness and `ENABLED` are beyond the prover. What the functions of `PhaseRunner`, `ScopeExtraction`,
`FinalizeImports` and `MethodResolution` compute, which are recursive in their data. Every
invariant and every action property of the runs is stated by a theorem.

## Plan

Done: the pool, the breaker family, the worker pool with its abstract `ParallelMap`, the server's
jobs, the analysis with its writeback, the bridge swap, the registry, the MCP repository map, the
session adapter, the phase runner, scopes, imports and methods, and the proofs above.

What would add most next:

1. Proofs about the parts of the function modules that are not recursive (`PhaseRunner`'s lists of phases,
   the ranges of `ScopeExtraction`), moved to modules of their own, and about the compositions of (2).
2. Compositions: `AnalyzeServer` with `LbugSession` (the delete route and shutdown are the callers
   of `closeLbug`), and `McpRepos` over `ConnectionPool` in place of the databases and openings it has for it.
3. `Registry` as a refinement of an atomic set of repositories, for operations that do not overlap.
4. More of the language-independent core of scope resolution: the registries that look names up along the
   scopes (`gitnexus-shared/src/scope-resolution/registries/`), and the edges emitted from them.
5. Smaller state machines: the extension loader's single install attempt
   (`core/lbug/extension-loader.ts:209`), the idle sweep of HTTP sessions (`server/mcp-http.ts:38`), the
   nesting of stdout silencing (`core/lbug/pool-adapter.ts:240`).

## What is not modelled and why

Most of the repository's code is parsing, type extraction and call resolution for some
fifteen languages, ranking, and text for wikis and reports. It is sequential
processing of syntax trees and tables: its correctness is what its output looks like for given
inputs, which tests state better than a model, and its state space is that of the inputs. That is why the
modules cover a small share of the lines while they cover most of those where
processes, callbacks and failures meet, and the language-independent algorithms whose
wanted answer can be defined apart from the code. In particular not modelled are

* what the ingestion phases do for each language (captures, types, calls, routes, ORM, COBOL),
  the in-memory graph, search, augmentation, wiki texts and the .NET index, for the reason above;
* the parse cache: its entries are keyed by content, so losing one costs time only;
* the query tools of the MCP backend and the read-only routes: a query and its formatting;
* operations that `withLbugDb` repeats after they have streamed part of an answer
  (`server/api.ts:987`), the extension installer, and HTTP session expiry (see the plan);
* repository cloning, validation, the command line, logging and configuration;
* the web interface, evaluation harness, deployment files and editor hooks.

The native database, git, worker threads and HTTP services appear as environment: what they may
answer, and when.
