# Verification of the Cystatic core

TLA+ models of the parts of this repository that keep state, fail and run
concurrently, model-checked with TLC on small instances and, where it matters
most, proved with TLAPS for every value of the constants. Paths below are
relative to `src/` unless a file ends in `.tla` or `.cfg`.

## 1. The system

A webhook (or a queue message) names a pull request. The pipeline fetches the
trees and the diff from GitHub, indexes files into a SQLite fact store, puts the
facts of the changed files over those of the base commit, lets compiler passes
ask the combination for symbols, callers and so on, and publishes a comment.
The point of the *lazy* design is that base files are fetched and indexed only
when a query needs them.

| component | state it keeps | operations | talks to | what makes it correct |
|---|---|---|---|---|
| store `engine/repository/store` | SQLite tables of files, symbols, calls, other facts, blob cache, materialization records, `indexed_complete`; in memory a *version context* | add rows, record, migrate, answer queries with a completeness flag | indexer, view, pipeline | one id per path and version, rows never reassigned, flags say no more than is stored |
| indexer `engine/repository/indexing` | maps path to file id and name to symbol id, counters | sync from the store, `index_files` with blob cache | store, language plugins | ids agree with the table through crashes, failures and new indexers; "indexed" means the facts are there |
| materializer, full index `engine/repository/materialization` | none of its own (usage counters) | fetch in batches, index, commit, declare the commit wholly indexed | provider, indexer, store | partial failures neither lose nor invent indexed files |
| resolver `engine/repository/resolver` | usage against a budget | plan (search file contents), check the budget, materialize, report an outcome | view, materializer | a requirement reported complete has its files indexed; it ends |
| view, overlay `engine/repository/overlay` | requirements already resolved, overlay of the head's facts | answer queries, merge, trigger resolution and fallback | store, resolver | "complete" answers are complete; unchanged code is intact, changed code is that of the head |
| pipeline `engine/pipeline` | context of a run; one store and one pipeline per process | lazy path, eager path, compiler passes | everything | each run reads and writes the commits it is about while others run |
| compilers `engine/{change,behavior,operational,review_context,llm_context}` | the context of the run: each adds a model | a dozen passes, one after another, over the facts of a view | view | nothing of the change is lost or made up on the way to the language model |
| languages `engine/language` | a repository graph per adapter, with reverse indexes | extract facts of a file, compile all files to a graph, patch the graph | indexer | facts hang on symbols that exist; a patched graph is that of a full compile |
| GitHub `integrations/github` | token cache, HTTP client | trees, blobs (bounded concurrency), diffs, comments | pipeline | every path is read or fails, once; a token is not used after its life |
| API, workers `api`, `workers` | background tasks, dramatiq queue | webhook, retry | pipeline | each run ends; a comment is repeated only where it is not known of |
| core, models, repositories | settings, logger, timers | | | |
| benchmark, profiling, scripts | | measurement | | |

How they interact where it is hard:

* **Processes.** The API and every dramatiq worker open the same database file.
  There is no lock beyond SQLite's own; ids are allocated from memory.
* **Tasks.** In the API, background tasks share one event loop, one `Pipeline`
  (`api/routes/github.py:47`) and so one store with one version context. With the
  GitHub provider the only call in which a task gives up the loop is `get_files`
  (`integrations/github/repositories.py:755`, `:782`): commits, trees and diffs
  are fetched by coroutines that never suspend, and `resolve_sync` blocks the
  loop while its helper thread works (`resolver.py:371`).
* **Crashes and failures.** One file is made durable by several commits; a parse
  error, a locked database or the end of the process falls between them.
* **A chain of lossy passes.** Each compiler selects, cuts off at a limit, renames or
  groups what the one before it found, by identifiers that are numbers in one place
  and strings in another, and by indices into tables that are cut as well.
* **A graph changed in place.** The patcher of the adapters takes out of a dozen tables what
  belongs to the files it believes affected and puts new rows in; which files are
  affected it learns from the graph before the patch. Identifiers of symbols are strings that
  several passes build on their own.
* **Partial knowledge.** Every answer carries `complete`; views decide by it
  whether to fetch more, and compilers whether to trust an absence.

The hazards this gives rise to are listed, with their lines and the properties
that cover them, in `PROJECT.json` under `hazards`.

## 2. Modules

| module | models | uses |
|---|---|---|
| `FileCatalog.tla` | abstract: what the file table promises | |
| `FactIndex.tla` | the store's tables and the indexers that fill them | implements `FileCatalog` |
| `FactIndexProofs.tla` | theorems about it | `FactIndex` |
| `FactScope.tla` | abstract: what lazy resolution and the full index promise of one commit | |
| `Resolution.tla` | a view's query: flag, resolve, ask again, fall back | implements `FactScope` |
| `ResolutionProofs.tla` | theorems about it | `Resolution` |
| `PullView.tla` | the lazy pipeline run of concurrent tasks, the overlay and `get_symbol` | |
| `PullViewProofs.tla` | theorems about it | `PullView` |
| `ViewCalls.tla` | calls as the view answers them over base and overlay | |
| `ChangeCompiler.tla` | the comparison of two versions, file by file | `ViewCalls` |
| `ImpactEngine.tla` | the traversal from the changed symbols, visit by visit | |
| `Operational.tla` | the operational passes and their gates | `ChangeCompiler`, `ImpactEngine` |
| `Discovery.tla` | the discovery passes, on one list | `Operational` |
| `ReviewContext.tla`, `LLMContext.tla` | selection and encoding for the language model | `Discovery` |
| `Sorting.tla` | filters and stable sorts by key, as the compilers use them | |
| `Analysis.tla` | the pipeline: all compilers, in their order | all of these |
| `SortingProofs.tla` | what the filters, sorts and concatenations make of a sequence | `Sorting` |
| `AnalysisProofs.tla` | theorems about change, traversal and operational models | `Analysis` |
| `PromptProofs.tla` | theorems about discoveries, review and prompt | `AnalysisProofs` |
| `BatchSource.tla` | abstract: what `get_files` promises | |
| `BlobFetch.tla` | `get_files` of the GitHub provider: tree, semaphore, threads, gathering | |
| `Service.tla` | webhooks, background tasks, worker, token cache, comments | `BlobFetch`; implements `BatchSource` |
| `ServiceProofs.tla` | theorems about it | `Service` |
| `SyntaxTree.tla` | trees as the visitors walk them | |
| `PythonFacts.tla`, `TypeScriptFacts.tla`, `JavaFacts.tla` | the indexing passes of a language: from a file to its facts | `SyntaxTree` |
| `FactRows.tla` | the identifiers that the indexer's rows hang on | |
| `GraphCompile.tla` | the semantic compiler: from facts to symbols, imports, references, calls | `FactRows` |
| `GraphPatch.tla` | an adapter's graph: compiled, then patched | `GraphCompile`, the three languages |
| `GraphPatchProofs.tla` | theorems about it | `GraphPatch`, `SortingProofs` |
| `MCFactIndex`, `MCResolution`, `MCPullView`, `MCAnalysis`, `MCService`, `MCLanguage` | constants of the instances | |

### FactIndex

State: the rows of `files`, `symbols` and `calls` by version, `cache`
(`blob_fact_cache`; for each content the path whose facts are kept), `mat`
(`repository_materialization`), processes that are up or down, and per indexer its
version, its place in `index_files` and its maps (`fmap`/`fnext` for
`_file_id_map`/`_next_file_id`, `smap`/`snext` for symbols).

| code | actions |
|---|---|
| `SQLiteRepositoryStore.__init__` with its back-fill | `OpenStore` |
| process dies | `Crash` |
| a run creates and drops an indexer | `NewIndexer`, `DropIndexer` |
| `pipeline.py:830-854` | `ReserveFileIds` |
| `_sync_mappings_from_sink` | `BeginCall` |
| `_get_cached_facts` | `StartFile` |
| cache hit, one commit | `IndexHit` |
| cache miss: commit in `_save_cached_facts`, then the record | `IndexMiss` or `IndexMissUnsaved`, `RecordIndexed` |
| exception handler | `Raise`, `RecordFailed` |

A step is one commit or the reads before it. Call rows carry the callee's name as
well as its id, which the code does not store: it is history for
`CalleeNamesSound`. Symbol ids of one file are given out in any order; other fact
tables have the shape of `calls` and are left out. Ids above `MaxId` and more than
`MaxRuns` indexers or `MaxStarts` process starts are not explored.

### Resolution

State: which files of the commit are indexed or failed (`mat`), `whole`
(`indexed_complete`), and per view the query's stage, the rows it saw and the flag
it read, `resolved` (`_resolved_requirements`), the planner's paths, the files still
to fetch or to index, the last answer and outcome.

`Ask`, `ReadFacts`, `ReadFlag`, `Resolve`, `Answer` are `RepositoryView`'s query
methods (rows and flag are separate statements, hence separate steps); `Plan` and
`ScanBatch` the planner; `CheckNone/Allowed/Denied` the resolver's budget decision;
`FetchBatch`, `IndexFile`, `NextBatch`, `Materialized` the materializer and the end of
`resolve`; `StartFull` to `AbandonFull` the full-index fallback; `Raise` an exception
that ends the analysis, `Restart` a new view for the same commit.

Abstractions. Views are views of different processes, since `resolve_sync` blocks
its own. One requirement per resolve and one round of the frontier, which is how
the view calls it; budgets on unresolved symbols and depth cannot be exceeded in
one round. One `BatchSize` stands for the 100 files of the materializer and the
full index and the 50 of a scan. The usage counters start at zero in each resolve,
as in the code, so they are a function of the query. For a query about the whole
repository the file that declares the symbol is among those its search finds.
The resolution that `view.py:232` triggers for an unresolved name is not modelled, nor are
importers. A requirement is about a number of the index: a number of the head that the base gave
to another symbol is that symbol's requirement (`Row` says by which file the row of the symbol
comes; before that file is indexed the planner searches nothing). `Fallback` is the full index
wired into the view; the pipeline builds its view without one (`pipeline.py:1132`), so runs with
it are about the mechanism, and `ResolutionOneView` is about the pipeline's own view. `gaveUp` is history: requirements for which the resolver did not even try to
fetch all that is missing, since the symbol is unknown, the budget has no room or the full
index failed.

### PullView

State: the store's version context `ctx`, the tables by version, and per task its
place in `_lazy_compile_facts_and_view`, the changed files to fetch and to index,
the id maps of its two indexers and its overlay.

| code | actions |
|---|---|
| to the first `get_files`: context to base, reserve base ids, context and sink to head | `Begin` |
| `get_files` of the materializer | `Fetch`, `FetchFails` |
| `index_files` of one file of the head | `IndexHead`, `NextBatch` |
| overlay (read in the context the store is in), new base indexer, context to base | `BuildOverlay` |
| lazy resolution by a query | `IndexBase` |
| the rest of the run | `End` |

`Seen(t, k)` is `RepositoryView.get_symbol(k)`. Only a task whose turn it is acts
(`HasLoop`): tasks interleave at `get_files` and nowhere else. An indexing call is
one step and never fails here, and no two paths have equal contents: failures and
the cache are `FactIndex`'s subject. The counters of an indexer are the largest ids
in its maps plus one, which holds since no id is lost from a map without failures.
A path of the diff is added, modified or deleted as the two trees say. Left out:
`added_files`, which `get_symbol` does not read; versions with a parent, which no
run creates; what the eager path does after a failed fetch, except that it puts
the store into the base context.

### Analysis

One analysis after the view was built, in the lazy path. A version is a function from
*numbers* to rows (name, file, span, visibility, calls by number, endpoints, tables and events,
tests) or `None`, together with the placeholders of names that the indexer of the run has
numbered. Base and head are numbered separately, as two fresh indexers do it, and the view
compares the numbers of both: a number may be one symbol in the base, another in the head and a
placeholder besides. The overlay also has what happens to each file of the diff, and `twin`,
the changed file which has in the overlay's sets the number that the base gave to a file. `Pulls`
is the set of pairs that are analysed.

| code | actions |
|---|---|
| `ChangeCompiler.compile`, one changed file | `CompareFile` |
| what `BehaviorCompiler.compile` asks of the view | `BeginBehavior` |
| `ImpactEngine.calculate_impact`, one turn of either loop | `StartTraversal`, `SkipUp`, `VisitUp`, `EndUp`, `SkipDown`, `VisitDown`, `EndDown`, `NothingChanged` |
| `OperationalCompiler.compile`, one pass | `SkipPass`, `Compose`, `Dependency`, `Data`, `EventPass`, `Api`, `ApiRaises`, `Validation`, `Metrics` |
| `DiscoveryCompiler.compile`, one pass | `Dominant`, `Boundary`, `Gap`, `Significance`, `Ranking`, `Surprise`, `Compression`, `BuildIR` |
| `ReviewContextCompiler.compile` | `Review` |
| `LLMContextCompiler.compile` | `BuildFiles`, `BuildTables`, `BuildSections` |
| a repository in no supported language | `NoModels` |

Abstractions. Where the code iterates a set or a dictionary whose order depends on
hashes or on the database, the model takes every order. `Text` and `Number` keep the
identifiers that the code turns into strings apart from those it leaves numbers,
since lookups that mix them find nothing. Statements, names and texts are left out; a
discovery is its kind, what it is about, its importance in hundredths, its fan-out and
its evidence. Strings of the encoded context are the things they stand for, and an
index is a number, since a failed lookup yields a valid one. A symbol is named in the prompt by its
number, as in the code: the change facts carry no name, `CompatSymbol.name` is the text of the id
(`engine/change/model/change_facts.py:70-77`), so two changed symbols have two rows. The base is what the
index holds when the query is answered, after any resolution (`Resolution`); renamed files, reference
rows and type relationships are not modelled.

### Service

`BlobFetch` is a call of `get_files`: `Ask` and reading the tree, `Request` while the
semaphore has a permit, `Leave` when a thread answered, `Gather` when all have, which
matches results with paths by their position. `Service` composes it with the tasks that
call it. `loop` is the background task that has the event loop of the API: it gives way
while it waits for blobs in the materializer, and not in the resolver. A worker has a
loop, a pipeline and a token cache of its own, so a message needs no loop.

| code | actions |
|---|---|
| `github_webhook`, a delivery or one more | `Webhook` |
| the broker has a message | `Enqueue` |
| `_process_pr_analysis` up to the pipeline | `Start` |
| `get_files` called, read, answered | `AskFiles`, `ReadTree`, `MakeRequest`, `AnswerRequest`, `GatherFiles`, `TakeFiles` |
| the pipeline ends, or raises | `Run`, `Fails` |
| `get_installation_token` | `TakeCachedToken`, `ExchangeToken`, `ExchangeFails` |
| `generate_llm_comment`, `output_provider.publish` | `WriteComment`, `Publish`, `PublishUnheard`, `PublishRefused` |
| return, acknowledgement | `Finish` |
| time | `Tick` |
| either process dies | `CrashApi`, `CrashWorker` |

An exception ends a background task; it has the message run again until `MaxRetries`
(`Raised`). A crash loses background tasks, which nothing stores, and has messages
redelivered. `faults` is history: how often a comment was made and its answer, or the
acknowledgement of its task, was lost. A run of the worker registers providers made anew, in a
registry that the process shares; that it may look up the provider, and the token, of a run that
registered after it is left out (`CacheOf`).

### Language

The state is that of one adapter: the graph, and the content of each file it was last
told. A content is a source text; `TreeOf` says what the parser makes of it, the three
modules of facts what the passes make of that, all of it computed by TLC from the tree.

| code | definitions |
|---|---|
| `PythonVisitor`, `TypeScriptVisitor`: who is called with what | `Dispatched`, `FileIndex` |
| the passes of a language | `SymbolsOf`, `ImportsOf`, `CallsOf`, `TypesOf`, `RoutesOf`, `ModelsOf`, `EventsOf`, `ConfigsOf`, `TestsOf` |
| `build_symbol_fqn` and the rows of `_extract_file_facts` | `Fqn`, `DefinedRows`, `CallRows`, `EndpointRows`, `ModelRows` |
| `SemanticCompiler._compile_impl` | `CompileGraph`, with `References`, `Bases`, `FileCalls` |
| `_resolve_callee_id`, case by case | `OfSelf`, `OfImported`, `OfLocalClass`, `OfFile`, `Callee` |
| `GraphPatcher.patch`, phase by phase | `AddedNames`, `Deleted`, `Users`, `Waiting`, `Renewed`, `PatchedSymbols`, `PatchNamings`, `Elsewhere`, `Kept`, `Patch`, `Mismatch` |
| `_index_single_file`, `_build_index`, `FileContribution` | `FactsOf`, `Indexed`, `New`, `Contribution` |
| `compile_graph` | `Init` |
| `compile_incremental`, with all files or with `changed_only` | `Incremental`, `ChangedOnly` |

Abstractions. A tree is a sequence of nodes that know the node they lie in; a line of Java
is what the patterns of the passes find on it, since its "parser" splits lines. Which
symbol of a name comes first depends on the order of dictionaries. A full compile goes through
the files in an `order` and through the symbols of a file in that of the source, for which one fixed
order stands (`CompileCandidates`, `NamedIn`). The tables of a graph are filled from a set, so a patch
finds what stayed in them in any order, and behind it what it put in again, file by file
(`PatchNamings`); the order of each name is chosen by itself, and what an earlier patch put in last
may be anywhere, which allows more orders than the code has. Edges keep what tells them apart and no text.
Fixtures and assertions of tests, fields of models, visibility and line numbers are left
out. The paths of the instance differ in more than their case, since `_norm_path` folds it, and
carry no prefix that `patch` would strip. The fact passes feed the indexer of the
lazy pipeline; the graph and its patcher belong to the architecture that `core/runtime.py`
forbids inside an analysis, and are reached through the adapters and the tests.

## 3. Runs

All complete in under two minutes with two workers.

| run | instance | shows |
|---|---|---|
| `FactIndexFaults` | 1 process, 2 starts, 2 indexers, 2 versions that swap 2 files, parse and storage errors, reservations | `TypeOK`, `OneIdPerPath`, `FileRowsStable`, refinement of `FileCatalog` |
| `FactIndexFacts` | 2 processes that do not work on one version at once, 3 indexers, an edited file, calls; no errors | `IndexedHasFacts` |
| `ResolutionShared` | 2 views, 3 files (1 undecodable), fallback, 1 file and 1 request of budget, a restart | `TypeOK`, `OutcomeSound`, `AnswerBacked`, refinement of `FactScope` |
| `ResolutionOneView` | 1 view, 4 kinds of requirement, two of them about a symbol whose row the store may lack or never gets, failing fetches, ample budget, no fallback, as the pipeline builds it | `AnswerSound` |
| `ResolutionEnds` | 2 views, every fault | `QueryEnds` |
| `PullViews` | 3 tasks, two for one pull request (a webhook delivered twice), one for another, 4 runs, 4 files: added, modified, deleted and undecodable, unchanged; failing fetches | `TypeOK`, `ContextOfView`, `RowsOfVersion`, `OverlayHasHead`, `RowsStay` |
| `Analysis` | 6 symbols and 4 placeholders in 5 files, every pull request that edits up to two symbols of two bases where the head has the numbers of the base, and seven where it has not, depth 2, 5 visited nodes, 2 endpoints in the prompt | what the compilers keep: see below |
| `Service` | 2 runs of one pull request, the second in the API or in the queue, 3 files and 2 permits, one crash, of either process, a retry, a token of two steps | `ServiceTypeOK`, `AnswerExact`, `TokenLasts`, `CommentsCounted`, `TasksEnd`, refinement of `BatchSource` |
| `Language` | 3 files of one language, each absent or with one of up to 6 contents, 2 patches that change up to 2 files, every order of the files and of the tables | `GraphTablesExact`, `CallsCurrent`, `RefsCurrent`, `FactsLand` |
| `FailedThenHit`, `CalleeAfterRestart`, `UnchangedHidden` | the smallest that shows it | disagreements, section 5 |

What the run `Analysis` shows, in the order of the compilers:

* `ChangePatches`: applied to the base, the compiled change gives the head, number by number,
  where base and head agree on the numbers of the changed files. What the numbers stand for is
  another matter (`ModifiedIsOne`, section 5).
* `CallersFound`: callers that the base has in files the pull request leaves alone are found
  although they call a placeholder of the base and the change names a number of the head, where the
  run has seen the name and nothing of the head uses the caller's number.
* `ImpactSound`, `ImpactComplete`: the affected symbols are those within the depth, none
  else and none less, unless the limit on visited nodes was met.
* `EndpointsListed`: what the traversal and the comparison found of endpoints is in one
  API model.
* `ClaimsJustified`: the review does not claim an API unchanged that the change reaches,
  nor boundaries uncrossed that an affected symbol crosses.
* `DiscoveriesKept`: each discovery is in the result once, as itself or in a group.
* `ChangesTold`, `EndpointsTold`, `IndicesResolve`: changed symbols and affected
  endpoints reach the language model's context, under their own file, handler and route,
  through tables that are cut; the exceptions are named in the property.
* `Ends`: every analysis ends.

What the run `Language` shows:

* `GraphTablesExact`: after any patches the contributions of the files that parse and the
  tables of symbols, imports, types and constructs are those of a full compile, each row
  once, and `validate` never raises.
* `CallsCurrent`: a call by plain name leads where a full compile may lead it, unless an
  import of another file, or one of several names, starts with that name, two imports
  of the file start with one name, or a file has two symbols with the name.
* `RefsCurrent`: imports refer to all and only the symbols of a called name that a full
  compile finds, unless two imports of the file start with one name.
* `FactsLand`: rows and edges hang on symbols that exist, as far as a language says of which
  function a fact is.

Each exception is one the code needs: without it TLC finds a counterexample, and section 5
says which.

Why the bounds are enough to be interesting. Two processes, versions and files are
what it takes for one indexer to work with ids of another, for a cache entry to
cross versions and for a rolled back id to be reused; three indexers allow a third
to build on what two left behind. In `Resolution` a batch size below, and a budget
below, the number of files a query needs make partial progress and denial happen.
`PullViews` uses batches of one file, so tasks interleave in the middle of indexing
a head; two tasks on the same head share rows of files and of symbols. In `Analysis` both
limits of the traversal are met in some pull requests and not in others; two symbols
share a name and two files a base name; three discoveries of one kind, which is what a
group takes, come up; and with two endpoints at most in the prompt a third is cut. In
`Service` three files need two rounds of two permits, one batch per run
(`MaxBatches`) is asked by either caller, and a token that lives for two steps
(`Life`) and is not taken in its last (`Buffer`) can expire while a run holds it. In `Language`
a definition, its importer and a caller in a third file are the smallest repository in which
a change reaches a file that does not import what changed; contents add and take away a
function, a class, a base, a method and an import, two files may define one name, and one
content does not parse. Two patches let the second start from what the first left.
`CHECK_DEADLOCK` is off
where every bound may be used up with all processes down or all tasks idle, and where
the system ends.

Properties that hold only without some fault have the fault's constant off in
their run, and section 5 says what happens with it on. `ResolutionShared` uses
symmetry in the views; it has no liveness property.

Fairness. `Resolution!Spec` asks weak fairness of each view's work: the query runs
on a thread of its own, provider calls have time-outs, and nothing in a query waits
for another view. Nothing is asked of `Ask` and `Restart`. `Service!ServiceSpec` asks it
of every step of a task (`TaskStep`), one task at a time: a loop runs what can run, and
each request is answered or ends by its time-out of 30 seconds. Nothing is asked of
`Webhook`, `Enqueue`, `Tick` and the crashes. `Analysis!AnalysisSpec` asks it of the
pipeline's next step, since the compilers run in one task and suspend nowhere.
`FactIndex` and `PullView` state safety only.

Every property has a mutant in `PROJECT.json`: a definition of the model changed
the way a bug in that code would change it, which TLC finds to violate the property.

## 4. Proofs

All that is assumed of the constants is in the named assumptions of the modules, plus
what a theorem states (`~ConcurrentRuns`, no storage errors, a faithful provider). Most
are the types of the constants. Those that say more: `OperationalAssumption` (the nodes of the
graph are the numbers of the view), `AnalysisAssumption` (a number in the sets of the overlay is
that of a changed file; files are finitely many), `DiscoveryAssumption` (a claim of the boundary
pass is no node), `ReviewAssumption` and `LLMAssumption` (limits are numbers, `None` is
none), `FilesAssumption` (files are finitely many), `AbsentAssumption` (no contribution is the
mark of an absent file), `NoneAssumption` (`None` is no identifier) and `TreesAssumption` (a content is of one language, nodes of a tree
come after those they lie in, the texts of Java end, and the function that is the value of a
variable has its name).
TLC evaluates every one of them.

What a recursive definition computes cannot be had by induction from these provers.
`SortingProofs` therefore starts from the fact that a set of numbers has a least and a
greatest element, which gives induction for one formula at a time; sorts and filters are written
in `Sorting` as the k-th element by rank, since those of the library take an operator. Of the
library's `FlattenSeq` it proves that each part lies in the result behind those before it (`FlattenLaid`),
from which follow the elements, the first one and the last one of a given set.

**FactIndexProofs.** `TypeCorrect`; `OneIdPerPathHolds`, `FileRowsStay` and
`ImplementsCatalog` when runs on one version do not overlap. `OneIdPerPath` is not inductive: nothing in it says where
the next id comes from. The invariant `IInv` adds that an indexer at work is alone on
its version (`OneRun`) and that its map *fits* the table (`IdsInv`): the counter is
above every id in the map, no two paths share an id, no row's id belongs to another
path in the map, and, between the sync that begins a call and its end, the map knows
every row. The first half survives rollbacks (the map may hold ids no row
has), the second is what the sync restores. Adding a file under `get_or_create_file_id`
then replaces no row but an equal one, which gives all three theorems at once.
Without the sync (a mutant) the second half fails.
`IndexedHasFactsHolds` has six premises, and section 5 or a run shows a counterexample without each
that is about the code: no overlapping runs, storage errors, parse errors or reservations, no
two paths with one content, and callers that are defined in their file. Its invariant
`FactsInv` is the same idea once more, for names and symbol rows (`NamesInv`): a map of
symbols fits the table, so rows of symbols are added and never reassigned. Besides, a
content whose facts are not cached has none, and an indexer that took a hit has its origin in the path at
hand (`CacheInv`); hence every file row comes with its facts (`RowsHaveFacts`), a row from
a crash between commits included.

**ResolutionProofs.** `TypeCorrect`; `ImplementsScope`, `OutcomeSoundHolds` with a
provider that returns what it is asked for and an indexer that does not raise;
`AnswerBackedHolds` likewise, with the fallback or without, however
small the budget and however many views. All speak of requirements that were *tried* (`Tried`): a
requirement of a symbol without a row, one the budget had no room for and one whose full index
failed are given up, and the code reports those complete as well (`OutcomeComplete` and
`AnswerComplete`, section 5). The invariant `CoverInv` says that what a
query needs and the store lacks is *on its way*: still to be searched, planned, to be
fetched, or fetched and to be indexed. With it, nothing is missing when `resolve`
reports success. `AnswerInv` adds that `whole` means all and what a stage before
the answer already guarantees. `AnswerSoundHolds`, for one view (`OneView`), adds that the rows that
were read are those of all indexed files as long as the flag belongs to them (`RowsInv`);
with a second view that is what fails.

**PullViewProofs.** `TypeCorrect`, `ContextOfViewHolds`, `RowsOfVersionHolds`,
`OverlayHasHeadHolds` and `RowsStayHolds`, for any number of tasks, pull requests,
commits and files, without further assumption. The last three properties say
nothing of where an id comes from, so the invariant has these parts. `OneRuns`:
at most one task is beyond a wait for `get_files`, the others are between runs or
wait; `ContextOfView` follows from it. `RowsOK`: in a version ids and paths, and ids
and names in a file, determine each other, and each symbol row belongs to a file of
that commit that defines it. `MapsOK`: the maps of an indexer may be behind the
tables another task wrote to, but what they hold for a file, or for a symbol the file
defines, is a row. (Ids of names to be resolved have no row, so the claim must leave
them out; that is why `UnchangedIntact` cannot be had.) `Done`: a readable changed
file that is not waiting has all its rows. `SyncedFits` shows that a map which
fits knows every row after the sync, `IndexedRows` that the new rows are then either
there already or above all that are, so `INSERT OR REPLACE` only adds; each action has
a lemma of its own.

**AnalysisProofs.** `ImpactSoundAlways`, of the traversal alone, for any graph, handlers, limits and
orders. `ImpactSound` says nothing of the queues; the invariant adds that every entry of a
queue is a node at its depth, with a chain of that many steps from a changed symbol and
within the limit (`QueuesSound`). A chain is a function, so appending a step to one
(lemmas on `Walk` and `Follows`) is where the proof has its work.
`ImpactCompleteAlways` is the converse, and the argument of a breadth-first search: a queue is
sorted by depth and spans two depths at most; each changed symbol, and each neighbour of a
visited node that may still be visited, was visited or is in the queue no deeper than it has to be
(`Frontier`). A search that stops with the limit on nodes not met has an empty queue or only
entries too deep, and then all within the depth were visited (`CompleteInv`).
`ImpactSoundHolds` and `ImpactCompleteHolds`, the same inside the pipeline, where the graph is
only fixed when the change has been compiled: before that the surface is empty, and no
later compiler touches it. `ChangePatchesHolds`: what the files compared so far add to
the facts is exact for their numbers and nothing for those that wait, for any two
versions, however either is numbered, and any order of the files; when no file waits and the
numbers of the changed files agree (`FilesAgree`), this is `ChangePatches`.
`CallersFoundHolds` and `EndpointsListedHolds` follow from `StageInv`: what the behavior compiler
asked of the view stays what it was, and a pass of the operational compiler that is done has left
its model, whichever passes were skipped or raised; a pass that raised ends the analysis, so
there is nothing to list then.

**PromptProofs.** Of the discovery compiler the invariant says that before the compression the list
holds each discovery that was emitted once, a single one with its own evidence, in the
importance that its pass may give (`Fits`), and after it each is held by one element, as
itself or among the children of a group (`AllHeld`). The passes that measure, rank and sort
change no discovery's kind, subject or evidence (`Sign`), so `DiscoveriesKeptHolds`; and
nothing is claimed of the API or of other services but where the model has it
(`InsightsInv`), so `ClaimsJustifiedHolds`. The importance of a group is a mean, and its sum is
bounded by induction (`TotalsAdd`). `ReviewInv` says that the rows of changes and executions in
the review are those of the facts, each file and each endpoint once; `PromptInv`
that each part of the prompt was built from those before it, which are not touched again. From
these, `ChangesToldHolds` and `EndpointsToldHolds` find the row of a symbol and of an endpoint in the
tables that are cut. `IndicesResolveHolds` assumes `MaxPerFile # 0`: with a limit of no symbols per file,
which the setting allows (its default is 50, `core/config.py:124`), the execution of an
endpoint refers to the first of no symbols, as TLC shows. `AnalysisTypeOKHolds` closes the chain.

**GraphPatchProofs.** `GraphTablesExactHolds`, by `TablesInv`: each file the graph has is one that was
told, with the contribution of its content, and the tables hold the rows of those
contributions, of the files that do not parse too (a full compile leaves them out, so that
equality with it would not be inductive). A patch takes out and puts in whole files, a row
names its file, and a changed file is affected. `FactsLandHolds` is about trees: whatever climbs from a node to
the function or the class around it (`Climb`, a recursive function) comes upon smaller
numbers; the first function or class it comes upon is the greatest above the node, and it is
entered in the table of symbols under the name and owner that the passes give the fact. This holds for
any tree of the three languages, and, with `CallsNamed`, of the edges of a graph that was
patched. `RefsCurrentHolds` and `CallsCurrentHolds`, by `ResolvedInv`: a patch resolves some files
and leaves the rest, and nobody knows in which order the candidates of a name stood when a file
was last resolved, so the invariant says what is true of its edges in every order, in terms of the
symbols and imports there are now. `RefsOK`: the references to a called name are
all that the statements give rise to. `Leads`: a call goes to the function or class of that name
in the file, or to the last symbol of a file that an import meets, or, when no import meets
any, to the first of a file, to the file's own import or nowhere; and no edge means it may lead nowhere. The candidates
of a patch are *gathered* (`Gathered`): all symbols of the name before all imports, in any order;
`NamingLists` has that of every choice of orders.
Both hold of a file just resolved (`FreshResolved`). They stay with a file that is left alone since what it
calls has no new definition (`NamesStay`) and no edge of it leads to what is deleted
(`LeftResolved`); this is where `waiting_files_for`, `callers_of` and
`importers_of` are needed. A full compile satisfies the same, so the references are equal; and for each
target that `Leads` allows an order with its file at the front or at the end makes the
compile choose it (`CalleeInOrder`), which is where the exceptions of `CallsCurrent` are used: with
two symbols of the name in one file no order of the files need lead to the second.

**ServiceProofs.** `TypeCorrect`, `AnswersExact`, `TokensLast`, `CommentsBounded` and
`ServiceImplementsSource`, for any number of tasks, files, permits, crashes and retries. The
invariant has a part for each record. `CallFine`: the paths a call fetches are among those asked for
and all different, and no request is answered twice; hence what `Gather` reads by
position is exact. `TaskFine`: at each place of its run a task has at most as many comments as
faults, and one more once it has published; its attempts leave room for a retry; its
token was young enough when it was taken. For the refinement a call that is abandoned, whether its
caller takes the answer or its process dies, is one that the source forgets.

Model-checked only: `QueryEnds`, `Ends` and `TasksEnd` (liveness is out of the prover's reach).

## 5. Disagreements between the code and what it says

Checked, with a counterexample:

* `FailedThenHit`: a file that failed to parse is recorded with its content's sha;
  the next attempt takes any record with that sha for the cache entry of an empty
  file and records the path "indexed" without facts.
* `CalleeAfterRestart`: ids of unresolved callees are in `calls` only, and a new
  indexer gives them to symbols.
* `UnchangedHidden`: in the lazy path head and base are numbered from 1 by separate
  indexers, so a symbol of an unchanged file is hidden by a symbol of the head with
  the same number.

Stated in the modules as invariants that the code breaks. To see the counterexample, put the
invariant in the place of those of the run that is named:

* `IndexedHasRow`, in `FactIndexFaults`: an error of the commit in `_save_cached_facts` is swallowed
  (`indexer.py:215`), its rollback takes the rows of the file along, and the file is recorded
  "indexed" all the same.
* `OutcomeComplete`, in `ResolutionOneView`: for the callers, references, dependents or tests of a
  symbol that has no row yet the planner searches nothing (`planner.py:196`), and the resolver reports
  the requirement complete.
* `AnswerComplete`, in `ResolutionOneView` with `MaxFiles = 1`, `Reqs = {entryPoints}` and
  `Symbols = {}`: a requirement the budget had no room for is remembered as resolved, and the
  next answer is flagged complete with nothing fetched (`view.py:382`).
* `ModifiedIsOne`, in `Analysis`: as head and base are numbered apart, the change compiler, which
  compares by number, reports as one modified symbol what are two, and compares the calls of the two.
* `DeletedReported`, in `Analysis`: a deleted file is looked up in the head's context
  (`pipeline.py:903`), where it has no row once another file of the diff has been indexed; it stays
  visible and nothing of it is reported removed.
* `ApiReturns`, in `Analysis`: a new GET endpoint in a changed file is listed once under a text and
  once under a number, and `sorted` raises `TypeError` (`api/impl.py:207`): the analysis fails.
* `CallerLoopFree`, in `Service`: `resolve_sync` waits for its helper thread in the thread of the
  event loop (`resolver.py:396`), which its docstring denies (`resolver.py:381`).
* `CallsOrdered`, in `Language`: a patch takes the symbols of a file in the order of a set, so a name
  that two of them have may lead to the other one than after a full compile.

Seen while modelling; where a constant is named, it reproduces them:

* `FactIndex` with `ConcurrentRuns = TRUE` and two processes on one version violates
  `OneIdPerPath`: both sync from the same table and allocate from memory.
* `FactIndex` with two indexers of one process on one version, `ParseErrors` and
  `Reservations` violates `FileRowsStable`: a stale id in one map. (In the lazy path
  this does not arise: `PullViews!RowsStay`.)
* `Reservations = TRUE` with a crash violates `IndexedHasFacts`: the constructor's
  back-fill takes reserved rows for indexed files.
* A `Content` in which two paths have the same blob violates `IndexedHasFacts`: cached facts
  name the path they were first extracted from.
* `Resolution` with `IndexErrors = TRUE` violates `OutcomeSound`: `resolve` reports
  success whatever `failed_paths` holds.
* `Omissions = TRUE` violates `ScopeSpec`: the full index skips blobs the provider
  left out and declares the commit whole.
* Two views violate `AnswerSound`: rows and flag are read by separate statements,
  and another process may index the file in between.
* The planner's searches are not counted against the request budget, and each
  resolve starts with an empty usage although the budget is documented per request.
* `view.py:537` reads `relation_type` of a `TypeRelationship`, which has no such field.
* After a failed lazy run the eager path takes the base version's rows, few as they
  are, for the complete base facts (`pipeline.py:1250-1265`).
* `DependencyModel` never has callers, dependents or shared modules: numbers are looked up
  in a map whose keys are strings.
* The encoded context and the compressed discoveries are called lossless and are not:
  statements, and kinds outside the enumeration, are dropped; of two files with one base
  name, one is dropped; a handler in a file that is not in the table is attributed to the first file.
* Callers of a removed symbol in unchanged files are not found, although
  `behavior/compiler/compiler.py:31` has the base asked for them; the traversal never passes through a
  placeholder downwards.
* `architecture.md:117` describes passes of the change and behavior compilers that do not run.
* A second delivery of a webhook, a retry after a comment whose answer was lost and a redelivered message each
  make one more comment; a crash loses the background tasks whose webhooks were
  answered with success (`CommentsCounted`, `TasksEnd` count these as ends).
* The buffer of the token cache is shorter than a run may take: a run that holds its
  token for longer publishes with an expired one (`TokenLasts` has this as its condition).
* A patch overlooks files that only import a name which a changed file adds or changes the kind of,
  and subclasses whose base class changed in another file; of imports with one first name
  it keeps the last (`graph_patcher.py:214`). The test that calls incremental and full
  compilation equal (`tests/test_incremental_compiler.py:125`) has none of these.
* An import of several names is known by the first, which the last of them may answer for.
* Events and configuration keys of Python never know their function: it is searched for below the call.
* What stands in the body of a Python class is seen by `process()` of the passes and not by the
  visitor: imports, routes, events and keys in a class are lost.
* In Java the receiver of a call is recorded as its caller, and the source of a type relationship is a
  whole identifier that is then put into another; no base class of Java is ever found.
* In TypeScript a call in a nested function belongs to the outermost one, and a route names its
  handler without its class.
* Of a type relationship the indexer builds the source as if it were a function
  (`indexer.py:703`), so the row hangs on no class.
* `pipeline.py:570` takes a file that could not be fetched for a deleted one (`ChangedOnly`), and
  knows nothing of the old path of a renamed file.

## 6. Not modelled

Parsers, language detection and its registry; the older compiler of a semantic graph
(`language/base/compiler.py`); what facts hold besides names and places; wording of prompts and comments; the eager path of the
pipeline, which the lazy one replaces unless it fails; the store's inheritance from a
parent version, which no run creates, and its other fact tables, which have the shape of
`calls`; the in-memory query and the conversion of a graph to `RepositoryModel`; `engine/discovery`, which no pipeline
runs; `analyze_repository` of the API, which runs the same pipeline inside a
request; settings, logging and profiling; SQLite itself, whose transactions are taken
to be atomic and durable; GitHub, the broker and the language model, of which only the
answers are modelled.

## 7. What could come next

1. The eager path with its synced indexers (there endpoints of changed files carry their method as
   an enumeration, which reads "EndpointMethod.GET"), and an abstract `Merge` (unchanged files from
   the base, changed ones from the head) that it implements: `UnchangedIntact` should hold there.
2. `delete_file_facts` and inheritance from a parent version.
3. Calls with a receiver. A patch does not resolve them again when a class of another file changes
   its bases or a name its kind, so a property about them needs exceptions that are yet to be found.
