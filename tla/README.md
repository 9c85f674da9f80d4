# legacy-reverse-mcp: models, checks and proofs

`legacy-reverse-mcp` (`src/`) indexes a Java/Spring repository into a sqlite file,
attaches descriptions to its classes and methods, and serves both to an LLM agent
through MCP tools. This directory holds TLA+ models of the parts of it where state
outlives a call, where processes share files, where threads and processes race with
clocks, where a run can be cut short, and where an answer is guessed from an incomplete
index; the TLC configurations that check them on small instances; and TLAPS proofs of the most
important properties for all instances. `PROJECT.json` maps every definition to the
lines it stands for.

## 1. Inventory

The state is in files of the analysed repository: `.reverse/index.sqlite3` (the
index), `.reverse/descriptions.sqlite3` (imports and generated texts), and the work
directory of a batch. A process of the CLI, the MCP server, or a batch writes them;
nothing but sqlite's own locks and the file system orders the processes.

| Component | State | Operations | What is hard | What makes it correct |
|---|---|---|---|---|
| Description store: `summarizer/describe.py`, `analysis/flat_arch.py`, the end of `scanner/pipeline.py` | summary columns of the index; `imported_description`, `description_cache` | scan --force with re-apply, describe, import-arch | two databases, two commits; hashes read from index *and* disk; LLM failures; runs aborted half-way; partial imports | no stale text served as fresh; fresh imports win; the cache holds what its key says; served imports survive a rescan |
| Batch generation: `summarizer/batch_generate.py`, `harness.py` | chunk files, sidecars, out-chunks, `arch-merged.json`; results in memory | fresh run, `--resume`, `--merge-only`; a pool of LLM sessions; merge, import, clean up | kills at any step; torn files; retries; `arch.json` exported anew in between; answers about the wrong classes | what the LLM described is never lost or asked for again; every class merged once with its newest text; the directory goes only when all is merged; a run ends |
| Index lifecycle: `cli.py`, `mcp_server.py`, `index/repository.py`, `pipeline.py` | the file at the path, its `-wal`/`-shm`, open connections | forced and unforced scans, read tools, describe | existence is checked, then the file opened; unlink under open connections; a scan killed half-way | between scans the path holds a whole index; a scan rebuilds; tools answer or return a structured error |
| Java indexer: `scanner/java_indexer.py`, `java_parser.py` | rows of the index | parse and store, dependency edges, endpoint re-attribution | names resolved by simple name; diamonds and cycles; rows shared by controllers | hiding a shared endpoint strands no controller; no phantom endpoint lingers |
| Trace: `analysis/trace.py`, `common.py` | none (reads the index) | one walk from an endpoint to a repository, over calls, injections and names | guesses among several callees; a helper in between; a confidence and warnings that must tell of them | confidence never exceeds the evidence; silence means down to persistence, over one service of the handler; recorded calls go before guesses; warnings are true |
| Impact: `analysis/impact.py` with the type resolution and edges of `java_indexer.py` | types and edges of the index | two passes over type texts, then a breadth-first walk | simple, qualified and full names, arguments, imports of one name; passes in an order; cycles; a depth bound | which dependents are found; namesakes reported only where the index did not tell; shortest hops |
| Process trees: `utils/proc.py`, `harness.py` | a child, its group, a pipe, an output file | run with a timeout, kill, take the answer | grandchildren that keep the pipe or leave the group; the child may exit at any moment | the call returns; the group is dead; a partial answer is not taken for the whole |
| CBMC configuration: `utils/cbmc_config.py`, fetches of `batch_generate.py` | the environment; chosen binary and project; permits | resolve once, then fetch code on two nested thread pools under one semaphore | five sources of a setting, trusted or not; threads, exceptions and permits; answers that are about another class | the repository decides nothing untrusted; code stands under its class; one failure costs one class; nobody waits for ever |
| Findings: `index/findings.py` | findings rows | module cycle detection | visited set shared between searches | every reported cycle is one; not modelled |
| Fact scanners: `fact_emitter.py`, `dependency_scanner.py`, `config_scanner.py`, `repo_scanner.py`, `endpoint_scanner.py`, `spring_scanner.py` | none | text to facts | text formats | not modelled: regular expressions without state |
| Reports, explain, context packs, `layers.py`, queries, search, evidence model, package summaries, golden questions | none | read-only SQL and formatting | - | not modelled: no state, no order |

**Interactions.** A scan ends by calling the description store's `reapply_imported` on the
new index (the files are shared state, not messages). `describe` and `import-arch` write
the index and the store over two connections. A batch ends by calling `import_flat`, then
`describe`; its LLM sessions and its calls of CBMC go through `run_tree_captured`. Every MCP
tool opens the index anew (`_read_conn`); trace and impact answer from what the Java indexer
stored. Hazards, each at its line, are in `PROJECT.json`.

## 2. Modules

| Module | Models | Extends / used by |
|---|---|---|
| `DescriptionStore` | the two sqlite files and the three commands that write descriptions | `MCDescriptionStore`, `DescriptionStore_proofs` |
| `BatchLedger` | abstract: what a batch promises over any number of runs | instantiated by `BatchGenerate` (`Ledger`) |
| `BatchGenerate` | `main` of `batch_generate.py` and its work directory | `MCBatchGenerate`, `BatchGenerate_proofs` |
| `CbmcGrounding` | which CBMC a batch uses, and the threads that fetch code for its prompts | `MCCbmcGrounding`, `CbmcGrounding_proofs` |
| `ProcTree` | one call of `run_tree_captured`, the processes behind it, and what the harness takes for the answer | `MCProcTree`, `ProcTree_proofs` |
| `IndexFile` | the index file between a scan and its clients | `MCIndexFile`, `IndexFile_proofs` |
| `EndpointReattribution` | `reattribute_interface_endpoints` | `MCEndpointReattribution`, `EndpointReattribution_proofs` |
| `ChangeImpact` | from the types written in Java to the dependents `change_impact` lists | `MCChangeImpact`, `ChangeImpact_proofs` |
| `TraceEndpoint` | `trace_endpoint` | `MCTraceEndpoint`, `TraceEndpoint_proofs` |

Batch, grounding and process tree are three levels of one program. `BatchGenerate` has a session
as a start and an end with any answer, `CbmcGrounding` has what happens before a session's prompt
exists, and `ProcTree` shows why both may assume that a session or a call ends (`CallReturns`).

Definitions whose comment begins with "Mutant:" are variants of the definition that
follows, with a plausible bug; each must break one property (`PROJECT.json`, "mutants").
They are no part of a specification.

### DescriptionStore

A text is not a string but what it was produced for: its source (`scan`, `fallback`,
`llm`, `import`, or `legacy` for imports from before hashes existed) and the structure
hash seen at that moment. A structure hash is a pair: the projection of the *indexed*
skeleton, and the snippet whose lines the *indexed* revision picks out of the file *now on
disk*, as in `structure_hash`. `Projection` and `Snippet` are constants, so collisions
and edits a hash does not see are included in what is proved.

`index`/`cache` are the committed contents, `indexTx`/`cacheTx` what the running command's
connections see; `CommitIndex` and `CommitCache` are two steps, in the code's order.
Between any two steps a file can be edited, deleted or restored (`Edit`), and the process
can die or an exception close its connections (`Crash`). An LLM call is two steps
(`AskLlm`, `LlmReturns`), what was read before it is kept in `asked`; an answer may lack methods and is cached so
(`describe.py:480-482`). An answer whose class is `null` is left out: it is cached, and the class has no text
until it changes. So are the branches for an unreadable `descriptions.sqlite3` (183-187, 230-231), which end
the re-apply early with an error in the statistics. `describe` commits
after every `ProgressEvery` classes. Commands run one at a time.

`classAt`/`methodAt` are history fields: the hash seen when a text was last settled by a
scan, describe or import. They let properties relate a text to the structure the command
saw, which is all that the code promises.

### BatchGenerate

One variable per kind of file, one step per phase of `main`. A chunk file holds the
`arch.json` it was cut from; an answer maps each class it names to the number of the run
that produced the text. `Slice` cuts an arch into chunks. Sessions run on `Parallel`
threads and end in any order with any answer of `Answers`. A kill loses the process's
memory and may tear the file being written (`KillInWriteChunk`, `KillInWriteSidecar`).
`arch.json` may be exported anew between runs, and another agent may write out-chunk
files. `born` and `batch` are history. Clearing (`Unlink`) and removal at the end of a run
(`BeginRemoval`, `RemoveFile`, `RemovalEnds`) take the files one by one, the removal in any order, as
`shutil.rmtree` does. `"remove"` in `KillAt` stands for a kill in its middle and for files that it cannot
unlink, which `ignore_errors` hides: both leave any part of the directory.

`BatchLedger` is its abstract specification with four variables: what is due, what is
described, what is published, and whether the user asked for a fresh run. Described
classes only grow unless the user clears them, a publication is exactly what is described
of what is due, and descriptions are given up only when all due ones are published.
`KeepsLedger` is the refinement, with the mapping in `BatchGenerate`.

### CbmcGrounding

A configuration is a record of what is set where: the user's environment and argument, the
repository's `legacy-reverse.toml` and `.env`, whether it is trusted, and what `list_projects`
answers. `SetUpCbmc` (`_setup_cbmc`) reads it once, and the variable is forgotten then. `StartChunk`
is a thread of the batch's pool, `StartFetch` one of the chunk's own pool; `Acquire` takes one of the
permits all chunks share. A fetch is `Direct`, `Search` and `Again`; each may return any node, none,
or raise, and gives its permit back by `Finish`, the `with` block's end. A node is what the external
graph holds: whether its name is the class's full name (`Exact`), ends with it (`Matches`), and where
its file lies (`Relocated`). `BuildPrompt` keys code by full name as `_cbmc_chunk_prompt` does, so
two modules' classes of one name share any one's code (`Context`).

### ProcTree

Any tree of processes runs behind the child: `Fork`, `LeaveGroup`, `ClosePipe`, `Say`, `WriteFile`,
`Exit` are theirs and happen at any moment. `Launch`, `Communicate`, `TimeOut`, `KillGroup`,
`KillChild`, `Drain` are the steps of `run_tree_captured` on POSIX, in its order, and `Answer` is what
`run_gigacode` makes of the result. The child stays a zombie until it is waited for, which is
why its pid still names the group when `killpg` is called. stdout and stderr are one pipe.

### TraceEndpoint

The index is chosen in `Init`: the calls of the handler and of the controller's other methods by
line, the method a call reaches in each class, injected fields, and implementors. A type text
(`Ref`) is told by what it resolves to (`Fqn`, `Simple`). The steps of the function are actions:
`ResolveEndpoint`, then `FollowServiceCall`, or `FollowHelper`, or `FollowInjected`, then
`FindRepositoryCall`, or `FindInjectedRepository`, and `Conclude`. A step of the path keeps what it
names, its confidence, and whether a call or an injection led to it. `Canonical` stands for the test
on `<Name>Impl` (`trace.py:71`): one set for all interfaces, where the code compares with the name of the
interface at hand, so a class named after another interface is taken for named here. An endpoint row whose
controller or handler id is NULL is left out; the code then ends after its first step.

### ChangeImpact

`source` is what the Java files say: references in a role (superclass, field, signature, ...), to an
indexed class or a library type, imported or bare, in a form: `Foo`, `Foo[]`, `Foo<..>`, `..<Foo>` or
`Outer.Foo`. `Compiles` is what a compiler accepts. A text keeps the base, its simple name and the form
(`Text`); it is `Exact` when the whole of it is an indexed class's full name. `stored` is the text the
index keeps of each reference: resolved by the import of its name (`Init`), then by
`ResolveSamePackageTypes`; `called` is the copy the call rows took before that pass. Then
`IndexClassDependencies`, `ResolveTargets`, `CollectDirect`, one `Widen` per turn of the loop, and
`Report`. A file is taken to declare one class, so an import is seen by the references of that class;
a name used only in a method body (role `body`) makes no row, but its import counts.

### EndpointReattribution

The class graph is chosen in `Init`, every one of them, and kept twice: as Java means it
(`supertypes`) and as `class_interface` rows resolve by name (`parents`, `Target`). The
breadth-first walk is modelled by the set of ancestors whose mapped method it can find
first. Controllers and methods are visited in any order. The rows of all verbs of a
method are one; base paths are left out.

### IndexFile

A file is a number, so that a connection to an unlinked file is told from one to the file
now at the path. `pair` is the file whose connections made the `-wal`/`-shm` at the path. A
connection opens the file when it is made (`repository.py:14`), and finds or creates the pair, by
name, at its first read (`repository.py:38`): `OpenFile` and `FirstRead` are two steps. `unswept`
is raised by an unlink, and by a first read of an unlinked index, which brings a pair back; the sweep lowers it.
sqlite and the file system are external, modelled from how the code uses them; the
behaviour of a new database that finds the `-shm` of a live older one ("disk I/O error",
or works) was observed with sqlite 3.40 under CPython 3.11. The server unlinks database and
sidecars (`Unlink`, `UnlinkSidecars`), the CLI the database only. Clients check, open,
read the schema, and use the index in four steps (`RequireIndex`, `OpenFile`, `FirstRead`, `Use`); the
scan's first read finds an empty file, which has no pair, so it is part of `OpenIndex`. One scan runs at a time.
The migration of an index of an older version (`repository.py:43-51`) is left out.

## 3. Runs

| Run | Instance | Shows |
|---|---|---|
| `store_whole` | 1 class, 2 revisions and a deleted file, 2 methods, 1 LLM model | types; `NoStaleClassText`, `NoStaleMethodText`, `ImportedClassWins`, `CacheHoldsGenerated`, `UnchangedMethodImportKept`, `StoreFollowsIndex`, for imports that describe a class and all its methods |
| `store_stale_methods` | as `store_whole`, imports of any part of a class | **violated:** a class-only import re-stamps method texts imported for older code |
| `store_torn_import` | as `store_whole` | **violated:** a crash between import's two commits leaves texts the next forced scan cannot restore |
| `batch_resume` | 3 classes, 2 exports, 2 chunks, 2 threads, 3 runs; kills from the sessions on | refinement of `BatchLedger`; `DiskBacksMerged`, `NoEarlierGeneration`; every run ends |
| `batch_killed` | 2 classes, 2 exports, 2 chunks, 2 threads, 3 runs; kills everywhere, torn files, answers without classes, hand-written answers | types; `OneArch`, `NewestAcceptedOnce` |
| `batch_lost_chunks` | 2 runs, kills while chunk files are written | **violated:** the unwritten chunks are forgotten and the directory removed |
| `endpoint_links` | 2 controllers, 2 other types, 1 signature; every graph | `ImplementorsRepresented`, `NoPhantomEndpoint`, `OwnMappingServed` |
| `index_shared` | 2 clients, 4 files, both kinds of scan, kills everywhere | types; `QuiescentIndexIsBuilt`, `SweptScanRebuilds`, `QuietClientsAnswered` |
| `trace_flows` | a controller with 2 helpers, an interface with up to 3 implementations, a repository; handlers of up to 3 calls | types; `HighIsForced`, `SilenceIsComplete`, `RecordedCallsAreFollowed`, `EveryStepIsLinked`, `WarningsAreDeserved` |
| `impact_walk` | 5 classes in 2 packages and a library type, 4 of one simple name, one a member; any two references of a class, and any graph of signatures; depth 2 | types; `NoDependentMissed`, `NamesakesAreTold`, `HopsAreShortest` |
| `proc_calls` | a child and any tree of 2 more processes | types; `GroupIsDead`, `AnswerIsFinal`; the call returns |
| `grounding_fetches` | every configuration of 4 listed projects; 3 classes in 2 chunks, 2 permits, any answers | types; `GroundedInOwnCode`, `NoClassSinksItsChunk`, `ProjectIsOwn`; every chunk ends |

**Bounds.** Classes in `DescriptionStore` interact only through the commit counter; one
class carries the freshness properties, which are theorems for any number of classes. Two revisions
that differ in body and methods, and the absent file, are enough for a text to become stale,
fresh again, and stale through a change of either hash component. `MaxRuns = 3` lets a run
be killed, resumed and killed again, or cleared after a resume; two chunks and two exports
with shifted slices make a class move between chunks. `MaxFiles = 4` is three generations
of the index plus one stray empty file. Two controllers and two other types give
diamonds, chains, cycles and siblings. Two processes besides the child are one that leaves the
group and one of its making that keeps the pipe, or the reverse. Two classes of one full name and
one without a package, a relocated copy and a namesake are the cases `_verified_snippet` and the search
distinguish; two permits for three fetches make them wait. Two references in one file are
the smallest source in which a namesake and a real dependent, a call and a field, or an import and a
qualified name of the same simple name meet; the graphs of signatures have every cycle on four
classes, and depth 2 has classes at and past the bound. The
helpers and implementations of `trace_flows` are those its choices differ in: first and second
call, named and unnamed implementation, body known or not. Symmetry is used for controllers, other types
and clients, over safety properties only.

**Fairness.** `batch_resume`: the steps of a run are weakly fair, and each chunk's session
starts and ends: `ThreadPoolExecutor` schedules its threads, and `run_tree_captured` bounds
every session with a timeout, after which it returns whatever the process did. Nothing is
assumed of the user, kills or re-exports. `MaxRuns` does not stop a run from ending, since only
`StartRun` is bounded. `proc_calls`: only the caller's own steps and its two clocks are fair, no
step of any process is. `grounding_fetches`: the pools' threads run, a thread that waits for a
permit that stays free takes it, and calls and sessions end, which is `CallReturns`. The other
runs claim no liveness: a scan may fail, and a user may stop.

**Divergences from docs, comments and tests.** The three violated runs are the findings in
`PROJECT.json`. More divergences show in the same models when a configuration is
changed, and are why some passing runs are configured as they are; those in the last four
items lie outside a property's premise, or outside the model:

- `UnchangedMethodImportKept` fails with `WholeEntriesOnly = FALSE` (`describe.py:159`): a
  fresh import of method texts next to an older class row is dropped by the next describe.
  Same cause as `store_stale_methods`: with whole entries both are theorems.
- `NoEarlierGeneration` fails with `"clear"` in `KillAt` (`batch_generate.py:836`): chunk
  files are unlinked first, sidecars last, so a killed clear leaves sidecars that a later
  `--resume` takes for its own.
- With `"classless"` in `Answers`, an answer that is JSON but has no class list replaces the
  sidecar (`batch_generate.py:620`), so the ledger shrinks and `KeepsLedger` fails. It fails as well with
  `"clear"`, `"write"` or `"sidecar"` in `KillAt` (chunk files in part, a sidecar torn while it is written in
  place, `batch_generate.py:685`), and with `Manual = TRUE` (texts that no sidecar has).
- `KeepsLedger` and `WholeArchBeforeRemoval` fail with `"remove"` in `KillAt`: `shutil.rmtree`
  (`batch_generate.py:1043`) cut short leaves some chunk files, and a later `--resume` sends and
  publishes only those, over the whole `arch-merged.json` of before. If it leaves sidecars alone and `arch.json` is
  exported anew, they count as answers to the new chunks. The sets `KillAt` of the runs `batch_resume` and
  `batch_lost_chunks` do not have it; that of `batch_killed` does.
- `OwnMappingServed` fails when `Target` has controllers, already with `Interface = {i1}`
  (`java_indexer.py:554`): a
  controller that implements an unindexed type of its own simple name resolves to itself, and
  its only row is hidden.
- `EveryControllerRepresented`, added to `EndpointReattribution_links.cfg`, fails
  (`java_indexer.py:708-710`): the implementors are those the name walk reaches, so a controller whose
  link does not resolve loses the only row it had; the comment at 699-705 says that the
  row then stays visible.
- `ScanRebuilds`, added to `IndexFile_shared.cfg`, fails: the CLI unlinks the database and not its
  `-wal`/`-shm` (`cli.py:48`), so a forced scan can meet an old `-shm` and fail with the old index
  gone, where `mcp_server.py:101-102` removes both and `README.md:136` promises a rebuild. The causes are the CLI, a server
  killed between the two unlinks, and a client between `repository.py:14` and `:38` while the server unlinks
  both: its first read puts a pair of the old index back after the sweep. There are no others (`ServerScansRebuild`).
- `ErrorsAreStructured`, added there, fails: a tool that lost the race with an unlink raises
  `sqlite3.OperationalError` (`mcp_server.py:85`), where `mcp_server.py:33-35` and
  `docs/mcp-api.md:4` promise a structured error.
- *Trace.* A helper's body is left at its first service call (`trace.py:245-295`): a second service there,
  or in another helper, leaves no warning and the confidence high, against the comment at
  198-200; so do helpers beside a service the handler calls, a second injected service (299-320, with
  medium confidence), and the implementations beside one named `<Name>Impl`. `ServiceIsGuessed` speaks of calls in the
  handler itself for that reason, and `SilenceIsComplete` promises no more. A controller whose
  name ends like a service's makes its own methods services. Two implementations that both bear the canonical name
  are not told as ambiguous. A trace of two layers that ends with a warning keeps `overall` high.
- *Impact.* `docs/limitations.md:32-35` has only unresolved types fall back to simple names, and says that then all
  candidates are linked rather than one missed; `java_indexer.py:441-445` says that change-impact never misses a
  dependent. (1) A plain field makes no edge, and its text is compared as a whole once it has a dot
  (`impact.py:28-29`): a field `Foo<Bar>` of an imported class (stored `com.a.Foo<Bar>`), a field `Outer.Foo`, a field
  `List<Foo>`, and the calls on them, are missed. (2) A qualified name whose simple name is imported for another indexed class is
  rewritten to that class (`java_indexer.py:110-121`), a member named like a class of the package to that class
  (351-353): the first is missed in every role but an interface (`Misread`). (3) What a method body names makes no row. (4) An
  imported class with arguments, a superclass or interface of the package, and a type argument fall
  back too and link every namesake, and so does the import of a type that is not indexed, though the import tells it
  (`Told` lists what is never confused). `receiver_type_fqn` is copied before the same-package pass, so calls on a namesake
  match, with high confidence. A type written with its package is not in the model: it matches exactly, unless the
  file imports another class of that simple name, which replaces it as in (2).
- *Process trees.* What has left the group survives the kill, where the docstring of `run_tree_captured` kills
  the whole tree; `GroupIsDead` speaks of the group, and `TimeoutKillsTree` shows that nothing else survives. A NUL byte in an argument raises `ValueError`, where it
  never raises; the model has only launch failures that are `OSError`. In file mode the harness takes whatever lies in the
  output file, an earlier run's too, and looks at no exit status; `AnswerIsFinal` speaks of stdout.
- *Grounding.* A class without a package is verified by its bare name, which every class of that name ends
  with, on the first call too, where the comment at `batch_generate.py:398-401` trusts a unique match only; a suffix
  match takes `x.com.a.Foo` for `com.a.Foo`; classes of one full name in two modules share one's code; and two paths can
  derive one project name. `GroundedInOwnCode` is stated with `Matches`, which is what the code can tell.

## 4. Proofs

All theorems hold for every value of the constants under the modules' ASSUMEs (well-typed
constants; in `DescriptionStore` also `SignaturesAreHashed`, that two revisions with one
projection have the same methods, as `_class_skeleton` includes the signatures).

- `DescriptionStore_proofs`. `TypeCorrect` by `TypeInv`, which adds to `TypeOK` that the
  loop variables may hold at each step. `ServedClassTextIsFresh`, `FreshImportIsServed` and
  `CacheIsGenerated` rest on one inductive invariant, `FreshInv`: the properties themselves are not
  inductive because a commit makes visible what was computed steps ago, so it states them of
  `indexTx`/`cacheTx` as well, of the durable rows a later command will read, and of the moment
  between the two commits, when the index is ahead of the store. On it stand, by `RowSteps`, which sums up
  in which ways a step writes rows:
  - `ImportsAreServedFirst` and, of method texts, `MethodImportsAreServedFirst`, for any entries and crashes:
    `StoreInv` says that the open transaction of the store differs from the committed one only where the index's
    transaction has the very text.
  - `ImportsSurviveScans`, the promise of the finding `store_torn_import`, for behaviours in which no crash falls
    between `conn.commit()` and `cache.commit()` (`StoreCommitSurvives`, a condition on steps). `DurableInv` keeps
    every imported text of the index's transaction in the store's, and of the committed index in the committed store
    except at that point. Every other crash, edit and entry is allowed.
  - `WholeEntriesKeepMethodsFresh` and `WholeEntriesKeepMethods`, the promise of the finding
    `store_stale_methods`, for imports of whole classes (`WholeEntriesOnly`). `WholeInv` says that the imports of a
    class have one hash (`WholeImports`: none of its methods is imported, or every method of a revision with the
    hashed projection is, together with the class), so that one hash may decide for all, and that an imported method text
    is served next to the class text it came with (`PairedRow`). `KeepInv` says of the open transaction
    what the action property will ask of its commit.
  - `CrashesLoseLittle`, on `TypeInv` alone: what a dying describe has generated and not committed is
    counted by its progress counter (`LossInv`).
- `EndpointReattribution_proofs`. `HidingStrandsNobody` and
  `OwnMappingIsServed` assume `Target \subseteq Interface`, without which they are false. `RepresentedInv`:
  whoever is recorded as covering has a visible row, only interfaces await a decision, and a
  hidden row's implementors are all covered. `NoPhantomLingers` needs no assumption: by `PhantomInv` an
  overriding controller is still to be visited or recorded as covering, whatever the order. `FoundLinksStrandNobody`:
  with Java's links instead of the walk's, if the walk finds them all (`LinksFound`, of the initial graph). Types are a theorem
  of the module too (`TypeCorrect`).
- `IndexFile_proofs`. `TypeCorrect`, `QuiescentIndexIsWhole` by `IndexInv`: the scan is connected to the file at
  the path, and a client past its existence check at a missing path exists only while a scan is
  under way or after one was cut short. `ScansAfterSweepRebuild` and `QuietClientsGetAnswers` (action
  properties) add `PairIsOwn`: once swept, the pair belongs to the file at the path. A first read of an unlinked
  index ends the premise of both until the next sweep. `ServerScansRebuild` needs no sweep as a premise if only the
  server scans, is not killed between its two unlinks, and nobody reads an unlinked index for the first time
  (`NoLateRead`, an assumption on behaviours that the code does not enforce): `SweepInv` says
  that sidecars are then left behind only while a scan is about to remove them. `ConnectedIndexStaysWhole` (`FilesInv`:
  a scan never builds into a file that is whole) holds without assumptions.
- `BatchGenerate_proofs`. `BatchInv` carries `TypeCorrect`, `WorkDirHasOneArch` and `MergedIsNewest`: one conjunct says
  from which export the chunk files are (`ArchInv`), what a phase may find in memory (`WorkInv`, `PoolInv`), that
  no text is newer than the run, nor a retry's older than what it retries (`OrderInv`), and what a merge holds (`MergedInv`). On it stand
  `MergedIsOnDisk` (`BackedInv`: memory and sidecars agree; assumes every answer has a class list),
  `MergedIsOfThisGeneration` (`BornInv`: nothing on disk or in memory is older than the last clearing; assumes that no
  clearing is cut short) and the refinement `BatchKeepsLedger` (`FilesInv`: which files each phase leaves), under
  `Undisturbed`: answers have class lists, nobody else writes answers, no run is killed while chunk files or
  sidecars are written or unlinked, and no removal of the directory fails in part. Each assumption is one of the divergences above: without it the
  theorem is false. From the refinement follows `NothingLearnedIsLost`, the ledger's promise told of the sidecars.
  `WholeArchIsPublished`, the promise of the finding `batch_lost_chunks`, needs less: only that no run is killed in
  clear or write, and no removal is cut short (`FilesUncut`), whatever the answers. `NoChunkIsLost` needs nothing: what reached a chunk file is merged
  before the file goes (`PublishedInv`), also when the removal is cut short. `SessionsAreNeeded` (`WantedInv`: whatever is in the pool is unanswered in this
  run and, by `--resume`, incomplete on disk) needs nothing either.
- `ProcTree_proofs`. `ProcInv`: whoever holds the pipe runs (`WritersLive`), the child never leaves its
  group (`Leader`), after `killpg` no member of the group runs and none can join (`GroupKilled`), and what
  was captured at the pipe's end is all (`CapturedIsAll`). `TimeoutKillsTree` is the docstring's promise of the whole
  tree, for behaviours in which nobody leaves the group: whoever runs is then a member (`AllMembers`).
- `ChangeImpact_proofs`. `TextsFollow` and `EdgesFollow` say what every reference has become after each pass. A text keeps
  the simple name written (`TextNames`), is the class's full name if `Told` (`ToldText`), and unless misread links
  its class (`CandidateHit`): this gives `EveryDependentIsFound` and `OnlyTheBlurredAreConfused`. `WalkFindsShortestChains` rests on `WalkInv`, the loop invariant
  of a breadth-first search: the frontier is the last level, every visited class is one above its lowest dependency,
  and what is not visited depends on nothing below the last level.
- `TraceEndpoint_proofs`. `TraceInv` names the shapes a path can have (`Called`, `Delegated`, `Guessed`, then one more
  step) and what each says of the index. `HighMeansForced`, `SilenceMeansComplete` and `CallsComeFirst` follow at
  the end; `WarningsAreTrue` and `StepsLeadOn` need `DeservedInv` and `LinkInv` besides. The lemmas on `SelectInSeq`
  (the first call with a property) take the least of a non-empty set of positions from the well-foundedness of the numbers.
- `CbmcGrounding_proofs`. `GroundingInv`: the permits in use are as many as there are classes in a call (`HeldInv`,
  by cardinalities), code comes from verified nodes only (`CodeInv`), a prompt exists only when all fetches have ended, and
  blocks repeat the code (`PromptInv`, `BlockInv`). `ConfigurationIsTheUsers` is an action property.

**Only model-checked:** liveness (`RunReturns`, `CallReturns`, `EveryChunkEnds`), which is outside the
prover. The safety facts under two of them are theorems, for pools of any size. A batch run under way always has a step
whose guard holds (`RunIsNeverStuck`; the one assumption is that a session can answer at all), and each of its steps
leads to a later phase or leaves a strictly smaller finite set to do (`RunMovesOn`). While a chunk of the grounding
has not ended some guard holds (`NoDeadlock`: whoever waits for a permit waits for a call, by
`HeldInv`), no permit is lost (`PermitsComeBack`), and each step takes the configuration, one class or one chunk
further (`NothingIsTakenBack`). That fairness then leads to the end is the part TLC checks. In `ProcTree` the
caller's guards never depend on the processes (`TimeOut`, `Drain`), which needs no theorem. Every other property of the runs is a
theorem, those of the violated runs under the condition that run lacks.

## 5. Not modelled

- *Description store*: full-text and package/module/project aggregation after describe (rebuilt from the rows the
  model has); `export_flat` and id normalisation in `flat_arch.py` (an entry is given with the class
  it resolves to); two commands on the description store at once.
- *Batch*: the wording and size limits of prompts, `--dry-run`, the copying of a foreign `--resume` directory.
- *CBMC*: the text of toml and `.env` files, and how an answer's JSON is unwrapped (any answer is possible in the model).
- *Process trees*: the `taskkill` branch of Windows; stdout and stderr as two pipes.
- *Index lifecycle*: two scans at once (two
  wal-index files on one database are undefined in sqlite); lock waits and the 5 s busy timeout;
  the migration of indexes of older versions (`repository.py:45`); `--resolve` and `--report`.
- *Java indexer*: the parser, which is text processing, and the base paths of endpoints.
- *Impact*: the limit on the number of results; the confidence of a direct dependent (by kind of
  reference); suggested files and test names. *Layers* (`layers.py`): a count per layer.
- *Findings*: the cycle search over modules, without state or order.
- *Fact scanners, queries, search, reports, packs, evidence, summaries, evaluation*: SQL text, regular expressions and
  formatting, without an order of steps a model would add to a test.

## 6. Plan

What is left, in this order; each with its MC module, runs, and proofs where they are marked.

1. `ModuleCycles` (`index/findings.py`): the depth-first search with its shared visited set as a state machine;
   every reported cycle is a cycle (proof), and which cycles are missed.
2. `StoreLocks`: describe and import-arch on the description store at once: write locks of the two
   databases, their order, the busy timeout.
3. `IndexFile` extended: describe on an unlinked file composed with `DescriptionStore`; concurrent
   migrations.
4. `StructureHash` (`describe.py:341`): a pure module, which justifies `Projection` and `Snippet`.
5. Further proofs: what a second command on the store may do to `FreshInv` (with 2); that `describe` leaves no class of
   the index unsettled unless it dies; which controllers are stranded when a link is not found, per interface.
