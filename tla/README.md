# TLA+ models of Parus

Parus is a programming language: a compiler (`frontend`, `backend`,
`compiler/parusc`), a build tool (`tools/Lei`), a language server
(`tools/parusd`) and a small runtime (`backend/src/prt`). This directory models
the parts in which steps of several actors meet, or in which state outlives a
step: the actor runtime, Lei's graph cache and build runner, the language server
with its incremental parser, and the compiler's treatment of ownership, from the
analyses that accept a function to the drops it is lowered to. Paths below are
relative to `src/`.

## The system and its parts

| part | state | operations | what is hard about it |
|---|---|---|---|
| actor runtime, `backend/src/prt` | per object two atomic counters, a lock, the draft; the global number of live actors | new, clone, release, enter, leave | two independent decrements, each followed by an unlocked check that may free the object; lock errors that are ignored; re-entrant calls |
| actor calls, `frontend/src/oir/oir_builder.cpp` | none at run time | emits the runtime calls around constructors and methods | which handle a caller keeps during a call |
| Lei graph cache, `tools/Lei/src/cache` | three files per entry and plan, three tmp files | load, validate, store | concurrent `lei` processes, edits between evaluation and hashing, kills between writes, a shared tmp name |
| Lei command line, `tools/Lei/src/cli` | none | emit, `--build`, queries | `--build` rewrites the cached ninja file in place and reads it back |
| Lei evaluator, `tools/Lei/src/eval` | loaded modules, environments, budgets | load, evaluate, synthesise plans | import cycles, conflicts, budgets |
| Lei lowering, `tools/Lei/src/graph/ninja_lower_*` | none | project to actions, edges, build lines | every file a command reads has to be an input or ordered by an edge |
| Lei runner, `tools/Lei/src/graph/ninja_runner.cpp` | file times; done actions within a build | parse, sort, passes, needs_run, touch, run | incremental builds after failures and edits, cycles |
| incremental parser, `frontend/src/parse/common/incremental_parse.cpp` | top-level items of the last parse, the source texts they point into | initialize, reparse with edits: merge or full rebuild | a long sequence of edits must equal one parse; old texts must stay as long as items point into them |
| language server, `tools/parusd/src/main.cpp` | open documents and their sessions, pending edits, two lint caches; export indexes on disk | didOpen, didChange, didClose, didChangeWatchedFiles, requests, publish | caches that outlive what they were made from; unsaved configuration against the one on disk; files that change meanwhile |
| type checker, `frontend/src/tyck` | ownership state of move-only variables, scopes, types | walk over the tree with merges at branches | states merged where paths meet |
| capability analysis, `frontend/src/sir/analysis` | active borrows, escaped variables, scopes | walk over the SIR with merges and fixed points | paths that end, loops, scopes that cut lists back |
| OIR builder, `frontend/src/oir/oir_builder.cpp` | cleanup items and their flags per scope | lowering of statements, emission of drops | drops are placed at compile time, values are moved at run time |
| macros, names, OIR passes, GOIR | per compilation | passes over trees and graphs | budgets, rewrites |
| C header import, `frontend/src/cimport` | payload cache | import, encode, decode | staleness of cached payloads |
| backends, linker, parlib | per compilation | lower, emit, link, encode | bounds of a binary format |

They interact as follows. Compiled programs call the actor runtime from many
threads. `lei` evaluates modules, keeps the result in the cache, lowers it to
build lines and, with `--build`, executes them; its commands are `parusc` and
`parus-lld`, which communicate through files: sources, export indexes and their
fragments, objects. `parusd` drives the incremental parser and reads Lei's
modules for the units of a bundle; it has `parusc` write the export indexes of the
bundles a document may see. Within a compilation the type checker and the
capability analysis each accept or reject a body, and the OIR builder places the
drops of what was accepted.

What makes each part correct:

* actor runtime: methods that may write exclude every other method on the
  object, no write is lost, nobody touches freed storage, every actor is freed
  exactly once, every call returns;
* graph cache: a hit is one whole evaluation, the one the files on disk would
  give, and faults do not disable the cache for ever;
* `--build`: what is executed is what was emitted;
* lowering and runner: a command runs after those that make what it reads, a
  build that succeeds leaves every product up to date whatever happened before,
  a cycle is reported if there is one and only then, one of bundles before any
  command runs;
* incremental parser: after any edits the items, and what is reported, are those
  of a parse from scratch, and no item points into a text that is gone;
* language server: what the editor shows is what a server started now would show,
  under the configuration in force;
* ownership: no accepted body reads a variable that was moved away or breaks a
  borrow, bodies that keep the rules are accepted, and every value is dropped
  exactly once.

`PROJECT.json` lists the hazards with their lines.

## Modules

| module | models | 
|---|---|
| `ActorRuntime` | `prt_hosted.cpp`, `prt_freestanding.cpp` and the call sequences of the OIR builder |
| `SharedActor` | abstract: what a program sees of an actor |
| `ActorRuntimeProofs` | theorems about `ActorRuntime` |
| `MCActorRuntime` | instances for TLC |
| `GraphCache`, `MCGraphCache` | `graph_cache.cpp` under `cli/main.cpp` |
| `GraphCacheProofs` | theorems about `GraphCache` |
| `BuildGraph` | `lower_exec_graph` and `emit_ninja`, as operators; kinds of projects |
| `EntryPlan` | which projects `from_entry_plan_value` and the lowering refuse, as operators |
| `BuildRunner` | `run_embedded_ninja` over plans of build lines |
| `LeiBuild` | `lei --build`: the runner on the plans of projects, those that are refused included |
| `MCBuild` | projects, their plans, and the instances for TLC |
| `BuildRunnerProofs` | theorems about the runner on any plans |
| `BuildPlanProofs` | lemmas about the plans of `BuildGraph` |
| `LeiBuildProofs` | theorems about `LeiBuild` and the search for cycles |
| `IncrementalParser` | `incremental_parse.cpp` and what it needs of the parser, as operators on sessions |
| `IncrementalParserProofs` | theorems about a session and an edit |
| `LintContext` | the lint context of `parusd`: units, export indexes, the two caches |
| `LanguageServer`, `MCLanguageServer` | the handlers of `parusd` over both |
| `LintContextProofs` | lemmas about the walk over the dependencies and what it loads |
| `LanguageServerProofs` | theorems about the server |
| `OwnershipCheck` | function bodies, and the ownership state of the type checker |
| `CapabilityAnalysis` | `capability_analysis.cpp` |
| `DropLowering` | the cleanup items and drops of `oir_builder.cpp` |
| `OwnedExecution`, `MCOwnedExecution` | a body compiled by the three and executed; the bodies that are tried |

Definitions whose comment begins with "Wrong variant" are not part of the
models: each is a plausible mistake in the code, kept to show that a property
notices it.

### ActorRuntime

`refcount` and `active` are the two counters, `writer` and `readers` the lock,
`draft` the number of increments the draft holds, `live` is `g_live_actors`.
`refs` are the handle values programs hold, `frame` the calls in progress (an
`ActorContext` and where its thread is in `enter`, the body or `leave`), `reap`
where a thread is in `try_destroy_actor_`. Every atomic access is a step:

* `Construct` is `__parus_actor_new` and the increment of the `enter(init)` that
  compiled constructors call next; the object is not visible in between;
* `Clone`, `Move`, `Release` work on handle values; `Release` is the decrement
  and, from 1 to 0, hands over to `CheckRefcount`, `CheckActive`, `Destroy`,
  `Uncount`: the two loads, the free and the decrement of the live counter;
* `Enter` is the increment, `AcquireLock` the rest of `enter`. `AcquireIgnored`
  is `enter` after EDEADLK, whose result the code drops. `EnterFail` is the
  failed allocation of the context;
* `LoadDraft`, `StoreDraft` are a body that reads the draft and writes back one
  more; `commit` and `recast` are empty in the source;
* `Unlock` and `Leave` are the two halves of `leave`. Unlocking a lock the
  thread does not own is undefined and may or may not free it.

`Hosted` chooses the runtime (reader-writer lock or spin lock). `Calls` says
whose methods may call whose. `BorrowReceiver` says that a thread keeps the
receiver's handle during a call: compiled callers do, because a receiver is not
among the consumed arguments (`oir_builder.cpp:4129-4148`).

Left out: `actor_new` that fails (changes nothing), `release` on a count of 0
(the invariant `Counts` shows that it cannot happen), the reuse of addresses, the
Windows lock, and what a compiled body does with the null context of a failed
`enter`.

### GraphCache

`src` and `listing` are the modules and the directory on disk, `file` and `tmp`
the cache's files, `pc` and `run` a process and what it has read. A text is
known by the evaluation it came from. Every read, open, write, rename and remove
of a file is a step. An open file is followed through renames and removals
(`fd`), so that a write of one process can land in the file that another one has
just put in place; two writes into one file give one of the texts, a torn text,
or a meta text with the last lines of the longer one.

Faults are kills and writes that fail. With `ShortWrites` a write may also leave only a
part of its text: `write_atomic_text` and `write_text_file` ask the stream for `good()`
before it is closed, so that what the close fails to flush goes unnoticed (`CutTmp`,
`CutFill`; the run goes on) or an earlier part fails and is noticed (the store is given
up, the output is an error). The module lines come last in a meta text, and
`decode_meta` does not miss those that are not there (`Shortened`). `spoilt` is a history
variable: the builds whose own write was cut, or whose file another process wrote,
replaced or removed before they read it.

Assumptions: one entry and plan; hashes do not collide; a text fits one stream buffer,
so that it reaches a file in one write, whole or cut; imports are one level deep; errors
of the evaluation other than a missing module end a run the same way; `--build` without
`--out`.

### EntryPlan, BuildGraph and BuildRunner

`EntryPlan` decides which projects are built at all: modules need sources and
codegens outputs, top heads belong to one bundle, imports need a declared dependency,
dependencies must exist, and `DetectBundleCycle` is the depth-first search: `SearchStep`
begins or ends the visit of a bundle, with the stack and the finished bundles as the
code's marks, and `Search` is the state after n steps. Left out are values of the wrong shape, the heads of modules within a bundle,
and the rule that several bundles need several files (`cli/main.cpp:240`).

`BuildGraph` maps a project that was accepted to its build lines. Paths carry their
spelling, because the code compares paths as strings. An action is a triple that sorts
as the runner sorts its name. `reads` and `writes` say what a command touches
(`P0Compiler.cpp:2642-2695`, `:7230-7488`, `:7765-7857`), `ins` and `outs` what the
build line says. Every parusc command also reads the C headers that its source imports
(`Header`), the compiler itself and the installed export index of core (`Toolchain`),
none of which a build line lists; they are the files `External` of the runner. A prepass
writes an index and, beside it, the sidecar of templates; both come from one command and
are read together, and `Index` stands for the two. Further, nothing but a touch ever
writes a stamp. The last line, `build all: phony ...`, is an action like the others: the
runner ignores it only when it has no inputs.

`BuildRunner` runs builds over the files: `mtime`, and `made`, which action wrote a file
and what it had read (headers and toolchain included). `Skip`, `Touch`, `Run`, `Fail`
treat the next ready action in the order of the sort, `EndPass` ends a pass: success, a
cycle, too many passes, or another pass. Users edit at any step, commands fail; between
builds an edit of config.lei may turn one project into another (`Becomes`). `Refuse` is
a build of a project that `EntryPlan` refuses: nothing is written. `LeiBuild` puts the
three together: its plans are those of `Projects`.

Assumptions: the clock advances with every write; a command is atomic and one
that fails writes nothing; `lei` runs in the project's root.

### IncrementalParser, LintContext, LanguageServer

A document is a sequence of cells, one per top-level construct: a complete
item, one with a syntax error, one of a kind the merge never starts from, a
statement without its `;`, an expression statement that such a statement can
swallow, the core marker, and a `use` that is legal only behind it. A byte offset is
a position (the first byte of a cell, or a later one), which preserves every
comparison the code makes. `FullRebuild` and `IncrementalMerge` are the two ways a
session is brought up to date; `CanMerge` is the sequence of early returns of
`try_incremental_merge_`. Items carry the text they point into (`owner`).

`LintContext` builds what a document may see. A configuration says of each bundle its
dependencies and its source files, and an edit of config.lei may change both. An index
records what each file said from which it was made; `IndexStale` is the whole of
`index_stale_for_bundle_`: a listed file, the compiler or the index of a dependency is
newer, or a bundle of several modules lists one whose head the index lacks
(`HeadMissing`). `BareCompiler` is a parusc that is found by its bare name, which is no
file, so that every index counts as older (`main.cpp:2229`). `GetBundleUnits` evaluates
config.lei or finds it in the cache, `EnsureBundleIndex` walks the dependencies depth
first and has stale indexes written again, `LoadOneBundle` reads an index and repairs an
unreadable one once. The recursion of `ensure_one_bundle_index` is a machine with a
stack (`EnsureStep`): it goes on to the first dependency that is not made sure of, is
done with a bundle, or fails, at a bundle that is not declared, whose index cannot be
made, or that is already on the stack; a failure ends every call in progress. File times
occur only in comparisons, and the model keeps their outcomes.

`LanguageServer` has one action per handler, because the server handles one message at a
time: `DidOpen`, `DidChange` (a batch of content changes, each applied to the text the
one before left), `DidClose`, the same for config.lei, which becomes the overlay,
`DidChangeWatchedFiles`, and `Request`. Each is the whole handler, the analysis and the
publishing included. Writers of the project's files come in between (`WriteConfig`,
`WriteSource`, `ReplaceCompiler`), and the watcher may report late, or report something
else.

Assumptions: one Parus document in one project; file times differ; a source file keeps
its module head and the bundle that may list it; an index says what the files of its own
bundle export, whatever they import; a version that is not newer is the only reason to
drop a change; evaluating config.lei has no other inputs. Left out: the core marker's
override of the lint context (`main.cpp:2989-3015`), the "core::" heads that a bundle
named core adds, and configurations with a circle of dependencies, which evaluation
refuses (`ninja_lower_graph_build.cpp:768`); the check of `ensure_one_bundle_index` for a
bundle that is on the stack is modelled, though for that reason the code never gets there.

### OwnershipCheck, CapabilityAnalysis, DropLowering, OwnedExecution

A body is a sequence of statements: uses by value, borrows for a call or bound to a
reference, `~x`, assignments, declarations of owning variables, reads and writes
through references, and if, while, do-while, for, do, switch, try, and jumps. The
three compiler modules are functions of a body, and each is a walk over its
statements with the state the code keeps:

* `TyBlock` follows `check_stmt_*`: initialized, moved or maybe, merged after
  branches; one pass over loops;
* `AnalyzeBlock` follows `analyze_stmt_` and `analyze_value_`: escaped variables and
  the ordered list of active borrows, merged at joins, iterated to a fixed point for
  while and do-while; a scope's end cuts the list back to its old length;
* `LowerBlock` follows `lower_stmt`: it returns the body with `drop` statements, as
  the cleanup items and their flags place them.

`OwnedExecution` takes any of the bodies, compiles it, and executes the lowered
form on every path. Its rules are those of `docs/reference/language/spec/19.md`,
stated on what an execution holds: `moved`, `full` (storage that holds a value) and
`refs`; they know nothing of the analyses.

Left out: consume-else, core memory and array calls, globals and statics, if- and
block-expressions, indexes that are not constant, immutability, the metadata of
escape handles, the check after a call that may throw, payloads of exceptions, and the
path on which no typed catch clause matches and the exception is thrown on
(`oir_builder.cpp:5354-5369`): a throw inside a try always reaches a clause.

## What TLC checks

| run | instance | result |
|---|---|---|
| `actor_calls` | hosted, 2 threads, 2 actors, 2 handle variables per thread, depth 2, 2 calls per thread, `a1` calls `a2` | 306 185 states, holds |
| `actor_reentry_memory` | hosted, 1 actor whose methods call it again, 3 calls per thread | 678 036 states, holds |
| `actor_progress` | freestanding, as `actor_calls` with one variable, fair | holds |
| `actor_reentry` | as `actor_reentry_memory`, 2 calls | `Exclusion` violated |
| `graph_cache` | 2 processes, 2 modules of 2 texts, 1 edit, 1 fault, quiet reads, no cut texts | 1 398 426 states, holds |
| `graph_cache_heals` | 1 process, 2 edits, 2 faults, cut texts included, fair | 787 710 states, holds |
| `build_incremental` | 25 projects, 3 builds, 1 edit, 1 failure | 553 276 states, holds |
| `build_codegen` | a codegen with relative paths | `ProducedFirst` violated |
| `server_session` | 2 bundles, 4 configurations, one of which lists another source, documents of up to 3 cells, 2 retained texts, an unreadable index at the start | 282 356 states, holds |
| `server_diagnostics` | documents of every kind of cell | `PublishedIsFresh` violated |
| `ownership_accepted` | 56 656 bodies, executed on every path | 534 315 states, holds |
| `ownership_drops` | one compound statement | `NoDoubleDrop` violated |

The four violations are disagreements between the code and its docs or tests;
`PROJECT.json` states each with the lines it contradicts.

* `Exclusion`, `Serialized`: with an acyclic call graph the lock does its work.
  A method that calls its own actor again loses the lock in the hosted runtime
  (`actor_reentry`), though counting and freeing stay right
  (`actor_reentry_memory`).
* `NoUseAfterFree`, `AllReclaimed`: hold because a call keeps a handle, so the
  two decrements cannot both be the last. For a client of the C interface that
  releases the handle during a call (`BorrowReceiver = FALSE`) both threads may
  find the counts at zero, and `AllReclaimed` fails.
* `ImplementsSharedActor`: with `phase`, `draft` and `refs` as the abstract
  state, every step is a whole increment, a change of the handles, a creation or
  a reclamation, or invisible.
* `HitIsOneEvaluation`, `HitIsFresh`: the meta file's hashes make the three files
  consistent in spite of the shared tmp name. Freshness needs that nobody edits
  while a run reads modules (`QuietReads`): the modules are hashed after they were
  evaluated, and an edit in between is cached as if it had been evaluated. It also
  needs modules that do not look at the file system (`Globs = FALSE`): what
  `fs.glob` returned is not validated. And it needs meta texts that did not lose their
  end (`ShortWrites = FALSE`): modules whose line was lost are not compared, and after
  an edit of one the hit is stale. `HitIsOneEvaluation` needs none of this, because the
  hashes of graph and ninja come before the module lines.
* `BuildRunsItsGraph`: what `--build` executes is the whole text it emitted, for any
  overlap of two processes (`graph_cache`) and for cut texts (`graph_cache_heals`), but
  for the builds in `spoilt`. Those are real. The cached ninja file is rewritten in
  place and read back by name (`cli/main.cpp:419`), so that a second process may
  truncate, replace or remove it in between; and a write that fails at the close is not
  noticed (`cli/main.cpp:35`), so that an empty or cut file is executed and the build
  succeeds. What remains is that nothing else gets between: no old text, no text left by
  a fault of an earlier run, no store of the same process that reaches a file late.
* `Heals`: after the last edit and the last fault a plain run misses at most once
  more.
* `ProductsCurrent`: objects, binaries, generated files and task outputs are up to
  date after a build that succeeds without an edit during it, whatever failed or
  was edited before. Compile commands under-declare their inputs, but their
  bundle's index has all sources as inputs and is an input of theirs. Up to date means
  up to date with what some build line lists. C headers that a source imports, the
  compiler and the core index are read but are nobody's input: after an edit of one of
  them a build succeeds, runs nothing and leaves products of the older file. `Current`
  allows that for the files in `External` and for no other; a product that was made
  after such an edit was made of the new file.
* The same does not hold for export indexes and fragments: fragments are named by
  the position of their source and declare one source while they read all, so that a
  source removed from the plan, or a plain edit in a bundle of two sources, leaves a
  stale one. No property claims it.
* `RefusedIffFaulty`: a project is refused only for a fault that can be pointed at, and
  with one it never gets to run a command.
* `CyclesOfTools`: a build that stops in a cycle has none but through its codegens and
  tasks, so that a cycle of bundles is reported before anything is written. The cycles
  of tasks are not searched for; the runner finds them when it no longer progresses
  (`EndsRightly`).
* `ProducedFirst`: holds for the projects of `build_incremental`. The binary there
  depends on a library, and so its fragments come a pass later than the codegen.
  Without a dependency, a fragment of a written source runs before the codegen of
  its neighbour even if all paths are absolute, as it declares its own source only.

* `ItemsCurrent`, `ItemsOwned`: for documents of complete items a merge keeps
  exactly the items that did not change, whatever the edits of a message, and
  never an item whose text was dropped. With a missing `;` or the core marker a merge
  can differ from a full parse, because the tail is parsed without what precedes it;
  `PublishedIsFresh` is violated there as well.
* `PublishedIsFresh`: errors of kept items are not reported again after a merge, and
  a project refresh reports no syntax errors at all, since it parses nothing.
* `LintedWithConfigInForce`: holds although a definition request builds a context
  from the disk while config.lei is open, because contexts under an overlay neither
  read nor fill the caches.
* `NotificationRepairs`: between notifications a context may be stale, for its cache is
  keyed on .lei files only; a notification repairs it, with two exceptions. If the index
  of a dependency was unreadable, the dependent fails in the same pass and its error is
  cached. And if config.lei changed the source list of a bundle, the index is stale only
  by a listed file that is newer or a module head that it lacks, and by the second only
  if the bundle has several modules. So a file that is taken off the list keeps its
  exports in the index, and an older file that is put on it does not bring its own if
  its module is known or the only one (`main.cpp:2212-2269`). `ListKnown` says when the
  list shows, and the property is about those; it is stated on what the index was made
  of, not on `IndexStale`.
* `NoUseAfterMove`, `BorrowsRespected`, `BorrowsStayValid`: hold for the bodies of
  `MCBodies`. The two analyses are lax where `Covered` says so: a move-only variable
  consumed by value in a loop and not assigned again; anything but reads in a `for`
  body (analysed once, as if it ran exactly once); assignments on paths that a jump
  leaves out, or in a switch without default; a rebinding inside an inner scope,
  after which the wrong borrow is cut off. A reference that was written through
  loses its borrow, a copied one has none, and a by-value argument may take a
  variable that is borrowed. The bodies leave these out; the rest is every
  combination of the statements listed there.
* `NoFalseAlarm`: straight-line bodies that keep the rules are accepted, except
  that a `&mut` borrow of one field blocks the others.
* `DroppedOnce`: where moves do not depend on the path taken (`Steady`) each value is
  moved or dropped once on every path, early exits included. Where they do depend
  on it, the flags of cleanup items cannot be right for all paths
  (`ownership_drops`). `Steady` also excludes a return in a throwing function or in
  the body of a loop or try, after which drops are missing.

Bounds. Two threads are enough for the races: they are between two decrements or two
lock owners. Two calls per thread and depth 2 allow a nested call and a call after it;
two handle variables allow a clone that outlives the original. Two processes and one
shared tmp name give every overlap of two stores and of a store with a load. Three
builds give a first build, one that fails or is edited, and one that recovers. The
projects of `build_incremental` are a single library, a binary over two libraries with a
codegen and a task, and tasks in a circle, which may turn into one another; and
libraries by themselves: two with every choice of dependencies, three in a circle, a
chain and a triangle, and one example of each other fault. A library and a source of the
binary import a header, and the one edit may be of a source, of the header or of the
toolchain. Three cells give an item before, at and behind the edit, and a merge onto a
merge; the limit of 16 retained texts is 2. `OneAtATime` keeps the product of edits and
files small: documents of two and three cells are edited while config.lei is closed and
the project quiet, a document of one cell also while config.lei changes, and the source
lists, the sources and the compiler change under a document as it was opened; the lint
does not look at more of a document than whether its parse reported an error. Bodies
have up to two compound statements, nested or in a row, two owned variables, two
move-only ones and two references: enough for a state to be carried around a loop,
through a join and out of a scope. Loops run any number of rounds.

Deadlock checking is off for the actor, build and ownership runs: a program may
stop, calls and builds are bounded, a body ends. The cache and server runs check it.

Fairness. `actor_progress` assumes weak fairness of the steps a thread makes on
its way out of the runtime or of a method: threads are scheduled and bodies end.
The spin lock itself is not fair; because the number of calls is bounded,
contention ends. `graph_cache_heals` assumes that a running process goes on.
Neither assumes that programs call, edit, start or release anything.

## What TLAPS proves

The theorems hold for every value of the constants. Each needs an inductive
invariant, defined with the model or with the proof and named here; none of the
properties but the type invariants is inductive by itself.

### The actor runtime (`ActorRuntimeProofs`)

For every set of threads, actors and handle variables, every depth, bound and call
graph, and for both runtimes:

* `IndInvHolds`: `Spec => []IndInv`;
* `TypeCorrect`, `MutualExclusion`, `MutationSerializes`, `MemorySafety`,
  `EverythingReclaimed`: `[]TypeOK`, `[]Exclusion`, `[]Serialized`,
  `[]NoUseAfterFree`, `[]AllReclaimed`;
* `RuntimeImplementsSharedActor`: `Spec => ImplementsSharedActor`, the refinement of
  `SharedActor`. Every step is one of its steps (a body at once, a change of the
  handles, a creation, a reclamation) or is invisible. `IndInv` is needed for it: the
  stored draft is one more than the current one only because the lock was held since
  it was loaded, and a reclaimed object has no handles left.

All assume `Disciplined`: receivers are kept during a call, and `Calls` is
irreflexive and transitive. The violations above show that each half is needed.

`IndInv` adds: the counters are the
cardinalities of the handles and of the calls in progress (`Counts`); a call in
progress has its receiver's handle (`Held`); a thread in `try_destroy_actor_`
either still has a handle, and will turn back at the first load, or is the only
one there and the object has no handles (`Reaper`); calls of a thread are nested
along the call graph (`Nested`), so that a thread never owns the lock it asks for
and EDEADLK does not happen (`NeverIgnored`); the lock's owners are the calls in
their bodies (`LockOwners`, `LockExclusive`); the live counter is the number of
live objects and of those being taken off (`LiveCount`). Memory safety then
follows: with a handle left `refcount` is not 0; without one there is no call,
and one thread frees the object once.

### The graph cache (`GraphCacheProofs`)

For any processes, modules, texts, edits and faults:

* `CacheTypeCorrect`: `[]TypeOK`. `TypeInv` adds which file an open one is.
* `HitsAreOneEvaluation`: `[]HitIsOneEvaluation`. `PairInv`: every meta text, in a
  file, in a tmp file or read, names one evaluation for both other texts, also when
  two writers have mixed their lines; a process that reports a hit has compared both
  with its hashes.
* `HitsAreFresh`: `[]HitIsFresh`, assuming `QuietReads`, `~Globs` and `~ShortWrites` for
  the reasons given above. `FreshInv`: a meta text has the hash of every module that its
  evaluation loaded (a foreign tail can only add hashes), and what a process has
  loaded or compared so far is still what is on disk.
* `BuildsRunTheirGraph`: `[]BuildRunsItsGraph`, for any number of processes and with
  texts that are cut. `BuildInv`: a build that is not in `spoilt` has the ninja file to
  itself, empty from the open to the close and then whole until it is read.

### Builds (`BuildRunnerProofs`, `BuildPlanProofs`, `LeiBuildProofs`)

On any plans, and with projects that turn into one another:

* `RunnerTypeCorrect`: `[]TypeOK`, with `Ordered`: what is done was done after
  everything it waits for.
* `BuildsEndRightly`: `[]EndsRightly`. `Passes`: every pass that moves does an
  action, so that there are at most as many passes as actions and one, and the limit
  of n * n + 8 is never the reason to give up. A pass that does not move leaves actions
  each of which waits for another of them: a cycle.
* `CommandsFollowTheirWriters`: `[]ProducedFirst`, on plans in which whoever reads a
  written file lists an output of its writer (`Declared`).
* `BuildsAreCurrent`: `[]ProductsCurrent`, on `Traceable` plans: they are `Declared`, a
  file has one writer, and what a line does not list of what its command reads is listed
  by a command whose output it does list, or is `External`. `History` is the argument: a
  file that was read when another was made and was written since is newer than that one.
  So an output that is older than nothing listed was made of what is there now;
  `DoneWell` says it of what the running build has done.

On projects (`LeiBuildProofs`, over the lemmas of `BuildPlanProofs`), from the assumption
that they are `WellShaped`: finitely many bundles, and what the parser of values checks.

* `CyclesAreFound`: `DetectBundleCycle(p) <=> ~InOrder(p)`, where `InOrder` says that of
  any bundles one depends on none of the others. `Searching` is the invariant of the
  search: the finished bundles are in order and depend on finished ones only, and each
  bundle on the stack is a dependency of the one below it. A step pushes a bundle or
  finishes one, so that after twice as many steps as bundles all are finished, or a
  bundle was met that is on the stack: those above it are a cycle (`Measure`).
* `FaultsAreRefused`: `[]RefusedIffFaulty`, for all projects.
* `ProjectsCycleThroughTools`: `[]CyclesOfTools`, for all projects. The bundle edges go
  from a bundle to those it depends on or, within one, from fragments to the index to
  objects to the library, so a cycle would be one of bundles; those were refused.
* `BundlesNeverCycle`: without codegens and tasks no build ends in a cycle.
* `ProjectsRunInOrder`: `[]ProducedFirst`, for projects that turn into one another, if
  those that are accepted are `Plain`: absolute paths, tools with different outputs, and
  a generated source that is the only source of its bundle.
* `ProjectsAreCurrent`: `[]ProductsCurrent`, for a `Plain` project if all builds are of
  it or of refused states of it (`OnlyBuilds`), and the user writes no file that a tool
  writes, but for headers and toolchain, which no tool does (`HandWritten`): the inputs
  and edges of fragments, indexes, objects, binaries and tools make every such plan
  `Traceable`.

`MCBuild` evaluates `Plain` on its projects (`PlainProjects`). It is there
because `build_codegen` shows what relative paths do, and because a fragment next to a
generated source runs before the codegen. The largest project of `build_incremental`
has such a neighbour and is outside `Plain`: what keeps its order is a dependency of its
binary, and TLC checks it.

### The language server (`IncrementalParserProofs`, `LintContextProofs`, `LanguageServerProofs`)

For documents of any length, messages of any number of changes, any configurations and
any bundles:

* `ReparsedOK`, `ServerItemsOwned`: `[]ItemsOwned`. `SessionOK`: the retained texts are
  numbered 1 to k with k at most the limit and one, and every item is of one of them.
* `ServerLintsInForce`: `[]LintedWithConfigInForce`. The invariant is about the caches:
  an entry that still has its key holds the units, or a context of them, that config.lei
  on disk says (`CachesOK`). An entry made under an overlay would break it, and so would
  an invalidation that forgets one. With it every context that is built or found is one
  of the configuration in force (`LintRight`); an open document is always analysed and
  published (`Shown`), so that a request analyses nothing.
* `ReparsedCurrent`, `ServerItemsCurrent`: `[]ItemsCurrent`, for documents and changes
  drawn from cells that are `Separate`: no marker, and not both a statement without its
  `;` and one that it could swallow. Across a message the texts stay the same before the
  first recorded edit (`Edited`, `SameBefore`), although positions of later changes are
  in a text that earlier ones have moved, and a merge keeps only items before it. Without
  `Separate` the property is false, as said above; `MCLanguageServer` evaluates that the
  cells of `server_session` are.
* `ServerTypeCorrect`: `[]TypeOK`, for any bundles and dependencies. A walk leaves every
  index right or marked, whatever it was before (`IndexesOK`): one that can be read and
  is not older than its source exports what the source says.
* `NotificationsRepair`: `NotificationRepairs`. A notification is answered with a
  context that is built without caches (`RefreshedContext`), and such a context has what
  the sources export (`LoadsWhatIsVisible`). The argument is an invariant of the steps
  of the walk (`Right`). What is made sure of is declared, newer than its source, closed
  under dependencies and without a circle (`Settled`), so that its bundles are sound.
  The stack is a path of dependencies down from the bundle that is asked for (`Path`),
  so that a failure at its top, a circle included, shows that this bundle is not sound.
  Every step makes the length of the stack plus twice the number of finished bundles one
  larger (`Counted`), and the bundles below the top are different and not finished
  (`StackBounded`), so that the walk ends within `EnsureSteps` steps. The bundle of the
  document is repaired by a second walk, for nothing that is finished depends on it.
  What is finished was made of the files that are listed, because a list that differs is
  either noticed (`ListKnown`) or outside the property, as is an index of a dependency
  that cannot be read; in both cases it would be false.

The constants' assumptions say that there are finitely many bundles, that a
configuration names only them, and that changes name places of a text, the first of which
is position 2.

### Only model-checked

* Liveness (`actor_progress`, `graph_cache_heals`): the prover does not treat fairness.
* Ownership: the modules are recursive over bodies and declare RECURSIVE operators.

## Plan

1. Proofs: `ItemsCurrent` for documents with markers and missing
   `;` as far as it is true; the execution steps of `OwnedExecution` apart from the
   recursive analyses.
2. Commands of the runner that are killed between open and close of an output.
3. Throwing calls and exception payloads in `DropLowering`.
4. The parlib codec and the OIR passes as operators against reference definitions;
   the payload cache of the C header import.

## Not modelled, and why

The typing rules, the backends and most of the lowering are large translations of
trees without concurrency: their data is their content, and an abstraction small
enough to check would say little. Lexers, parsers and the drivers keep no state
across calls. Lei's evaluator and the macro expander are sequential interpreters
whose budgets are plain counters. Formatting, rendering of diagnostics, the editor
extension and the install scripts have no property worth a model. Liveness under
fairness stays with TLC, because the proof system does not treat it.
