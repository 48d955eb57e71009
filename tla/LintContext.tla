----------------------------- MODULE LintContext -----------------------------
(***************************************************************************)
(* The lint context of the language server (src/tools/parusd/src/main.cpp):*)
(* what a Parus document may see of its own and of the other bundles of    *)
(* its project.  It comes from the project's config.lei and from one       *)
(* export index per bundle, which the server has parusc write when it is   *)
(* missing or older than what it is made from.  Two process-wide caches    *)
(* stand before this work.                                                 *)
(*                                                                         *)
(* A configuration is [ok, units]: whether evaluating it succeeds, and for *)
(* each bundle it declares the bundles it depends on and the source files  *)
(* it lists (BundleUnitMeta).  The index of a bundle exports what these    *)
(* files say, whatever they import.  A file has the same module head and   *)
(* can be listed by the same bundle in every configuration.                *)
(*                                                                         *)
(* A file time is only ever compared with another one.  The model keeps    *)
(* the outcome: which inputs of an index were written after it, and        *)
(* whether config.lei was written after a cache entry.  Every write of a   *)
(* file gets a later time than the writes before it.                       *)
(***************************************************************************)
EXTENDS IncrementalParser

CONSTANTS
    Bundles,       \* names of bundles
    MainBundle,    \* the bundle of the document that is edited
    SourceFiles,   \* the source files that each bundle can list
    ModuleHead,    \* the module head of each source file
    BareCompiler   \* parusc is found by its name only, which is no file

ASSUME BundlesAssumption == IsFiniteSet(Bundles) /\ MainBundle \in Bundles

\* A configuration whose evaluation fails.
BrokenConfig == [ok |-> FALSE, units |-> <<>>]

\* No config.lei is open in the editor; the disk decides.
NoOverlay == [open |-> FALSE, cfg |-> BrokenConfig]

EffectiveConfig(project, overlay) ==
    IF overlay.open THEN overlay.cfg ELSE project.cfg

NoContext == [ok |-> FALSE, units |-> <<>>, loaded |-> <<>>]
NoIndex   == [state |-> "missing", exports |-> <<>>, srcNewer |-> {}, compNewer |-> FALSE,
              depNewer |-> {}]
LoadError == [failed |-> TRUE]

EmptyUnits == [full |-> FALSE, key |-> FALSE, units |-> <<>>]
EmptyCtx   == [full |-> FALSE, key |-> FALSE, ctx |-> NoContext]
NoCaches   == [units |-> EmptyUnits, ctx |-> EmptyCtx]

\* The compiler accepts the text, and all of these.
Compiles(text) == ParseErrors(text, 1) = {}
AllCompile(texts) == \A f \in DOMAIN texts : Compiles(texts[f])

\* What a configuration says of each bundle: its dependencies, in their order,
\* and what its source files say.
Deps(units) == [b \in DOMAIN units |-> units[b].deps]
Listed(src, units) ==
    [b \in Bundles |->
        [f \in IF b \in DOMAIN units THEN units[b].sources ELSE {} |-> src[b][f]]]

\* The project as a configuration shows it.
AsListed(project, units) == [project EXCEPT !.src = Listed(@, units)]

-----------------------------------------------------------------------------
(* Export indexes.  A walk is [idx, ensured, stack, failed, loaded]: the   *)
(* indexes on disk, the bundles whose index is known to be there, the      *)
(* bundles being made sure of, the last one first, whether that failed,    *)
(* and what was loaded so far.                                             *)

\* Below, src[b] is what each source file that b lists says, and units[b] the
\* dependencies of b.
Heads(files) == {ModuleHead[f] : f \in files}

\* A bundle of several modules, one of which its index has nothing of.
HeadMissing(src, idx, b) ==
    LET expected == Heads(DOMAIN src[b])
        exports  == idx[b].exports
    IN  /\ idx[b].state = "good"
        /\ \E h, k \in expected : h # k
        /\ ~(expected \subseteq Heads({f \in DOMAIN exports : exports[f] # <<>>}))

\* Wrong variant: only times are looked at.
IndexStale_Times(src, idx, units, b) ==
    \/ idx[b].state = "missing"
    \/ idx[b].srcNewer \cap DOMAIN src[b] # {}
    \/ idx[b].compNewer
    \/ \E d \in idx[b].depNewer : Contains(units[b], d)

\* index_stale_for_bundle_.
IndexStale(src, idx, units, b) ==
    \/ idx[b].state = "missing"
    \/ idx[b].srcNewer \cap DOMAIN src[b] # {}
    \/ idx[b].compNewer
    \/ \E d \in idx[b].depNewer : Contains(units[b], d)
    \/ HeadMissing(src, idx, b)

\* parusc has written the index of b: it is newer than all its inputs that have
\* a time, and older indexes now have a newer dependency.
WriteIndex(src, idx, b) ==
    [c \in Bundles |->
        IF c = b
        THEN [state |-> "good", exports |-> src[b], srcNewer |-> {},
              compNewer |-> BareCompiler, depNewer |-> {}]
        ELSE [idx[c] EXCEPT !.depNewer = @ \cup {b}]]

\* parusc reads the sources and the indexes of the dependencies.
IndexCanBeMade(src, idx, units, b) ==
    /\ AllCompile(src[b])
    /\ \A n \in DOMAIN units[b] : idx[units[b][n]].state = "good"

\* ensure_bundle_export_index_ for the bundle on top of the stack.
EnsureTop(src, units, w) ==
    LET b == Head(w.stack)
    IN  IF ~IndexStale(src, w.idx, units, b)
        THEN [w EXCEPT !.stack = Tail(@), !.ensured = @ \cup {b}]
        ELSE IF IndexCanBeMade(src, w.idx, units, b)
        THEN [w EXCEPT !.stack = Tail(@), !.ensured = @ \cup {b},
                       !.idx = WriteIndex(src, @, b)]
        ELSE [w EXCEPT !.stack = <<>>, !.failed = TRUE]

\* One step of ensure_one_bundle_index: dependencies come first, in their
\* order.  At the first bundle that fails every caller returns false, and so
\* does a bundle that is not declared or needs itself.
EnsureStep(src, units, w) ==
    LET b == Head(w.stack)
        ahead == {n \in DOMAIN units[b] : units[b][n] \notin w.ensured}
    IN  IF w.stack = <<>> THEN w
        ELSE IF b \notin DOMAIN units \/ Contains(Tail(w.stack), b)
        THEN [w EXCEPT !.stack = <<>>, !.failed = TRUE]
        ELSE IF ahead # {}
        THEN [w EXCEPT !.stack = <<units[b][Min(ahead)]>> \o @]
        ELSE EnsureTop(src, units, w)

EnsureStart(walk, bundle) ==
    [walk EXCEPT !.failed = FALSE,
                 !.stack = IF bundle \in walk.ensured THEN <<>> ELSE <<bundle>>]

\* The walk after n steps; a bundle is put on the stack and taken off it once,
\* except for the one at which it fails.
EnsureSteps == 2 * Cardinality(Bundles) + 1
EnsureWalk(src, units, walk, bundle) ==
    LET after[n \in 0..EnsureSteps] ==
            IF n = 0 THEN EnsureStart(walk, bundle) ELSE EnsureStep(src, units, after[n - 1])
    IN  after

EnsureBundleIndex(src, units, walk, bundle) ==
    EnsureWalk(src, units, walk, bundle)[EnsureSteps]

\* An index that is there and cannot be read is removed and made again.
Repaired(src, units, walk, b) ==
    IF walk.failed \/ walk.idx[b].state = "good" THEN walk
    ELSE EnsureBundleIndex(src, units,
            [walk EXCEPT !.idx[b] = NoIndex, !.ensured = @ \ {b}], b)

\* What the context gets of b: the exports its index holds, or an error.
WithBundle(walk, b) ==
    [walk EXCEPT !.loaded =
        [c \in DOMAIN @ \cup {b} |->
            IF c # b THEN @[c] ELSE IF walk.failed THEN LoadError ELSE walk.idx[b].exports]]

LoadOneBundle(src, units, walk, b) ==
    IF b \notin DOMAIN units THEN walk
    ELSE WithBundle(Repaired(src, units, EnsureBundleIndex(src, units, walk, b), b), b)

\* The bundle of the document, then its direct dependencies: the walk after n
\* of them.
LoadOrder(units) == <<MainBundle>> \o units[MainBundle]
LoadStart(project) ==
    [idx |-> project.idx, ensured |-> {}, stack |-> <<>>, failed |-> FALSE,
     loaded |-> [c \in {} |-> <<>>]]
LoadWalk(project, units) ==
    LET after[n \in 0..Len(LoadOrder(units))] ==
            IF n = 0 THEN LoadStart(project)
            ELSE LoadOneBundle(project.src, units, after[n - 1], LoadOrder(units)[n])
    IN  after

LoadBundles(project, units) == LoadWalk(project, units)[Len(LoadOrder(units))]

-----------------------------------------------------------------------------
(* The caches.                                                             *)

\* Units of the project, from the cache unless an open config.lei overrides
\* the one on disk.
GetBundleUnits(project, caches, overlay) ==
    LET hit    == ~overlay.open /\ caches.units.full /\ caches.units.key
        config == EffectiveConfig(project, overlay)
    IN  CASE hit -> [ok |-> TRUE, units |-> caches.units.units, caches |-> caches]
          [] ~hit /\ ~config.ok -> [ok |-> FALSE, units |-> <<>>, caches |-> caches]
          [] OTHER ->
                [ok     |-> TRUE,
                 units  |-> config.units,
                 caches |-> IF overlay.open THEN caches
                            ELSE [caches EXCEPT !.units =
                                    [full |-> TRUE, key |-> TRUE, units |-> config.units]]]

\* A context that was built is cached, unless an open config.lei overrides.
Built(project, got, overlay, walk) ==
    LET ctx == [ok |-> TRUE, units |-> got.units, loaded |-> walk.loaded]
    IN  [ctx     |-> ctx,
         project |-> [project EXCEPT !.idx = walk.idx],
         caches  |-> IF overlay.open THEN got.caches
                     ELSE [got.caches EXCEPT !.ctx =
                            [full |-> TRUE, key |-> TRUE, ctx |-> ctx]]]

ContextFrom(project, overlay, got) ==
    LET hit == ~overlay.open /\ got.caches.ctx.full /\ got.caches.ctx.key
    IN  CASE ~got.ok \/ (~hit /\ MainBundle \notin DOMAIN got.units) ->
                [ctx |-> NoContext, project |-> project, caches |-> got.caches]
          [] got.ok /\ hit ->
                [ctx |-> got.caches.ctx.ctx, project |-> project, caches |-> got.caches]
          [] OTHER -> Built(project, got, overlay,
                            LoadBundles(AsListed(project, got.units), Deps(got.units)))

\* The context, with the disk and the caches as building it leaves them.
BuildLintContext(project, caches, overlay) ==
    ContextFrom(project, overlay, GetBundleUnits(project, caches, overlay))

InvalidateLintCaches(caches) == NoCaches

\* The context of a server that has just started, for comparison.
FreshContext(project, overlay) == BuildLintContext(project, NoCaches, overlay).ctx

\* The index of b was made of the files that b lists now, or one of them tells:
\* it is newer, or of a module that the index has nothing of, not the only one.
ListKnown(src, idx, b) ==
    LET exports == idx[b].exports
    IN  idx[b].state = "good" =>
            \/ DOMAIN exports = DOMAIN src[b]
            \/ \E f \in DOMAIN src[b] : f \in idx[b].srcNewer
            \/ \E f, g \in DOMAIN src[b] : /\ ModuleHead[f] \notin Heads(DOMAIN exports)
                                          /\ ModuleHead[g] # ModuleHead[f]

\* A bundle whose index can be made: it and whatever it depends on is declared
\* and compiles, and none of it needs itself.
Sound(src, units, b) ==
    \E S \in SUBSET DOMAIN units :
        /\ b \in S
        /\ \A c \in S : AllCompile(src[c]) /\ Range(units[c]) \subseteq S
        /\ \A T \in (SUBSET S) \ {{}} : \E c \in T : Range(units[c]) \cap T = {}

\* The exports the document may see, from the files themselves.
VisibleExports(src, units) ==
    [b \in ({MainBundle} \cup Range(units[MainBundle])) \cap DOMAIN units |->
        IF Sound(src, units, b) THEN src[b] ELSE LoadError]
=============================================================================
