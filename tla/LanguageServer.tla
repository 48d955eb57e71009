---------------------------- MODULE LanguageServer ----------------------------
(***************************************************************************)
(* The language server parusd (src/tools/parusd/src/main.cpp) with one     *)
(* Parus document and the project's config.lei.  The server handles one    *)
(* message at a time, so a handler is one action; what interleaves is the  *)
(* editor, which opens, changes and closes either document, the file       *)
(* watcher, and everyone who writes files of the project meanwhile.        *)
(*                                                                         *)
(* Every handler that analyses a document publishes the result before it   *)
(* returns and leaves no pending edits behind.  Document versions matter   *)
(* only by whether an incoming one is newer; revisions only by whether a   *)
(* document changed since its analysis, which is the field `current'.  The *)
(* diagnostics of config.lei itself are a function of its text and are     *)
(* left out; its text is the overlay the other document is linted under.   *)
(***************************************************************************)
EXTENDS LintContext

CONSTANTS
    Configs,      \* what config.lei can say, on disk or in the editor
    SourceTexts,  \* what a source file of a bundle can say on disk
    OpenTexts,    \* texts the Parus document is opened with
    Batches,      \* sequences of content changes an editor sends in a message
    Damaged,      \* bundles whose index may be unreadable when the server starts
    MaxCells      \* cells of the document (bound)

\* A content change, see below.  The first position of a text is 2.
Changes == [full : BOOLEAN, lo : Nat, near : BOOLEAN, cut : Nat, new : Seq(Cells)]

ASSUME ServerAssumption ==
    /\ MaxCells \in Nat \ {0}
    /\ \A text \in OpenTexts : text \in Seq(Cells) /\ Len(text) <= MaxCells
    /\ \A batch \in Batches : /\ batch \in Seq(Changes)
                             /\ \A n \in DOMAIN batch : batch[n].full \/ batch[n].lo >= 2
    /\ Damaged \subseteq Bundles
    /\ \A c \in Configs : /\ c.ok \in BOOLEAN /\ DOMAIN c.units \subseteq Bundles
                          /\ \A b \in DOMAIN c.units :
                                /\ c.units[b].deps \in Seq(Bundles)
                                /\ c.units[b].sources \subseteq SourceFiles[b]

VARIABLES
    project,    \* the project on disk: config.lei, sources, export indexes
    caches,     \* g_bundle_units_cache_ and g_lint_context_cache_
    doc,        \* the Parus document, an element of documents_
    lei,        \* the document of config.lei, another: the Lei overlay
    published,  \* what the editor was last told of the Parus document
    unseen      \* config.lei was written and the server was not notified

vars == <<project, caches, doc, lei, published, unseen>>

ClosedDoc == [open |-> FALSE, text |-> <<>>, session |-> NoSession, current |-> FALSE,
              errs |-> {}, ctx |-> NoContext]
\* Nothing is published: an empty list of diagnostics clears the editor.
Clear == [errs |-> {}, ctx |-> NoContext]

-----------------------------------------------------------------------------
(* Analysis.  A world is [project, caches, doc, published]: what analysing *)
(* the Parus document can change.                                          *)

\* The parse step: a session that is not ready starts over, one without
\* edits keeps its snapshot and reports nothing.
ParseStep(d, edits) ==
    CASE ~d.session.ready -> FullRebuild(d.text)
      [] d.session.ready /\ edits # <<>> -> ReparseWithEdits(d.session, d.text, edits)
      [] OTHER -> [session |-> d.session, errs |-> {}, merged |-> FALSE]

\* The document is linted when the parse reported no error.  What a document
\* with a core marker gets over its context is left out: the bundle "core", its
\* directory and module head, even where there is no context.
Analyzed(world, parsed, lint) ==
    LET clean == parsed.errs = {}
        ctx   == IF clean THEN lint.ctx ELSE NoContext
    IN  [project   |-> IF clean THEN lint.project ELSE world.project,
         caches    |-> IF clean THEN lint.caches ELSE world.caches,
         doc       |-> [world.doc EXCEPT !.session = parsed.session,
                                         !.errs = parsed.errs,
                                         !.ctx = ctx,
                                         !.current = TRUE],
         published |-> [errs |-> parsed.errs, ctx |-> ctx]]

AnalyzeDocument(world, edits, overlay) ==
    Analyzed(world, ParseStep(world.doc, edits),
             BuildLintContext(world.project, world.caches, overlay))

\* ensure_analysis_cache_ and publish_diagnostics_.
EnsureAndPublish(world, edits, overlay) ==
    IF world.doc.current
    THEN [world EXCEPT !.published = [errs |-> world.doc.errs, ctx |-> world.doc.ctx]]
    ELSE AnalyzeDocument(world, edits, overlay)

World == [project |-> project, caches |-> caches, doc |-> doc, published |-> published]

Becomes(world) ==
    /\ project' = world.project
    /\ caches' = world.caches
    /\ doc' = world.doc
    /\ published' = world.published

\* Wrong variant: the documents of the project are left as they are.
RefreshProject_Not(world, overlay) ==
    [world EXCEPT !.caches = InvalidateLintCaches(@)]

\* invalidate_lint_caches_for_root_, then the Parus document is analysed
\* again, without edits, when it is open.
RefreshProject(world, overlay) ==
    LET invalid == [world EXCEPT !.caches = InvalidateLintCaches(@),
                                 !.doc.current = FALSE]
    IN  IF world.doc.open
        THEN EnsureAndPublish(invalid, <<>>, overlay)
        ELSE [world EXCEPT !.caches = InvalidateLintCaches(@)]

-----------------------------------------------------------------------------
(* Content changes.  A change is [full, lo, near, cut, new]: the cells new *)
(* take the place of cut cells at position lo, or of the whole text.  An   *)
(* odd lo rewrites the end of a cell and what follows of it.               *)

CellOf(change) == change.lo \div 2

Applicable(text, change) ==
    change.full \/ CellOf(change) + change.cut <= Len(text) + 1

NewText(text, change) ==
    IF change.full THEN change.new
    ELSE SubSeq(text, 1, CellOf(change) - 1) \o change.new
            \o SubSeq(text, CellOf(change) + change.cut, Len(text))

\* One content change: [text, edits, changed] after it.  A change that leaves
\* the text as it is records no edit.
ApplyTextChange(state, change) ==
    LET text   == NewText(state.text, change)
        window == [lo |-> IF change.full THEN 0 ELSE change.lo, near |-> change.near]
    IN  IF text = state.text THEN state
        ELSE [text    |-> text,
              edits   |-> IF change.full THEN <<window>> ELSE Append(state.edits, window),
              changed |-> TRUE]

\* The changes of a message in their order: the state after n of them.
ApplyChanges(text, batch) ==
    LET after[n \in 0..Len(batch)] ==
            IF n = 0 THEN [text |-> text, edits |-> <<>>, changed |-> FALSE]
            ELSE ApplyTextChange(after[n - 1], batch[n])
    IN  after

ApplyBatch(text, batch) == ApplyChanges(text, batch)[Len(batch)]

\* Every change of the batch names a place of the text it is applied to.
BatchApplicable(text, batch) ==
    \A n \in 1..Len(batch) : Applicable(ApplyChanges(text, batch)[n - 1].text, batch[n])

-----------------------------------------------------------------------------
(* The handlers.                                                           *)

DidOpen(text) ==
    /\ Becomes(EnsureAndPublish(
                 [World EXCEPT !.doc = [ClosedDoc EXCEPT !.open = TRUE, !.text = text]],
                 <<>>, lei))
    /\ UNCHANGED <<lei, unseen>>

\* A change to the same text is answered from the analysis.
DidChange(batch) ==
    LET after   == ApplyBatch(doc.text, batch)
        changed == [World EXCEPT !.doc.text = after.text,
                                 !.doc.current = ~after.changed /\ @]
    IN  /\ doc.open
        /\ BatchApplicable(doc.text, batch)
        /\ Len(after.text) <= MaxCells
        /\ Becomes(EnsureAndPublish(changed, after.edits, lei))
        /\ UNCHANGED <<lei, unseen>>

\* A change of a document that is not open, or whose version is not newer than
\* the document's, is dropped, with no answer.
DidChangeDropped == UNCHANGED vars

DidClose ==
    /\ doc' = ClosedDoc
    /\ published' = Clear
    /\ UNCHANGED <<project, caches, lei, unseen>>

\* The editor opens config.lei or changes its text: the document itself is
\* evaluated, then the rest of the project is refreshed under the overlay.
LeiOpenedOrChanged(cfg) ==
    /\ lei' = [open |-> TRUE, cfg |-> cfg]
    /\ Becomes(RefreshProject(World, lei'))
    /\ UNCHANGED unseen

DidOpenLei(cfg) == LeiOpenedOrChanged(cfg)

DidChangeLei(cfg) == lei.open /\ LeiOpenedOrChanged(cfg)

\* The overlay is gone before the project is refreshed.  Closing a document
\* that is not open refreshes nothing.
DidCloseLei ==
    /\ lei' = NoOverlay
    /\ IF lei.open THEN Becomes(RefreshProject(World, NoOverlay))
       ELSE UNCHANGED <<project, caches, doc, published>>
    /\ UNCHANGED unseen

\* The watcher reports files; only .lei files count.
DidChangeWatchedFiles(files) ==
    /\ IF "lei" \in files
       THEN /\ Becomes(RefreshProject(World, lei))
            /\ unseen' = FALSE
            /\ UNCHANGED lei
       ELSE UNCHANGED vars

\* The analysis is brought up to date before a request is answered.
Ensured == IF doc.current THEN World ELSE AnalyzeDocument(World, <<>>, lei)

\* The lint context of the configuration on disk is built, or found.
LookedUp(world) ==
    LET lint == BuildLintContext(world.project, world.caches, NoOverlay)
    IN  [world EXCEPT !.project = lint.project, !.caches = lint.caches]

\* Completion and semantic tokens answer from the analysis; so does
\* definition, and a symbol not found there is looked up in the lint context
\* of the configuration on disk.
Request(fallback) ==
    /\ doc.open
    /\ Becomes([IF fallback THEN LookedUp(Ensured) ELSE Ensured
                  EXCEPT !.published = published])
    /\ UNCHANGED <<lei, unseen>>

-----------------------------------------------------------------------------
(* The rest of the world writes files.                                     *)

WriteConfig(cfg) ==
    /\ project' = [project EXCEPT !.cfg = cfg]
    /\ caches' = [caches EXCEPT !.units.key = FALSE, !.ctx.key = FALSE]
    /\ unseen' = TRUE
    /\ UNCHANGED <<doc, lei, published>>

\* The file is newer than the index of b, when there is one.
WriteSource(b, f, text) ==
    /\ project' = [project EXCEPT !.src[b][f] = text,
                                  !.idx[b].srcNewer = IF project.idx[b].state = "missing"
                                                      THEN {} ELSE @ \cup {f}]
    /\ UNCHANGED <<caches, doc, lei, published, unseen>>

\* A new parusc is installed, newer than every index.
ReplaceCompiler ==
    /\ project' = [project EXCEPT !.idx =
                      [b \in Bundles |-> [project.idx[b] EXCEPT
                                            !.compNewer = project.idx[b].state # "missing"]]]
    /\ UNCHANGED <<caches, doc, lei, published, unseen>>

-----------------------------------------------------------------------------
\* What the source files of the project can say.
ProjectTexts ==
    {src \in [Bundles -> UNION {[SourceFiles[c] -> SourceTexts] : c \in Bundles}] :
        \A b \in Bundles : src[b] \in [SourceFiles[b] -> SourceTexts]}

\* The server starts on a project of which some indexes were written by
\* another compiler and cannot be read.
Init ==
    /\ \E cfg \in Configs, damaged \in SUBSET Damaged, src \in ProjectTexts :
         project = [cfg |-> cfg, src |-> src,
                    idx |-> [b \in Bundles |->
                               [NoIndex EXCEPT !.state =
                                   IF b \in damaged THEN "unreadable" ELSE "missing"]]]
    /\ caches = NoCaches
    /\ doc = ClosedDoc
    /\ lei = NoOverlay
    /\ published = Clear
    /\ unseen = FALSE

Next ==
    \/ \E text \in OpenTexts : DidOpen(text)
    \/ \E batch \in Batches : DidChange(batch)
    \/ DidChangeDropped
    \/ DidClose
    \/ \E cfg \in Configs : DidOpenLei(cfg)
    \/ \E cfg \in Configs : DidChangeLei(cfg)
    \/ DidCloseLei
    \/ \E files \in SUBSET {"lei", "src"} : DidChangeWatchedFiles(files)
    \/ \E fallback \in BOOLEAN : Request(fallback)
    \/ \E cfg \in Configs : WriteConfig(cfg)
    \/ \E b \in Bundles : \E f \in SourceFiles[b], text \in SourceTexts : WriteSource(b, f, text)
    \/ ReplaceCompiler

Spec == Init /\ [][Next]_vars

-----------------------------------------------------------------------------
(* Properties.                                                             *)

\* Type invariant of the server's state.
TypeOK ==
    /\ project.cfg \in Configs
    /\ project.src \in ProjectTexts
    /\ \A b \in Bundles : project.idx[b].state \in {"missing", "unreadable", "good"}
    /\ doc.open \in BOOLEAN /\ Len(doc.text) <= MaxCells
    /\ doc.session.owners \subseteq 1..(MaxOwners + 1)
    /\ lei.open => lei.cfg \in Configs
    /\ unseen \in BOOLEAN

\* After any sequence of edits, merged or not, the items the server works on
\* are those of a parse of the whole text: an item before the edit is never
\* kept when it changed, and none is parsed twice or lost
\* (try_incremental_merge_, find_first_affected_item_).
ItemsCurrent ==
    doc.open =>
        LET strip(items) == [i \in DOMAIN items |-> [items[i] EXCEPT !.owner = 0]]
        IN  strip(doc.session.items) = strip(ParseItems(doc.text, 1, 0))

\* Items kept over merges point into older source texts: each of those is
\* still retained, and no more of them than the compaction limit allows
\* (source_owners_).
ItemsOwned ==
    /\ \A n \in DOMAIN doc.session.items :
          doc.session.items[n].owner \in doc.session.owners
    /\ Cardinality(doc.session.owners) <= MaxOwners + 1

\* What the editor is shown of a document without syntax errors was linted
\* with the configuration in force: the open config.lei, otherwise the one on
\* disk once the server has heard of its last change.  No cache, and no
\* request answered from the disk while config.lei is open, makes the server
\* show another one.
LintedWithConfigInForce ==
    doc.open /\ doc.errs = {} /\ (lei.open \/ ~unseen) =>
        LET config == EffectiveConfig(project, lei)
        IN  IF config.ok /\ MainBundle \in DOMAIN config.units
            THEN published.ctx.ok /\ published.ctx.units = config.units
            ELSE ~published.ctx.ok

\* A notification about config.lei repairs everything: whatever was cached,
\* edited or written before, the document then sees exactly what the sources
\* on disk export now (index_stale_for_bundle_, invalidate_lint_caches_for_root_).
\* Not claimed while the index of a dependency cannot be read, or one was made
\* of other source files than its bundle lists now and is not stale for it: no
\* index is stale for a file that config.lei no longer lists, and for one that
\* it lists anew only if the file is newer or brings a module of its own.
NotificationRepairs ==
    [][ LET units == doc'.ctx.units
            src   == Listed(project.src, units)
            heard == /\ unseen /\ ~unseen'
                     /\ doc.open /\ doc'.errs = {} /\ doc'.ctx.ok
            known == /\ \A b \in Bundles \ {MainBundle} : project.idx[b].state # "unreadable"
                     /\ \A c \in DOMAIN units : ListKnown(src, project.idx, c)
        IN  heard /\ known => doc'.ctx.loaded = VisibleExports(src, Deps(units)) ]_vars

\* What the editor is shown is what a server started now would show: the
\* syntax errors of the whole text, or the findings of a lint against the
\* project as it is.
PublishedIsFresh ==
    doc.open =>
        /\ published.errs = ParseErrors(doc.text, 1)
        /\ published.errs = {} => published.ctx = FreshContext(project, lei)
=============================================================================
