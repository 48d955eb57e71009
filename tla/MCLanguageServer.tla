-------------------------- MODULE MCLanguageServer --------------------------
(* Instances of LanguageServer for TLC. *)
EXTENDS LanguageServer, TLC

CONSTANTS app, lib,
  app_src, lib_src, lib_more   \* source files

Cell(kind, wording) == [k |-> kind, v |-> wording]
d1 == Cell("decl", 1)
d2 == Cell("decl", 2)
bad == Cell("bad", 1)
risky == Cell("risky", 1)
marker == Cell("marker", 1)
core_use == Cell("use", 1)
open == Cell("open", 1)
word == Cell("word", 1)

SomeFiles == (app :> {app_src}) @@ (lib :> {lib_src, lib_more})
(* Every source file is a module of its own. *)
OwnHeads == [f \in {app_src, lib_src, lib_more} |-> f]

(* app needs lib, which lists one source or both; app stands alone; the
   evaluation fails. *)
Unit(deps, sources) == [deps |-> deps, sources |-> sources]
App(deps) == app :> Unit(deps, {app_src})
NeedsLib(sources) == [ok |-> TRUE, units |-> App(<<lib>>) @@ (lib :> Unit(<<>>, sources))]
Alone == [ok |-> TRUE, units |-> App(<<>>)]
SomeConfigs ==
  {NeedsLib({lib_src}), NeedsLib({lib_src, lib_more}), Alone, BrokenConfig}

SomeSources == {<<d1>>, <<bad>>}

Rewrites(cells, places, near) ==
  {[full |-> FALSE, lo |-> 2 * i + 1, near |-> n, cut |-> 1, new |-> w] :
     i \in places, n \in near, w \in cells}
Inserts(cells, places, near) ==
  {[full |-> FALSE, lo |-> 2 * i, near |-> n, cut |-> 0, new |-> w] :
     i \in places, n \in near, w \in cells}
Deletes(places) ==
  {[full |-> FALSE, lo |-> 2 * i, near |-> TRUE, cut |-> 1, new |-> <<>>] : i \in places}
Replaces(texts) ==
  {[full |-> TRUE, lo |-> 0, near |-> TRUE, cut |-> 0, new |-> w] : w \in texts}

(* One change of any sort, or in one message a rewrite and one more change. *)
Messages(cells, places) ==
  LET later == places \ {1}
      rewrites == Rewrites({<<d2>>}, later, {FALSE})
      more == rewrites \cup Inserts({<<d2>>}, later, {FALSE})
  IN  {<<c>> : c \in Rewrites(cells, places, {FALSE})
                       \cup Rewrites({<<d2>>}, places, {TRUE})
                       \cup Inserts({<<d2>>}, places, BOOLEAN)
                       \cup Deletes(places) \cup Replaces({<<d1, d1>>})}
        \cup {<<c, d>> : c \in rewrites, d \in more}

CompleteItems == {<<d1>>, <<d2>>, <<bad>>, <<risky>>, <<d2, d1>>}
SessionTexts == {<<d1>>, <<bad>>, <<d1, d1>>}
SessionBatches == Messages(CompleteItems, 1..3)

(* No cell of these documents changes how another one is parsed. *)
ASSUME SessionSeparate ==
  Separate(UNION {Range(text) : text \in SessionTexts \cup CompleteItems})

(* The sources and the compiler are as they were, and the sources that are
   listed. *)
AsItWas ==
  \A b \in Bundles :
     /\ \A f \in SourceFiles[b] : project.src[b][f] = <<d1>>
     /\ ~project.idx[b].compNewer
     /\ lib_more \notin DOMAIN project.idx[b].exports

(* Editing, config.lei and the files of the project vary one at a time: the
   document changes while the project is as it was, and has more than a cell
   only while config.lei is closed and no change of it is unseen. *)
OneAtATime ==
  \/ /\ doc.text \in {<<>>, <<d1>>} /\ doc.session.owners \subseteq {1}
     /\ (project.cfg.ok /\ ~lei.open) \/ AsItWas
  \/ /\ AsItWas /\ {project.cfg, lei.cfg} \subseteq {NeedsLib({lib_src}), BrokenConfig}
     /\ Len(doc.text) <= 1 \/ (~lei.open /\ ~unseen)

(* Documents of every kind of cell. *)
AnyTexts == {<<bad, d1>>, <<marker, d1, core_use>>, <<d1, open, word>>}
AnyBatches == Messages({<<d2>>, <<word>>}, 1..3)
=============================================================================
