----------------------------- MODULE EntryPlan -----------------------------
(***************************************************************************)
(* Which projects lei builds at all: from_entry_plan_value                 *)
(* (tools/Lei/src/graph/ninja_lower_graph_build.cpp) and the errors of     *)
(* lower_exec_graph.  A project is as in BuildGraph, with two more fields: *)
(*   top       the top head that the modules of each bundle are under      *)
(*   imports   the top heads that the modules of each bundle import        *)
(* deps and imports may name what does not exist.  Plans are well shaped,  *)
(* and the heads of one bundle's modules differ.                           *)
(***************************************************************************)
EXTENDS BuildGraph

(* One step of the depth-first search of detect_bundle_cycle.  The bundles *)
(* on the stack, the last one first, are being visited; one that is done   *)
(* is not visited again, a dependency that is no bundle is passed over,    *)
(* and the search ends at the first cycle.  Of the dependencies to visit   *)
(* any may be the next; with nothing on the stack, it is any bundle.       *)
SearchStep(p, s) ==
  LET ahead == (IF s.stack = <<>> THEN Bundles(p)
                ELSE p.deps[Head(s.stack)] \intersect Bundles(p)) \ s.done
      next == CHOOSE d \in ahead : TRUE
  IN  IF s.cycle \/ (ahead = {} /\ s.stack = <<>>) THEN s
      ELSE IF ahead = {}
      THEN [s EXCEPT !.stack = Tail(s.stack), !.done = s.done \union {Head(s.stack)}]
      ELSE IF \E i \in 1..Len(s.stack) : s.stack[i] = next
      THEN [s EXCEPT !.cycle = TRUE]
      ELSE [s EXCEPT !.stack = <<next>> \o s.stack]

SearchStart == [stack |-> <<>>, done |-> {}, cycle |-> FALSE]

(* The search after n steps; it begins and ends the visit of each bundle   *)
(* once.                                                                   *)
SearchSteps(p) == 2 * Cardinality(Bundles(p))
Search(p) ==
  LET after[n \in 0..SearchSteps(p)] ==
        IF n = 0 THEN SearchStart ELSE SearchStep(p, after[n - 1])
  IN  after

(* Wrong variant: only a bundle that depends on itself, or on one that     *)
(* depends on it, is found.                                                *)
DetectBundleCycle_Pairs(p) ==
  \E b, d \in Bundles(p) : d \in p.deps[b] /\ b \in p.deps[d]

DetectBundleCycle(p) == Search(p)[SearchSteps(p)].cycle

(* module_owner_by_top_head: no two bundles share a top head. *)
HeadsApart(p) == \A b, c \in Bundles(p) : p.top[b] = p.top[c] => b = c

(* Wrong variant: a bundle may not import its own modules. *)
ImportsDeclared_OthersOnly(p) ==
  \A b \in Bundles(p) : \A h \in p.imports[b] :
     \E c \in p.deps[b] \intersect Bundles(p) : p.top[c] = h

(* Every import has an owner: the bundle itself, or one it declares among  *)
(* its dependencies.                                                       *)
ImportsDeclared(p) ==
  \A b \in Bundles(p) : \A h \in p.imports[b] :
     \E c \in Bundles(p) : p.top[c] = h /\ c \in p.deps[b] \union {b}

(* The errors in the order of the code; the first one ends it. *)
FromEntryPlanValue(p) ==
  /\ \A b \in Bundles(p) : p.sources[b] # <<>>
  /\ HeadsApart(p)
  /\ \A c \in DOMAIN p.codegens : p.codegens[c].outs # <<>>
  /\ ImportsDeclared(p)
  /\ ~DetectBundleCycle(p)

(* The dependencies of bundles, codegens and tasks all name something.     *)
Lowerable(p) ==
  /\ \A b \in Bundles(p) : p.deps[b] \subseteq Bundles(p)
  /\ \A c \in DOMAIN p.codegens : p.codegens[c].deps \subseteq Actions(p)
  /\ \A t \in DOMAIN p.tasks : p.tasks[t].deps \subseteq Actions(p)

Accepted(p) == FromEntryPlanValue(p) /\ Lowerable(p)

(* The build lines of a project, none if it is refused.                    *)
PlanOf(p) == IF Accepted(p) THEN Plan(p) ELSE <<>>

-----------------------------------------------------------------------------
(* Kinds of projects. *)

(* What every entry plan is: finitely many bundles, of one kind or the     *)
(* other, their sources without duplicates, and numbers for files.         *)
WellShaped(p) ==
  /\ IsFiniteSet(Bundles(p))
  /\ \A b \in Bundles(p) :
       /\ p.kind[b] \in {"lib", "bin"}
       /\ \A i, j \in DOMAIN p.sources[b] : p.sources[b][i] = p.sources[b][j] => i = j
  /\ \A x \in ToolActions(p) : ToolOf(p, x).outs \in Seq(Nat)

(* What lower_exec_graph has made sure of when it begins. *)
Lowered(p) == WellShaped(p) /\ Lowerable(p)
=============================================================================
