------------------------------ MODULE LeiBuild ------------------------------
(***************************************************************************)
(* lei --build on projects as the user writes them                         *)
(* (tools/Lei/src/cli/main.cpp): EntryPlan refuses a project or makes a    *)
(* plan of it, and BuildRunner executes the plan.                          *)
(***************************************************************************)
EXTENDS BuildRunner

CONSTANT Projects   \* the states of config.lei, projects as in EntryPlan

G == INSTANCE EntryPlan

ProjectPlans == [i \in DOMAIN Projects |-> G!PlanOf(Projects[i])]

ASSUME LeiAssumption ==
  /\ Plans = ProjectPlans
  /\ \A i \in DOMAIN Projects : G!WellShaped(Projects[i])
  /\ \A f \in Sources : f \in External <=> f[1] \in {"header", "toolchain"}
  /\ \A f \in Files : f[1] \in {"header", "toolchain"} => f \in Sources

(* Bundles that cannot be put in an order, that name what they may not or  *)
(* cannot be told apart by their modules; and anything that is empty or    *)
(* waits for what does not exist.                                          *)
Faulty(p) ==
  \/ ~G!InOrder(p)
  \/ \E b \in G!Bundles(p) :
        \/ p.sources[b] = <<>>
        \/ ~p.deps[b] \subseteq G!Bundles(p)
        \/ \E c \in G!Bundles(p) \ {b} : p.top[c] = p.top[b]
        \/ ~p.imports[b] \subseteq {p.top[c] : c \in p.deps[b] \union {b}}
  \/ \E c \in DOMAIN p.codegens :
        p.codegens[c].outs = <<>> \/ ~p.codegens[c].deps \subseteq G!Actions(p)
  \/ \E t \in DOMAIN p.tasks : ~p.tasks[t].deps \subseteq G!Actions(p)

(* A project is refused for a fault that can be pointed at, and with one   *)
(* it never gets to run a command: the checks of from_entry_plan_value and *)
(* lower_exec_graph turn down nothing that could have been built, and the  *)
(* search of detect_bundle_cycle misses no cycle.                          *)
RefusedIffFaulty ==
  /\ outcome = "refused" => Faulty(Projects[project])
  /\ outcome \notin {"none", "refused"} => ~Faulty(Projects[project])
=============================================================================
