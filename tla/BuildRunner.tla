---------------------------- MODULE BuildRunner ----------------------------
(***************************************************************************)
(* run_embedded_ninja (tools/Lei/src/graph/ninja_runner.cpp): the runner   *)
(* behind lei --build, over a plan of build lines.                         *)
(*                                                                         *)
(* Every build sorts the actions, goes over them again and again, and runs *)
(* each one once the actions that make its inputs are done, or skips it    *)
(* when its outputs are newer than its inputs.  Nothing but the files and  *)
(* their times survives from one build to the next.  Commands may fail,    *)
(* and the user edits sources between builds and between commands.         *)
(***************************************************************************)
EXTENDS Integers, FiniteSets

CONSTANTS
  Plans,      \* the plan of each project; one without lines was refused
  Becomes,    \* pairs of projects: edits of config.lei turn one into the other
  Files,      \* all files
  Sources,    \* the files that the user writes
  External,   \* those that commands read and no line lists: C headers, compiler
  MaxBuilds,  \* builds (bound)
  MaxEdits,   \* edits (bound)
  MaxFaults   \* commands that fail for a reason of their own (bound)

(* Actions are triples of numbers: rank, name and number of the source.    *)
Start == <<0, 0, 0>>
File(path) == path[2]

ASSUME RunnerAssumption ==
  /\ Sources \subseteq Files /\ External \subseteq Sources
  /\ MaxBuilds \in Nat /\ MaxEdits \in Nat /\ MaxFaults \in Nat
  /\ \A p \in DOMAIN Plans :
       /\ IsFiniteSet(DOMAIN Plans[p])
       /\ \A x \in DOMAIN Plans[p] :
            /\ x \in Nat \X Nat \X Nat /\ x # Start
            /\ Plans[p][x].reads \union Plans[p][x].writes \subseteq Files
            /\ \A path \in Plans[p][x].ins \union Plans[p][x].outs : File(path) \in Files

VARIABLES
  project,  \* the project of the last build
  clock,    \* the time of the last write
  mtime,    \* when a file was last written, 0 if it does not exist
  made,     \* what wrote a file: an action and the times of what it read
  done,     \* actions done in this build
  at,       \* the action the pass is at
  moved,    \* progressed: the pass has done an action
  pass,     \* passes begun: the counter called safety
  outcome,  \* "none" before the first build, "running", or how a build ended
  quiet,    \* no edit since the build began
  builds, edits, faults

disk == <<clock, mtime, made>>
sched == <<done, at, moved, pass>>
vars == <<project, clock, mtime, made, done, at, moved, pass, outcome, quiet,
          builds, edits, faults>>

-----------------------------------------------------------------------------
(* The constants under names that TLC evaluates once. *)
AllPlans == Plans
AllFiles == Files

(* The actions of the plan, with their build lines. *)
plan == AllPlans[project]

(* std::sort: by rank, name and id. *)
Before(x, y) ==
  \/ x[1] < y[1]
  \/ x[1] = y[1] /\ x[2] < y[2]
  \/ x[1] = y[1] /\ x[2] = y[2] /\ x[3] < y[3]

Least(S) == CHOOSE x \in S : \A y \in S \ {x} : Before(x, y)

(* The actions that make an input of x: the hard edges of the parsed plan. *)
IncomingIn ==
  [p \in DOMAIN AllPlans |-> [x \in DOMAIN AllPlans[p] |->
     {y \in DOMAIN AllPlans[p] : AllPlans[p][y].outs \intersect AllPlans[p][x].ins # {}}]]

Incoming(x) == IncomingIn[project][x]

(* Wrong variant: an action is dirty when all its inputs are newer. *)
NeedsRun_AllNewer(x) ==
  LET outs == {mtime[File(o)] : o \in plan[x].outs}
      ins == {mtime[File(i)] : i \in plan[x].ins}
  IN  0 \in outs \/ 0 \in ins \/ \E o \in outs : \A i \in ins : i > o

(* needs_run: an output or an input is missing, or the newest input is     *)
(* newer than the oldest output.                                           *)
NeedsRun(x) ==
  LET outs == {mtime[File(o)] : o \in plan[x].outs}
      ins == {mtime[File(i)] : i \in plan[x].ins}
  IN  0 \in outs \/ 0 \in ins \/ \E o \in outs, i \in ins : i > o

(* The actions that the pass can still do: after the one it is at, and     *)
(* with everything that makes their inputs done.                           *)
Ready ==
  {x \in DOMAIN plan \ done : Before(at, x) /\ Incoming(x) \subseteq done}

Never == [by |-> Start, seen |-> <<>>]
Made(x) == [by |-> x, seen |-> [f \in plan[x].reads |-> mtime[f]]]

Init ==
  /\ project \in DOMAIN Plans
  /\ clock = 1
  /\ mtime = [f \in AllFiles |-> IF f \in Sources THEN 1 ELSE 0]
  /\ made = [f \in AllFiles |-> Never]
  /\ done = {} /\ at = Start /\ moved = FALSE /\ pass = 0
  /\ outcome = "none" /\ quiet = TRUE
  /\ builds = 0 /\ edits = 0 /\ faults = 0

(* The user writes a source file, also while a build is running. *)
Edit(f) ==
  /\ edits < MaxEdits
  /\ edits' = edits + 1
  /\ clock' = clock + 1
  /\ mtime' = [mtime EXCEPT ![f] = clock + 1]
  /\ quiet' = FALSE
  /\ UNCHANGED <<project, made, sched, outcome, builds, faults>>

(* Wrong variant: what an earlier build has done counts as done. *)
StartBuild_KeepDone(p) ==
  /\ outcome # "running" /\ builds < MaxBuilds
  /\ <<project, p>> \in Becomes /\ DOMAIN AllPlans[p] # {}
  /\ project' = p
  /\ at' = Start /\ moved' = FALSE /\ pass' = 1
  /\ outcome' = "running" /\ quiet' = TRUE
  /\ builds' = builds + 1
  /\ UNCHANGED <<disk, done, edits, faults>>

(* lei --build: the plan is read and the first pass begins. *)
StartBuild(p) ==
  /\ outcome # "running" /\ builds < MaxBuilds
  /\ <<project, p>> \in Becomes /\ DOMAIN AllPlans[p] # {}
  /\ project' = p
  /\ done' = {} /\ at' = Start /\ moved' = FALSE /\ pass' = 1
  /\ outcome' = "running" /\ quiet' = TRUE
  /\ builds' = builds + 1
  /\ UNCHANGED <<disk, edits, faults>>

(* lei --build on a project it refuses: nothing is emitted or executed. *)
Refuse(p) ==
  /\ outcome # "running" /\ builds < MaxBuilds
  /\ <<project, p>> \in Becomes /\ DOMAIN AllPlans[p] = {}
  /\ project' = p
  /\ done' = {} /\ at' = Start /\ moved' = FALSE /\ pass' = 0
  /\ outcome' = "refused" /\ quiet' = TRUE
  /\ builds' = builds + 1
  /\ UNCHANGED <<disk, edits, faults>>

(* The action that the pass comes to next. *)
Visiting == IF outcome = "running" /\ Ready # {} THEN {Least(Ready)} ELSE {}

Done(x) ==
  /\ done' = done \union {x} /\ at' = x /\ moved' = TRUE
  /\ UNCHANGED <<project, pass, outcome, quiet, builds, edits, faults>>

Write(fs, x) ==
  /\ clock' = clock + 1
  /\ mtime' = [f \in AllFiles |-> IF f \in fs THEN clock + 1 ELSE mtime[f]]
  /\ made' = [f \in AllFiles |-> IF f \in fs THEN Made(x) ELSE made[f]]

Skip(x) ==
  /\ ~NeedsRun(x)
  /\ Done(x)
  /\ UNCHANGED disk

(* touch_outputs opens the outputs for appending: a missing file is        *)
(* created, a file that exists keeps its time.                             *)
Touch(x) ==
  /\ NeedsRun(x) /\ plan[x].touch
  /\ Write({f \in plan[x].writes : mtime[f] = 0}, x)
  /\ Done(x)

(* The command succeeds and writes its outputs. *)
Run(x) ==
  /\ NeedsRun(x) /\ ~plan[x].touch
  /\ \A f \in plan[x].reads : mtime[f] # 0
  /\ Write(plan[x].writes, x)
  /\ Done(x)

(* The command or the touch fails, always if a file it reads is missing,   *)
(* and the build ends: nothing was written.                                *)
Fail(x) ==
  /\ NeedsRun(x)
  /\ IF \E f \in plan[x].reads : mtime[f] = 0
     THEN UNCHANGED faults
     ELSE faults < MaxFaults /\ faults' = faults + 1
  /\ outcome' = "failed"
  /\ UNCHANGED <<project, disk, sched, quiet, builds, edits>>

(* Wrong variant: the build is over after one pass. *)
EndPass_Once ==
  /\ outcome = "running" /\ Ready = {}
  /\ outcome' = IF ~moved THEN "cycle" ELSE "ok"
  /\ UNCHANGED <<project, disk, sched, quiet, builds, edits, faults>>

(* The end of a pass: a pass without progress is a dependency cycle, and   *)
(* too many passes are an error of their own.                              *)
EndPass ==
  LET n == Cardinality(DOMAIN plan) IN
  /\ outcome = "running" /\ Ready = {}
  /\ IF done = DOMAIN plan THEN outcome' = "ok" /\ UNCHANGED sched
     ELSE IF ~moved THEN outcome' = "cycle" /\ UNCHANGED sched
     ELSE IF pass + 1 > n * n + 8 THEN outcome' = "stuck" /\ UNCHANGED sched
     ELSE /\ at' = Start /\ moved' = FALSE /\ pass' = pass + 1
          /\ UNCHANGED <<done, outcome>>
  /\ UNCHANGED <<project, disk, quiet, builds, edits, faults>>

Next ==
  \/ \E f \in Sources : Edit(f)
  \/ \E p \in DOMAIN AllPlans : StartBuild(p) \/ Refuse(p)
  \/ \E x \in Visiting : Skip(x) \/ Touch(x) \/ Run(x) \/ Fail(x)
  \/ EndPass

Spec == Init /\ [][Next]_vars

-----------------------------------------------------------------------------
(* Properties. *)

(* The types of the variables; a build does actions of its own plan only,  *)
(* and the clock is never behind a file.                                   *)
TypeOK ==
  /\ clock \in Nat
  /\ mtime \in [AllFiles -> 0..clock]
  /\ done \subseteq DOMAIN plan
  /\ at \in DOMAIN plan \union {Start}
  /\ moved \in BOOLEAN /\ quiet \in BOOLEAN
  /\ pass \in Nat
  /\ outcome \in {"none", "running", "refused", "ok", "failed", "cycle", "stuck"}
  /\ builds \in 0..MaxBuilds /\ edits \in 0..MaxEdits /\ faults \in 0..MaxFaults

(* A command runs after the commands that write what it reads, as in a     *)
(* codegen and the compilation of the source that it generates.            *)
ProducedFirst ==
  \A x \in Visiting, y \in DOMAIN plan :
     plan[y].writes \intersect plan[x].reads # {} => y \in done

(* x's outputs are what x would make of the files as they are now, but for *)
(* files that no build line lists and that were written since.             *)
Current(x) ==
  \A f \in plan[x].writes :
    /\ made[f].by = x /\ DOMAIN made[f].seen = plan[x].reads
    /\ \A g \in plan[x].reads :
         made[f].seen[g] = mtime[g] \/ (g \in External /\ mtime[g] > mtime[f])

Finished == outcome = "ok" /\ quiet

(* After a build that succeeds, and whatever failed or was edited before,  *)
(* every object, binary, generated file and task output is what its        *)
(* command makes of the files it reads, indexes of other bundles included. *)
(* Not so for C headers and the installed compiler and core library, which *)
(* lower_exec_graph makes nobody's input: an edit of those is not noticed, *)
(* and all that is said is that they are as they were when the product was *)
(* made, or newer than it.                                                 *)
ProductsCurrent ==
  Finished => \A x \in DOMAIN plan : x[1] \in {1, 4, 5, 6} => Current(x)

(* One of these actions waits for itself through others of them. *)
Cyclic(xs) == \E S \in SUBSET xs : S # {} /\ \A x \in S : Incoming(x) \intersect S # {}

(* A build that ends in a cycle has none but through codegens and tasks:   *)
(* detect_bundle_cycle sees every cycle of bundles before any command      *)
(* runs, and the edges of fragments, indexes, objects and libraries that   *)
(* lower_exec_graph lays between them close none.                          *)
CyclesOfTools == outcome = "cycle" => ~Cyclic({x \in DOMAIN plan : x[1] \notin {4, 6}})

(* A build that ends well has done every action, one that reports a cycle  *)
(* has one, and the runner never gives up for the number of passes.        *)
EndsRightly ==
  /\ outcome = "ok" => done = DOMAIN plan
  /\ outcome = "cycle" => Cyclic(DOMAIN plan)
  /\ outcome # "stuck"

-----------------------------------------------------------------------------
(* What a plan must be like for its products to be current, and the        *)
(* invariants of the runner on such plans.                                 *)

FilesOf(paths) == {File(path) : path \in paths}

(* Whoever writes a file that a line reads or lists makes an input of it.  *)
Declared(P) ==
  \A x, y \in DOMAIN P :
     P[y].writes \intersect (P[x].reads \union FilesOf(P[x].ins)) # {}
       => P[y].outs \intersect P[x].ins # {}

(* Commands write outputs of theirs. *)
WritesOutputs(P) == \A x \in DOMAIN P : P[x].writes \subseteq FilesOf(P[x].outs)

(* A file that nobody ever writes: the stamp of a binary or of a tool. *)
Unwritten(f) ==
  f \notin Sources /\ \A p \in DOMAIN Plans : \A x \in DOMAIN Plans[p] : f \notin Plans[p][x].writes

(* What the line x does not list of what its command reads, a command      *)
(* lists whose output x lists; or x runs in every build.                   *)
Notices(P, x) ==
  \/ \E o \in P[x].outs : Unwritten(File(o))
  \/ \A g \in P[x].reads \ (FilesOf(P[x].ins) \union External) :
       \E y \in DOMAIN P :
         /\ ~P[y].touch /\ g \in FilesOf(P[y].ins)
         /\ \E o \in P[y].outs \intersect P[x].ins : File(o) \in P[y].writes

Product(x) == x[1] \in {1, 4, 5, 6}

(* The plans of all projects: a file is a source or has one command, the   *)
(* same in every project that has it.                                      *)
OneWriter ==
  /\ \A p \in DOMAIN Plans : \A x \in DOMAIN Plans[p] : Plans[p][x].writes \intersect Sources = {}
  /\ \A p, q \in DOMAIN Plans : \A x \in DOMAIN Plans[p], y \in DOMAIN Plans[q] :
       Plans[p][x].writes \intersect Plans[q][y].writes # {} =>
         \/ Plans[p][x].touch /\ Plans[q][y].touch
         \/ x = y /\ Plans[p][x] = Plans[q][y]

Traceable ==
  /\ OneWriter
  /\ \A p \in DOMAIN Plans :
       /\ Declared(Plans[p]) /\ WritesOutputs(Plans[p])
       /\ \A x \in DOMAIN Plans[p] : Product(x) => ~Plans[p][x].touch /\ Notices(Plans[p], x)

(* The types, with the project and the rule that an action is done after   *)
(* those that make its inputs.                                             *)
Ordered ==
  /\ project \in DOMAIN Plans
  /\ TypeOK
  /\ \A x \in done : Incoming(x) \subseteq done

(* The passes: each one that moves does an action. *)
Passes ==
  /\ outcome = "running" =>
       /\ DOMAIN plan # {}
       /\ ~moved => at = Start
       /\ pass <= Cardinality(done) + (IF moved THEN 0 ELSE 1)
  /\ EndsRightly

(* What a file was made of: a file that its maker read and that was        *)
(* written since is newer than it.                                         *)
History ==
  /\ \A f \in Files : Unwritten(f) => mtime[f] = 0
  /\ \A p \in DOMAIN Plans : \A x \in DOMAIN Plans[p] :
       ~Plans[p][x].touch => \A f \in Plans[p][x].writes : mtime[f] # 0 =>
         /\ made[f] = [by |-> x, seen |-> [g \in Plans[p][x].reads |-> made[f].seen[g]]]
         /\ \A g \in Plans[p][x].reads : mtime[g] = made[f].seen[g] \/ mtime[g] > mtime[f]

(* x's outputs exist and no input is newer. *)
UpToDate(x) ==
  \A f \in plan[x].writes : mtime[f] # 0 /\ \A i \in FilesOf(plan[x].ins) : mtime[i] <= mtime[f]

(* What this build has done, unless a source was edited since it began. *)
DoneWell ==
  outcome \in {"running", "ok"} /\ quiet =>
    \A x \in done :
       /\ ~plan[x].touch => UpToDate(x)
       /\ Product(x) => Current(x)
=============================================================================
