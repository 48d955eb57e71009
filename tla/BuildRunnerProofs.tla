------------------------- MODULE BuildRunnerProofs -------------------------
(***************************************************************************)
(* The embedded runner on every set of plans: it does actions in order and *)
(* ends rightly whatever the plans, and on plans that declare what their   *)
(* commands read its products are current.                                 *)
(***************************************************************************)
EXTENDS BuildRunner, FiniteSetTheorems, WellFoundedInduction, TLAPS

-----------------------------------------------------------------------------
(* The sort of the actions. *)

(* A set of numbers has a least one. *)
LEMMA NatMin ==
  ASSUME NEW S, S \subseteq Nat, S # {}
  PROVE  \E n \in S : \A m \in S : n <= m
<1> DEFINE Less == {ss \in Nat \X Nat : ss[1] < ss[2]}
<1>1. IsWellFoundedOn(Less, Nat)
  BY NatLessThanWellFounded, Zenon DEF OpToRel
<1>2. \E n \in S : \A m \in S : ~(<<m, n>> \in Less)
  <2> HIDE DEF Less
  <2> QED
    BY <1>1, WFMin
<1>3. PICK n \in S : \A m \in S : ~(<<m, n>> \in Less)
  BY <1>2
<1>4. ASSUME NEW m \in S PROVE n <= m
  <2>1. n \in Nat /\ m \in Nat /\ <<m, n>> \in Nat \X Nat
    OBVIOUS
  <2>2. ~(m < n)
    BY <1>3, <2>1
  <2> QED
    BY <2>1, <2>2
<1> QED
  BY <1>4

(* The sort has a first action: rank, name and source number order all.    *)
LEMMA LeastIsMember ==
  ASSUME NEW S, S \subseteq Nat \X Nat \X Nat, S # {}
  PROVE  Least(S) \in S
<1> DEFINE A == {x[1] : x \in S}
<1>1. PICK a \in A : \A m \in A : a <= m
  <2>1. A \subseteq Nat /\ A # {}
    OBVIOUS
  <2> HIDE DEF A
  <2> QED
    BY <2>1, NatMin
<1> DEFINE B == {x[2] : x \in {y \in S : y[1] = a}}
<1>2. PICK b \in B : \A m \in B : b <= m
  <2>1. B \subseteq Nat /\ B # {}
    BY <1>1
  <2> HIDE DEF B
  <2> QED
    BY <2>1, NatMin
<1> DEFINE C == {x[3] : x \in {y \in S : y[1] = a /\ y[2] = b}}
<1>3. PICK c \in C : \A m \in C : c <= m
  <2>1. C \subseteq Nat /\ C # {}
    BY <1>2
  <2> HIDE DEF C
  <2> QED
    BY <2>1, NatMin
<1>4. PICK x \in S : x[1] = a /\ x[2] = b /\ x[3] = c
  BY <1>3
<1>5. ASSUME NEW y \in S \ {x} PROVE Before(x, y)
  <2>1. /\ x[1] \in Nat /\ x[2] \in Nat /\ x[3] \in Nat
        /\ y[1] \in Nat /\ y[2] \in Nat /\ y[3] \in Nat
        /\ x = <<x[1], x[2], x[3]>> /\ y = <<y[1], y[2], y[3]>>
    OBVIOUS
  <2>2. x[1] <= y[1]
    BY <1>1, <1>4
  <2>3. x[1] = y[1] => x[2] <= y[2]
    BY <1>2, <1>4
  <2>4. x[1] = y[1] /\ x[2] = y[2] => x[3] <= y[3]
    BY <1>3, <1>4
  <2>5. x[1] # y[1] \/ x[2] # y[2] \/ x[3] # y[3]
    BY <2>1
  <2> QED
    BY <2>1, <2>2, <2>3, <2>4, <2>5 DEF Before
<1>6. \E z \in S : \A y \in S \ {z} : Before(z, y)
  BY <1>5
<1> QED
  BY <1>6 DEF Least

(* What the pass comes to next is ready. *)
LEMMA VisitingIsReady ==
  ASSUME project \in DOMAIN Plans, NEW x \in Visiting
  PROVE  /\ outcome = "running" /\ x \in DOMAIN plan /\ x \notin done
         /\ Incoming(x) \subseteq done
<1>1. outcome = "running" /\ Ready # {} /\ x = Least(Ready)
  BY DEF Visiting
<1>2. Ready \subseteq Nat \X Nat \X Nat
  BY RunnerAssumption DEF Ready, plan, AllPlans
<1>3. x \in Ready
  BY <1>1, <1>2, LeastIsMember
<1> QED
  BY <1>1, <1>3 DEF Ready

(* Who makes an input of an action. *)
LEMMA IncomingIs ==
  ASSUME project \in DOMAIN Plans, NEW x \in DOMAIN plan
  PROVE  Incoming(x) = {y \in DOMAIN plan : plan[y].outs \intersect plan[x].ins # {}}
BY DEF Incoming, IncomingIn, plan, AllPlans

-----------------------------------------------------------------------------
(* The steps. *)

(* A write of some files, or of none. *)
Wrote(fs, x) ==
  /\ clock' \in Nat /\ clock <= clock'
  /\ mtime' \in [Files -> 0..clock']
  /\ \A f \in Files \intersect fs : mtime'[f] = clock + 1 /\ made'[f] = Made(x)
  /\ \A f \in Files \ fs : mtime'[f] = mtime[f] /\ made'[f] = made[f]

Does(x) ==
  /\ Done(x)
  /\ \E fs \in SUBSET plan[x].writes : Wrote(fs, x)

StepCases ==
  \/ \E f \in Sources : Edit(f)
  \/ \E p \in DOMAIN Plans : StartBuild(p) \/ Refuse(p)
  \/ \E x \in Visiting : Skip(x) \/ Touch(x) \/ Run(x)
  \/ \E x \in Visiting : Fail(x)
  \/ EndPass
  \/ UNCHANGED vars

(* Next is nothing but these steps. *)
LEMMA NextCases == [Next]_vars => StepCases
BY DEF Next, StepCases, AllPlans

(* Writing gives files the next time. *)
LEMMA WriteEffect ==
  ASSUME TypeOK, NEW x, NEW fs, fs \subseteq Files, Write(fs, x)
  PROVE  Wrote(fs, x)
<1> USE DEF AllFiles
<1>1. clock \in Nat /\ clock' = clock + 1 /\ mtime \in [Files -> 0..clock]
  BY DEF TypeOK, Write
<1>2. /\ mtime' = [f \in Files |-> IF f \in fs THEN clock + 1 ELSE mtime[f]]
      /\ made' = [f \in Files |-> IF f \in fs THEN Made(x) ELSE made[f]]
  BY DEF Write
<1>3. mtime' \in [Files -> 0..clock']
  BY <1>1, <1>2
<1> QED
  BY <1>1, <1>2, <1>3 DEF Wrote

(* An action that is done writes files of its own. *)
LEMMA ActionsWrite ==
  ASSUME project \in DOMAIN Plans, TypeOK, NEW x \in DOMAIN plan,
         Skip(x) \/ Touch(x) \/ Run(x)
  PROVE  Does(x)
<1>1. plan[x].writes \subseteq Files
  BY RunnerAssumption DEF plan, AllPlans
<1>2. CASE Skip(x)
  <2>1. Wrote({}, x)
    BY <1>2 DEF Skip, disk, Wrote, TypeOK, AllFiles
  <2> QED
    BY <1>2, <2>1 DEF Skip, Does
<1>3. CASE Touch(x)
  <2> DEFINE fs == {f \in plan[x].writes : mtime[f] = 0}
  <2>1. Wrote(fs, x)
    BY <1>1, <1>3, WriteEffect DEF Touch
  <2> QED
    BY <1>3, <2>1 DEF Touch, Does
<1>4. CASE Run(x)
  BY <1>1, <1>4, WriteEffect DEF Run, Does
<1> QED
  BY <1>2, <1>3, <1>4

-----------------------------------------------------------------------------
(* Types, and the order of the actions. *)

(* The order holds at first. *)
LEMMA OrderedInit == Init => Ordered
<1> SUFFICES ASSUME Init PROVE Ordered
  OBVIOUS
<1> USE RunnerAssumption DEF AllPlans, AllFiles
<1>1. mtime \in [Files -> 0..1] /\ clock = 1
  BY DEF Init
<1>2. /\ done = {} /\ at = Start /\ moved = FALSE /\ quiet = TRUE /\ pass = 0
      /\ outcome = "none" /\ project \in DOMAIN Plans
  BY DEF Init
<1>3. builds \in 0..MaxBuilds /\ edits \in 0..MaxEdits /\ faults \in 0..MaxFaults
  BY DEF Init
<1>4. TypeOK
  BY <1>1, <1>2, <1>3 DEF TypeOK
<1> QED
  BY <1>2, <1>4 DEF Ordered

(* Every step preserves it. *)
LEMMA OrderedStep ==
  ASSUME Ordered, StepCases
  PROVE  Ordered'
<1> USE RunnerAssumption DEF AllPlans, AllFiles
<1>0. project \in DOMAIN Plans /\ TypeOK /\ \A x \in done : Incoming(x) \subseteq done
  BY DEF Ordered
<1>1. ASSUME NEW f \in Sources, Edit(f) PROVE Ordered'
  <2>1. clock' \in Nat /\ mtime' \in [Files -> 0..clock']
    BY <1>0, <1>1 DEF TypeOK, Edit
  <2>2. edits' \in 0..MaxEdits /\ quiet' = FALSE
    BY <1>0, <1>1 DEF TypeOK, Edit
  <2>3. /\ project' = project /\ done' = done /\ at' = at /\ moved' = moved /\ pass' = pass
        /\ outcome' = outcome /\ builds' = builds /\ faults' = faults
    BY <1>1 DEF Edit, sched
  <2>4. TypeOK'
    BY <1>0, <2>1, <2>2, <2>3 DEF TypeOK, plan
  <2> QED
    BY <1>0, <2>3, <2>4 DEF Ordered, Incoming
<1>2. ASSUME NEW p \in DOMAIN Plans, StartBuild(p) \/ Refuse(p) PROVE Ordered'
  <2>1. /\ project' = p /\ done' = {} /\ at' = Start /\ moved' = FALSE /\ quiet' = TRUE
        /\ pass' \in Nat /\ outcome' \in {"running", "refused"}
        /\ builds < MaxBuilds /\ builds' = builds + 1
        /\ UNCHANGED <<clock, mtime, edits, faults>>
    BY <1>2 DEF StartBuild, Refuse, disk
  <2>2. builds' \in 0..MaxBuilds
    BY <1>0, <2>1 DEF TypeOK
  <2>3. TypeOK'
    BY <1>0, <2>1, <2>2 DEF TypeOK
  <2> QED
    BY <2>1, <2>3 DEF Ordered
<1>3. ASSUME NEW x \in Visiting, Skip(x) \/ Touch(x) \/ Run(x) PROVE Ordered'
  <2>1. x \in DOMAIN plan /\ Incoming(x) \subseteq done /\ Does(x)
    BY <1>0, <1>3, VisitingIsReady, ActionsWrite
  <2>2. /\ done' = done \union {x} /\ at' = x /\ moved' = TRUE
        /\ UNCHANGED <<project, pass, outcome, quiet, builds, edits, faults>>
        /\ clock' \in Nat /\ mtime' \in [Files -> 0..clock']
    BY <2>1 DEF Does, Done, Wrote
  <2>3. TypeOK'
    BY <1>0, <2>1, <2>2 DEF TypeOK, plan
  <2> QED
    BY <1>0, <2>1, <2>2, <2>3 DEF Ordered, Incoming
<1>4. ASSUME NEW x \in Visiting, Fail(x) PROVE Ordered'
  <2>1. faults' \in 0..MaxFaults
    BY <1>0, <1>4 DEF TypeOK, Fail
  <2>2. /\ outcome' = "failed"
        /\ UNCHANGED <<project, clock, mtime, done, at, moved, pass, quiet, builds, edits>>
    BY <1>4 DEF Fail, disk, sched
  <2>3. TypeOK'
    BY <1>0, <2>1, <2>2 DEF TypeOK, plan
  <2> QED
    BY <1>0, <2>2, <2>3 DEF Ordered, Incoming
<1>5. CASE EndPass
  <2>1. /\ UNCHANGED <<project, clock, mtime, done, quiet, builds, edits, faults>>
        /\ at' \in {at, Start} /\ outcome' \in {outcome, "ok", "cycle", "stuck"}
        /\ \/ moved' = moved /\ pass' = pass
           \/ moved' = FALSE /\ pass' = pass + 1
    BY <1>5 DEF EndPass, disk, sched
  <2>2. moved' \in BOOLEAN
    BY <1>0, <2>1, Zenon DEF TypeOK
  <2>3. pass' \in Nat
    BY <1>0, <2>1 DEF TypeOK
  <2>4. TypeOK'
    BY <1>0, <2>1, <2>2, <2>3 DEF TypeOK, plan
  <2> QED
    BY <1>0, <2>1, <2>4 DEF Ordered, Incoming
<1>6. CASE UNCHANGED vars
  <2>1. TypeOK'
    BY <1>0, <1>6 DEF TypeOK, vars, plan
  <2> QED
    BY <1>0, <1>6, <2>1 DEF Ordered, vars, Incoming
<1> QED
  BY <1>1, <1>2, <1>3, <1>4, <1>5, <1>6 DEF StepCases

(* Actions are done after those that make their inputs. *)
LEMMA OrderedHolds == Spec => []Ordered
<1>1. Ordered /\ [Next]_vars => Ordered'
  BY OrderedStep, NextCases
<1> QED
  BY <1>1, OrderedInit, PTL DEF Spec

(* The types of the variables: also when the project is another one, a     *)
(* build has done actions of its own plan only.                            *)
THEOREM RunnerTypeCorrect == Spec => []TypeOK
<1>1. Ordered => TypeOK
  BY DEF Ordered
<1> QED
  BY <1>1, OrderedHolds, PTL

-----------------------------------------------------------------------------
(* The passes. *)

(* What is done can be counted. *)
LEMMA CountDone ==
  ASSUME Ordered
  PROVE  /\ IsFiniteSet(DOMAIN plan) /\ IsFiniteSet(done)
         /\ Cardinality(DOMAIN plan) \in Nat /\ Cardinality(done) \in Nat
         /\ Cardinality(done) <= Cardinality(DOMAIN plan)
<1>1. IsFiniteSet(DOMAIN plan) /\ done \subseteq DOMAIN plan
  BY RunnerAssumption DEF Ordered, TypeOK, plan, AllPlans
<1> QED
  BY <1>1, FS_Subset, FS_CardinalityType

(* A pass that did nothing, from the first action on, has met a cycle. *)
LEMMA NothingReady ==
  ASSUME Ordered, Ready = {}, at = Start, done # DOMAIN plan
  PROVE  Cyclic(DOMAIN plan)
<1> DEFINE S == DOMAIN plan \ done
<1>1. S # {} /\ S \subseteq DOMAIN plan
  BY DEF Ordered, TypeOK
<1>2. ASSUME NEW x \in S PROVE Incoming(x) \intersect S # {}
  <2>1. /\ x \in Nat \X Nat \X Nat /\ x # Start
        /\ x = <<x[1], x[2], x[3]>> /\ x[1] \in Nat /\ x[2] \in Nat /\ x[3] \in Nat
    BY RunnerAssumption DEF Ordered, plan, AllPlans
  <2>2. x[1] # 0 \/ x[2] # 0 \/ x[3] # 0
    BY <2>1 DEF Start
  <2>3. Before(at, x)
    BY <2>1, <2>2 DEF Before, Start
  <2>4. ~(Incoming(x) \subseteq done)
    BY <2>3 DEF Ready
  <2>5. Incoming(x) \subseteq DOMAIN plan
    BY IncomingIs DEF Ordered
  <2> QED
    BY <2>4, <2>5
<1> QED
  BY <1>1, <1>2 DEF Cyclic

(* n actions need at most n + 1 passes, below the limit of the counter. *)
LEMMA BelowLimit == \A n \in Nat : n + 1 <= n * n + 8
<1> SUFFICES ASSUME NEW n \in Nat PROVE n + 1 <= n * n + 8
  OBVIOUS
<1>1. CASE n = 0
  BY <1>1
<1>2. CASE n >= 1
  <2>1. n * n >= n
    BY <1>2
  <2> QED
    BY <1>2, <2>1
<1> QED
  BY <1>1, <1>2

(* Every step preserves the count of the passes. *)
LEMMA PassesStep ==
  ASSUME Ordered, Passes, StepCases
  PROVE  Passes'
<1> USE DEF AllPlans
<1>0. /\ project \in DOMAIN Plans /\ TypeOK /\ EndsRightly /\ pass \in Nat
      /\ moved \in BOOLEAN
  BY DEF Ordered, Passes, TypeOK
<1>1. ASSUME UNCHANGED <<project, sched, outcome>> PROVE Passes'
  BY <1>1 DEF sched, Passes, EndsRightly, Cyclic, Incoming, plan
<1>2. ASSUME NEW p \in DOMAIN Plans, StartBuild(p) \/ Refuse(p) PROVE Passes'
  <2>1. CASE StartBuild(p)
    <3>1. /\ outcome' = "running" /\ done' = {} /\ at' = Start /\ moved' = FALSE
          /\ pass' = 1 /\ project' = p /\ DOMAIN Plans[p] # {}
      BY <2>1 DEF StartBuild
    <3>2. Cardinality(done') = 0
      BY <3>1, FS_EmptySet
    <3> QED
      BY <3>1, <3>2 DEF Passes, EndsRightly, plan
  <2>2. CASE Refuse(p)
    BY <2>2 DEF Refuse, Passes, EndsRightly
  <2> QED
    BY <1>2, <2>1, <2>2
<1>3. ASSUME NEW x \in Visiting, Skip(x) \/ Touch(x) \/ Run(x) PROVE Passes'
  <2>1. outcome = "running" /\ x \in DOMAIN plan /\ x \notin done /\ Does(x)
    BY <1>0, <1>3, VisitingIsReady, ActionsWrite
  <2>2. /\ done' = done \union {x} /\ moved' = TRUE /\ pass' = pass /\ outcome' = outcome
        /\ project' = project
    BY <2>1 DEF Does, Done
  <2>3. Cardinality(done') = Cardinality(done) + 1 /\ Cardinality(done) \in Nat
    BY <2>1, <2>2, CountDone, FS_AddElement
  <2>4. pass <= Cardinality(done) + 1 /\ DOMAIN plan # {}
    BY <1>0, <2>1, <2>3 DEF Passes
  <2> QED
    BY <2>1, <2>2, <2>3, <2>4 DEF Passes, EndsRightly, plan
<1>4. ASSUME NEW x \in Visiting, Fail(x) PROVE Passes'
  BY <1>4 DEF Fail, Passes, EndsRightly
<1>5. CASE EndPass
  <2> DEFINE n == Cardinality(DOMAIN plan)
  <2>0. /\ outcome = "running" /\ Ready = {} /\ project' = project /\ done' = done
        /\ n \in Nat /\ Cardinality(done) \in Nat /\ Cardinality(done) <= n
    BY <1>5, CountDone DEF EndPass, sched
  <2>1. CASE outcome' = "ok"
    <3>1. done = DOMAIN plan
      BY <1>5, <2>0, <2>1 DEF EndPass
    <3> QED
      BY <2>0, <2>1, <3>1 DEF Passes, EndsRightly, plan
  <2>2. CASE outcome' = "cycle"
    <3>1. done # DOMAIN plan /\ ~moved
      BY <1>5, <2>0, <2>2 DEF EndPass
    <3>2. at = Start
      BY <2>0, <3>1 DEF Passes
    <3>3. Cyclic(DOMAIN plan)
      BY <2>0, <3>1, <3>2, NothingReady
    <3> QED
      BY <2>0, <2>2, <3>3 DEF Passes, EndsRightly, Cyclic, Incoming, plan
  <2>3. CASE outcome' = "stuck"
    <3>1. moved /\ pass + 1 > n * n + 8
      BY <1>5, <2>0, <2>3 DEF EndPass
    <3>2. pass <= Cardinality(done)
      BY <2>0, <3>1 DEF Passes
    <3>3. n + 1 <= n * n + 8 /\ n * n \in Nat
      BY <2>0, BelowLimit
    <3> QED
      BY <1>0, <2>0, <3>1, <3>2, <3>3
  <2>4. CASE outcome' = outcome
    <3>1. moved /\ at' = Start /\ moved' = FALSE /\ pass' = pass + 1
      BY <1>5, <2>0, <2>4 DEF EndPass
    <3>2. pass <= Cardinality(done) /\ DOMAIN plan # {}
      BY <2>0, <3>1 DEF Passes
    <3> QED
      BY <1>0, <2>0, <2>4, <3>1, <3>2 DEF Passes, EndsRightly, plan
  <2> QED
    BY <1>5, <2>1, <2>2, <2>3, <2>4 DEF EndPass
<1> QED
  BY <1>1, <1>2, <1>3, <1>4, <1>5 DEF StepCases, Edit, vars, sched

(* Every build ends rightly, whatever the plan: with all actions done, or  *)
(* with a cycle that is there; the limit of n * n + 8 passes, below which  *)
(* the sort and the edges must bring it, is never the reason.              *)
THEOREM BuildsEndRightly == Spec => []EndsRightly
<1>1. Init => Passes
  BY DEF Init, Passes, EndsRightly
<1>2. Ordered /\ Passes /\ [Next]_vars => Passes'
  BY PassesStep, NextCases
<1>3. Passes => EndsRightly
  BY DEF Passes
<1> QED
  BY <1>1, <1>2, <1>3, OrderedHolds, PTL DEF Spec

-----------------------------------------------------------------------------
(* Plans that declare what their commands read. *)

(* On such plans the commands run after those that write what they read.   *)
THEOREM CommandsFollowTheirWriters ==
  ASSUME \A p \in DOMAIN Plans : Declared(Plans[p])
  PROVE  Spec => []ProducedFirst
<1>1. ASSUME Ordered PROVE ProducedFirst
  <2> SUFFICES ASSUME NEW x \in Visiting, NEW y \in DOMAIN plan,
                      plan[y].writes \intersect plan[x].reads # {}
               PROVE  y \in done
    BY DEF ProducedFirst
  <2>1. project \in DOMAIN Plans
    BY <1>1 DEF Ordered
  <2>2. x \in DOMAIN plan /\ Incoming(x) \subseteq done
    BY <2>1, VisitingIsReady
  <2>3. plan[y].outs \intersect plan[x].ins # {}
    BY <2>1, <2>2 DEF Declared, plan, AllPlans
  <2> QED
    BY <2>1, <2>2, <2>3, IncomingIs
<1> QED
  BY <1>1, OrderedHolds, PTL

(* A command's files are its own, in this project and in the others. *)
LEMMA FilesAreOwn ==
  ASSUME Traceable, project \in DOMAIN Plans, NEW p \in DOMAIN Plans,
         NEW x \in DOMAIN Plans[p], ~Plans[p][x].touch, NEW z \in DOMAIN plan,
         NEW f \in Plans[p][x].writes, f \in plan[z].writes
  PROVE  x = z /\ Plans[p][x] = plan[z]
BY DEF Traceable, OneWriter, plan, AllPlans

(* Whoever is still to run writes nothing that an action which is ready or *)
(* done reads or lists.                                                    *)
LEMMA InputsAreLeft ==
  ASSUME Traceable, project \in DOMAIN Plans, NEW z \in DOMAIN plan, z \notin done,
         NEW y \in DOMAIN plan, Incoming(y) \subseteq done
  PROVE  plan[z].writes \intersect (plan[y].reads \union FilesOf(plan[y].ins)) = {}
<1>1. ~(plan[z].outs \intersect plan[y].ins # {})
  BY IncomingIs
<1> QED
  BY <1>1 DEF Traceable, Declared, plan, AllPlans

(* The files that a line names are files. *)
LEMMA LineFiles ==
  ASSUME NEW p \in DOMAIN Plans, NEW x \in DOMAIN Plans[p]
  PROVE  /\ Plans[p][x].reads \subseteq Files /\ Plans[p][x].writes \subseteq Files
         /\ FilesOf(Plans[p][x].ins) \subseteq Files /\ FilesOf(Plans[p][x].outs) \subseteq Files
BY RunnerAssumption DEF FilesOf

(* A step that leaves the disk leaves the history. *)
LEMMA HistoryKept ==
  ASSUME History, UNCHANGED disk
  PROVE  History'
BY DEF History, disk

(* Every step preserves the history of the files. *)
LEMMA HistoryStep ==
  ASSUME Traceable, Ordered, History, StepCases
  PROVE  History'
<1>0. /\ project \in DOMAIN Plans /\ TypeOK /\ clock \in Nat /\ mtime \in [Files -> 0..clock]
  BY DEF Ordered, TypeOK, AllFiles
<1>1. ASSUME NEW h \in Sources, Edit(h) PROVE History'
  <2>1. /\ h \in Files /\ mtime'[h] = clock + 1 /\ made' = made
        /\ \A f \in Files : f # h => mtime'[f] = mtime[f]
    BY <1>0, <1>1, RunnerAssumption DEF Edit
  <2>2. ASSUME NEW f \in Files, Unwritten(f) PROVE mtime'[f] = 0
    BY <2>1, <2>2 DEF Unwritten, History
  <2>3. ASSUME NEW p \in DOMAIN Plans, NEW x \in DOMAIN Plans[p], ~Plans[p][x].touch,
               NEW f \in Plans[p][x].writes, mtime'[f] # 0
        PROVE  /\ made'[f] = [by |-> x, seen |-> [g \in Plans[p][x].reads |-> made'[f].seen[g]]]
               /\ \A g \in Plans[p][x].reads :
                    mtime'[g] = made'[f].seen[g] \/ mtime'[g] > mtime'[f]
    <3>1. f \in Files /\ f # h /\ mtime'[f] = mtime[f]
      BY <2>1, LineFiles DEF Traceable, OneWriter
    <3>2. /\ made[f] = [by |-> x, seen |-> [g \in Plans[p][x].reads |-> made[f].seen[g]]]
          /\ \A g \in Plans[p][x].reads : mtime[g] = made[f].seen[g] \/ mtime[g] > mtime[f]
      BY <2>3, <3>1 DEF History
    <3>3. ASSUME NEW g \in Plans[p][x].reads
          PROVE  mtime'[g] = made[f].seen[g] \/ mtime'[g] > mtime[f]
      BY <1>0, <2>1, <3>1, <3>2, LineFiles
    <3> QED
      BY <2>1, <3>1, <3>2, <3>3
  <2> QED
    BY <2>2, <2>3 DEF History, Unwritten
<1>2. ASSUME NEW z \in Visiting, Skip(z) \/ Touch(z) \/ Run(z) PROVE History'
  <2>1. /\ z \in DOMAIN plan /\ z \notin done /\ Incoming(z) \subseteq done /\ Does(z)
    BY <1>0, <1>2, VisitingIsReady, ActionsWrite
  <2>2. PICK fs \in SUBSET plan[z].writes : Wrote(fs, z)
    BY <2>1 DEF Does
  <2>3. /\ \A f \in Files \intersect fs : mtime'[f] = clock + 1 /\ made'[f] = Made(z)
        /\ \A f \in Files \ fs : mtime'[f] = mtime[f] /\ made'[f] = made[f]
    BY <2>2 DEF Wrote
  <2>4. ASSUME NEW f \in Files, Unwritten(f) PROVE mtime'[f] = 0
    BY <1>0, <2>1, <2>3, <2>4 DEF Unwritten, History, plan, AllPlans
  <2>5. ASSUME NEW p \in DOMAIN Plans, NEW x \in DOMAIN Plans[p], ~Plans[p][x].touch,
               NEW f \in Plans[p][x].writes, mtime'[f] # 0
        PROVE  /\ made'[f] = [by |-> x, seen |-> [g \in Plans[p][x].reads |-> made'[f].seen[g]]]
               /\ \A g \in Plans[p][x].reads :
                    mtime'[g] = made'[f].seen[g] \/ mtime'[g] > mtime'[f]
    <3>0. f \in Files /\ Plans[p][x].reads \subseteq Files
      BY LineFiles
    <3>1. CASE f \in fs
      <4>1. x = z /\ Plans[p][x] = plan[z]
        BY <1>0, <2>1, <2>5, <3>1, FilesAreOwn
      <4>2. made'[f] = [by |-> x, seen |-> [g \in Plans[p][x].reads |-> mtime[g]]]
        BY <2>3, <3>0, <3>1, <4>1 DEF Made
      <4>3. ASSUME NEW g \in Plans[p][x].reads PROVE mtime'[g] = mtime[g]
        BY <1>0, <2>1, <2>3, <3>0, <4>1, InputsAreLeft
      <4> QED
        BY <4>2, <4>3
    <3>2. CASE f \notin fs
      <4>1. mtime'[f] = mtime[f] /\ made'[f] = made[f]
        BY <2>3, <3>0, <3>2
      <4>2. /\ made[f] = [by |-> x, seen |-> [g \in Plans[p][x].reads |-> made[f].seen[g]]]
            /\ \A g \in Plans[p][x].reads : mtime[g] = made[f].seen[g] \/ mtime[g] > mtime[f]
        BY <2>5, <4>1 DEF History
      <4>3. ASSUME NEW g \in Plans[p][x].reads
            PROVE  mtime'[g] = made[f].seen[g] \/ mtime'[g] > mtime[f]
        BY <1>0, <2>3, <3>0, <4>2
      <4> QED
        BY <4>1, <4>2, <4>3
    <3> QED
      BY <3>1, <3>2
  <2> QED
    BY <2>4, <2>5 DEF History, Unwritten
<1>3. ASSUME UNCHANGED disk PROVE History'
  BY <1>3, HistoryKept
<1> QED
  BY <1>1, <1>2, <1>3 DEF StepCases, StartBuild, Refuse, Fail, EndPass, vars, disk

(* What is made of files that nobody has written since is current. *)
LEMMA SkippedIsCurrent ==
  ASSUME Traceable, Ordered, History, outcome = "running", quiet, DoneWell,
         NEW x \in DOMAIN plan, x \notin done, Incoming(x) \subseteq done,
         ~plan[x].touch, ~NeedsRun(x)
  PROVE  UpToDate(x) /\ (Product(x) => Current(x))
<1>0. /\ project \in DOMAIN Plans /\ TypeOK /\ clock \in Nat /\ mtime \in [Files -> 0..clock]
      /\ plan = Plans[project]
  BY DEF Ordered, TypeOK, AllFiles, plan, AllPlans
<1>1. /\ \A o \in plan[x].outs : mtime[File(o)] # 0
      /\ \A o \in plan[x].outs, i \in plan[x].ins : ~(mtime[File(i)] > mtime[File(o)])
  BY DEF NeedsRun
<1>2. /\ plan[x].reads \subseteq Files /\ plan[x].writes \subseteq Files
      /\ FilesOf(plan[x].ins) \subseteq Files
      /\ plan[x].writes \subseteq FilesOf(plan[x].outs)
      /\ \A o \in plan[x].outs : File(o) \in Files
  BY <1>0, LineFiles DEF Traceable, WritesOutputs, FilesOf
<1>3. ASSUME NEW f \in plan[x].writes
      PROVE  mtime[f] # 0 /\ \A i \in FilesOf(plan[x].ins) : mtime[i] <= mtime[f]
  <2>1. PICK o \in plan[x].outs : f = File(o)
    BY <1>2 DEF FilesOf
  <2>2. ASSUME NEW i \in FilesOf(plan[x].ins) PROVE mtime[i] <= mtime[f]
    <3>1. PICK path \in plan[x].ins : i = File(path)
      BY DEF FilesOf
    <3> QED
      BY <1>0, <1>1, <1>2, <2>1, <3>1
  <2> QED
    BY <1>1, <2>1, <2>2
<1>4. ASSUME Product(x), NEW f \in plan[x].writes
      PROVE  /\ made[f].by = x /\ DOMAIN made[f].seen = plan[x].reads
             /\ \A g \in plan[x].reads :
                  made[f].seen[g] = mtime[g] \/ (g \in External /\ mtime[g] > mtime[f])
  <2>1. Notices(plan, x)
    BY <1>0, <1>4 DEF Traceable
  <2>2. \A o \in plan[x].outs : ~Unwritten(File(o))
    BY <1>1, <1>2 DEF History
  <2>3. /\ made[f] = [by |-> x, seen |-> [g \in plan[x].reads |-> made[f].seen[g]]]
        /\ \A g \in plan[x].reads : mtime[g] = made[f].seen[g] \/ mtime[g] > mtime[f]
    BY <1>0, <1>3 DEF History
  <2>4. ASSUME NEW g \in plan[x].reads, g \notin External PROVE mtime[g] <= mtime[f]
    <3>1. CASE g \in FilesOf(plan[x].ins)
      BY <1>3, <3>1
    <3>2. CASE g \notin FilesOf(plan[x].ins)
      <4>1. PICK y \in DOMAIN plan :
              /\ ~plan[y].touch /\ g \in FilesOf(plan[y].ins)
              /\ \E o \in plan[y].outs \intersect plan[x].ins : File(o) \in plan[y].writes
        BY <2>1, <2>2, <2>4, <3>2 DEF Notices
      <4>2. PICK o \in plan[y].outs \intersect plan[x].ins : File(o) \in plan[y].writes
        BY <4>1
      <4>3. y \in done
        BY <1>0, <4>2, IncomingIs
      <4>4. mtime[g] <= mtime[File(o)]
        BY <4>1, <4>2, <4>3 DEF DoneWell, UpToDate
      <4>5. mtime[File(o)] <= mtime[f]
        BY <1>3, <4>2 DEF FilesOf
      <4>6. g \in Files /\ f \in Files /\ File(o) \in Files
        BY <1>2, <4>2 DEF FilesOf
      <4> QED
        BY <1>0, <4>4, <4>5, <4>6
    <3> QED
      BY <3>1, <3>2
  <2>5. \A g \in plan[x].reads :
          made[f].seen[g] = mtime[g] \/ (g \in External /\ mtime[g] > mtime[f])
    BY <1>0, <1>2, <2>3, <2>4
  <2>6. made[f].by = x
    BY <2>3
  <2>7. DOMAIN made[f].seen = plan[x].reads
    BY <2>3
  <2> QED
    BY <2>5, <2>6, <2>7
<1>5. Product(x) => Current(x)
  BY <1>4 DEF Current
<1> QED
  BY <1>3, <1>5 DEF UpToDate

(* What a command has just made is current. *)
LEMMA RunIsCurrent ==
  ASSUME Traceable, Ordered, NEW x \in DOMAIN plan, x \notin done,
         Incoming(x) \subseteq done, ~plan[x].touch, Run(x)
  PROVE  UpToDate(x)' /\ Current(x)'
<1>0. /\ project \in DOMAIN Plans /\ TypeOK /\ clock \in Nat /\ mtime \in [Files -> 0..clock]
      /\ plan = Plans[project] /\ plan' = plan
  BY DEF Ordered, TypeOK, AllFiles, plan, AllPlans, Run, Done
<1>1. /\ plan[x].reads \subseteq Files /\ plan[x].writes \subseteq Files
      /\ FilesOf(plan[x].ins) \subseteq Files
  BY <1>0, LineFiles
<1>2. Wrote(plan[x].writes, x)
  BY <1>0, <1>1, WriteEffect DEF Run
<1>3. plan[x].writes \intersect (plan[x].reads \union FilesOf(plan[x].ins)) = {}
  BY <1>0, InputsAreLeft
<1>4. /\ \A f \in plan[x].writes : mtime'[f] = clock + 1 /\ made'[f] = Made(x)
      /\ \A g \in plan[x].reads \union FilesOf(plan[x].ins) : mtime'[g] = mtime[g]
  BY <1>1, <1>2, <1>3 DEF Wrote
<1>5. Made(x)' = Made(x)
  BY <1>0, <1>4 DEF Made
<1>6. UpToDate(x)'
  BY <1>0, <1>1, <1>4 DEF UpToDate
<1>7. ASSUME NEW f \in plan[x].writes
      PROVE  /\ made'[f].by = x /\ DOMAIN made'[f].seen = plan[x].reads
             /\ \A g \in plan[x].reads : made'[f].seen[g] = mtime'[g]
  <2>1. made'[f] = Made(x)
    BY <1>4, <1>7
  <2>2. DOMAIN Made(x).seen = plan[x].reads /\ Made(x).by = x
    BY DEF Made
  <2>3. \A g \in plan[x].reads : Made(x).seen[g] = mtime[g]
    BY DEF Made
  <2> QED
    BY <1>4, <2>1, <2>2, <2>3
<1> QED
  BY <1>0, <1>6, <1>7 DEF Current

(* What is done stays up to date while others run. *)
LEMMA DoneStaysWell ==
  ASSUME Traceable, Ordered, NEW z \in DOMAIN plan, z \notin done, Does(z),
         NEW y \in done, ~plan[y].touch
  PROVE  (UpToDate(y) => UpToDate(y)') /\ (Current(y) => Current(y)')
<1>0. /\ project \in DOMAIN Plans /\ TypeOK /\ y \in DOMAIN plan /\ Incoming(y) \subseteq done
      /\ plan = Plans[project] /\ plan' = plan
  BY DEF Ordered, TypeOK, plan, AllPlans, Does, Done
<1>1. /\ plan[y].reads \subseteq Files /\ plan[y].writes \subseteq Files
      /\ FilesOf(plan[y].ins) \subseteq Files
  BY <1>0, LineFiles
<1>2. plan[z].writes \intersect (plan[y].reads \union FilesOf(plan[y].ins)) = {}
  BY <1>0, InputsAreLeft
<1>3. plan[z].writes \intersect plan[y].writes = {}
  BY <1>0, FilesAreOwn
<1>4. /\ \A g \in plan[y].reads \union FilesOf(plan[y].ins) \union plan[y].writes :
            mtime'[g] = mtime[g] /\ made'[g] = made[g]
  BY <1>1, <1>2, <1>3 DEF Does, Wrote
<1>5. Made(y)' = Made(y)
  BY <1>0, <1>4 DEF Made
<1> QED
  BY <1>0, <1>4, <1>5 DEF UpToDate, Current

(* Every step preserves that what the build has done is done well. *)
LEMMA DoneWellStep ==
  ASSUME Traceable, Ordered, History, DoneWell, StepCases
  PROVE  DoneWell'
<1>0. project \in DOMAIN Plans /\ TypeOK /\ plan = Plans[project]
  BY DEF Ordered, plan, AllPlans
<1>1. ASSUME NEW f \in Sources, Edit(f) PROVE DoneWell'
  BY <1>1 DEF Edit, DoneWell
<1>2. ASSUME NEW p \in DOMAIN Plans, StartBuild(p) \/ Refuse(p) PROVE DoneWell'
  BY <1>2 DEF StartBuild, Refuse, DoneWell
<1>3. ASSUME NEW z \in Visiting, Skip(z) \/ Touch(z) \/ Run(z) PROVE DoneWell'
  <2>1. /\ outcome = "running" /\ z \in DOMAIN plan /\ z \notin done
        /\ Incoming(z) \subseteq done /\ Does(z)
    BY <1>0, <1>3, VisitingIsReady, ActionsWrite
  <2>2. /\ done' = done \union {z} /\ outcome' = outcome /\ quiet' = quiet /\ plan' = plan
    BY <2>1 DEF Does, Done, plan
  <2> SUFFICES ASSUME quiet, NEW x \in done \union {z}
               PROVE  (~plan[x].touch => UpToDate(x)') /\ (Product(x) => Current(x)')
    BY <2>2 DEF DoneWell
  <2>3. Product(x) => ~plan[x].touch
    BY <1>0, <2>1 DEF Traceable, Ordered, TypeOK
  <2>4. CASE x \in done
    BY <2>1, <2>3, <2>4, DoneStaysWell DEF DoneWell
  <2>5. CASE x = z /\ ~plan[z].touch
    <3>1. CASE Run(z)
      BY <2>1, <2>5, <3>1, RunIsCurrent
    <3>2. CASE Skip(z)
      <4>1. UpToDate(z) /\ (Product(z) => Current(z))
        BY <2>1, <2>5, <3>2, SkippedIsCurrent DEF Skip
      <4>2. mtime' = mtime /\ made' = made
        BY <3>2 DEF Skip, disk
      <4> QED
        BY <2>2, <2>5, <4>1, <4>2 DEF UpToDate, Current, Made
    <3> QED
      BY <1>3, <2>5, <3>1, <3>2 DEF Touch
  <2> QED
    BY <2>3, <2>4, <2>5
<1>4. ASSUME NEW x \in Visiting, Fail(x) PROVE DoneWell'
  BY <1>4 DEF Fail, DoneWell
<1>5. ASSUME UNCHANGED <<project, disk, done, quiet>>,
             outcome' \in {"running", "ok"} => outcome \in {"running", "ok"}
      PROVE  DoneWell'
  BY <1>5 DEF DoneWell, disk, UpToDate, Current, Made, plan
<1>6. CASE EndPass
  BY <1>5, <1>6 DEF EndPass, sched, disk
<1>7. CASE UNCHANGED vars
  BY <1>5, <1>7 DEF vars, disk
<1> QED
  BY <1>1, <1>2, <1>3, <1>4, <1>6, <1>7 DEF StepCases

(* On plans that declare what their commands read and give every file one  *)
(* writer, a build that succeeds leaves every object, binary, generated    *)
(* file and task output as its command makes it of the files as they are,  *)
(* whatever earlier builds did, however they failed and whatever was       *)
(* edited while they ran: times are enough, although they are all that     *)
(* needs_run compares.                                                     *)
THEOREM BuildsAreCurrent ==
  ASSUME Traceable
  PROVE  Spec => []ProductsCurrent
<1>1. Init => History
  <2> SUFFICES ASSUME Init PROVE History
    OBVIOUS
  <2>1. \A f \in Files : mtime[f] = IF f \in Sources THEN 1 ELSE 0
    BY DEF Init, AllFiles
  <2>2. ASSUME NEW p \in DOMAIN Plans, NEW x \in DOMAIN Plans[p],
               NEW f \in Plans[p][x].writes
        PROVE  mtime[f] = 0
    BY <2>1, LineFiles DEF Traceable, OneWriter
  <2> QED
    BY <2>1, <2>2 DEF History, Unwritten
<1>2. Init => DoneWell
  BY DEF Init, DoneWell
<1>3. Ordered /\ History /\ [Next]_vars => History'
  BY HistoryStep, NextCases
<1>4. Ordered /\ History /\ DoneWell /\ [Next]_vars => DoneWell'
  BY DoneWellStep, NextCases
<1>5. EndsRightly /\ DoneWell => ProductsCurrent
  BY DEF EndsRightly, DoneWell, ProductsCurrent, Finished, Product
<1> QED
  BY <1>1, <1>2, <1>3, <1>4, <1>5, OrderedHolds, BuildsEndRightly, PTL DEF Spec
=============================================================================
