-------------------------- MODULE BuildPlanProofs --------------------------
(***************************************************************************)
(* The runner on the plans that lower_exec_graph and emit_ninja make: for  *)
(* every project whose files are spelled one way and whose generated       *)
(* sources stand alone in their bundles, the plan is one that the runner   *)
(* keeps current; and a plan has no cycle that its bundles do not have,    *)
(* but through codegens and tasks.                                         *)
(***************************************************************************)
EXTENDS BuildRunnerProofs, LeiBuild, Sequences

-----------------------------------------------------------------------------
(* Projects. *)

(* The builds are of this project, or of a state of it that is refused. *)
PlansOf(p) == \A i \in DOMAIN Plans : DOMAIN Plans[i] = {} \/ Plans[i] = G!Plan(p)

(* The user writes sources that no tool generates. *)
HandWritten(p) ==
  \A f \in Sources \ External :
    \E s : f = G!Src(s) /\ \A x \in G!ToolActions(p) : s \notin G!OutputsOf(p, x)

-----------------------------------------------------------------------------
(* The lines of a plan. *)

(* The actions of a project, by rank. *)
LEMMA ActionCases ==
  ASSUME NEW p, NEW x \in G!Actions(p)
  PROVE  \/ \E b \in G!Bundles(p) : x = G!Prepass(b)
         \/ \E b \in G!Bundles(p) : x = G!BundleAction(p, b)
         \/ \E b \in G!Bundles(p) : \E s \in G!SourcesOf(p, b) : x = G!Frag(b, s)
         \/ \E b \in G!Bundles(p) : \E s \in G!SourcesOf(p, b) : x = G!Compile(b, s)
         \/ x \in G!ToolActions(p)
<1> DEFINE Of(b) == {G!Prepass(b), G!BundleAction(p, b)}
                      \union {G!Frag(b, s) : s \in G!SourcesOf(p, b)}
                      \union {G!Compile(b, s) : s \in G!SourcesOf(p, b)}
<1>0. G!Actions(p) = (UNION {Of(b) : b \in G!Bundles(p)})
                       \union {G!Codegen(c) : c \in DOMAIN p.codegens}
                       \union {G!Task(t) : t \in DOMAIN p.tasks}
  BY DEF G!Actions
<1>1. \/ \E b \in G!Bundles(p) : x \in Of(b)
      \/ \E c \in DOMAIN p.codegens : x = G!Codegen(c)
      \/ \E t \in DOMAIN p.tasks : x = G!Task(t)
  <2> HIDE DEF Of
  <2>1. \/ x \in UNION {Of(b) : b \in G!Bundles(p)}
        \/ x \in {G!Codegen(c) : c \in DOMAIN p.codegens}
        \/ x \in {G!Task(t) : t \in DOMAIN p.tasks}
    BY <1>0
  <2> QED
    BY <2>1
<1>2. ASSUME NEW c, x = G!Codegen(c) \/ x = G!Task(c) PROVE x \in G!ToolActions(p)
  <2>1. x[1] \in {4, 6}
    BY <1>2 DEF G!Codegen, G!Task
  <2> QED
    BY <2>1 DEF G!ToolActions
<1> QED
  BY <1>1, <1>2

(* The ranks of the actions, and that a name is of one action. *)
LEMMA Ranks ==
  ASSUME NEW p, NEW b, NEW s
  PROVE  /\ G!Prepass(b)[1] = 3 /\ G!Prepass(b)[2] = b /\ G!Prepass(b)[3] = 0
         /\ G!Frag(b, s)[1] = 2 /\ G!Frag(b, s)[2] = b /\ G!Frag(b, s)[3] = s
         /\ G!Compile(b, s)[1] = 5 /\ G!Compile(b, s)[2] = b /\ G!Compile(b, s)[3] = s
         /\ G!Link(b)[1] = 1 /\ G!Link(b)[2] = b /\ G!Lib(b)[1] = 7 /\ G!Lib(b)[2] = b
         /\ G!All[1] = 0
BY DEF G!Prepass, G!Frag, G!Compile, G!Link, G!Lib, G!All

(* Bundles have their actions. *)
LEMMA BundleHas ==
  ASSUME NEW p, NEW b \in G!Bundles(p)
  PROVE  /\ G!Prepass(b) \in G!Actions(p) /\ G!BundleAction(p, b) \in G!Actions(p)
         /\ \A s \in G!SourcesOf(p, b) :
              G!Frag(b, s) \in G!Actions(p) /\ G!Compile(b, s) \in G!Actions(p)
<1> DEFINE Of(c) == {G!Prepass(c), G!BundleAction(p, c)}
                      \union {G!Frag(c, s) : s \in G!SourcesOf(p, c)}
                      \union {G!Compile(c, s) : s \in G!SourcesOf(p, c)}
<1>1. (UNION {Of(c) : c \in G!Bundles(p)}) \subseteq G!Actions(p)
  BY DEF G!Actions
<1>2. Of(b) \subseteq G!Actions(p)
  <2> HIDE DEF Of
  <2> QED
    BY <1>1
<1> QED
  BY <1>2

(* A command's line. *)
LEMMA CommandIs ==
  \A ins, out, reads :
    LET n == G!Command(ins, out, reads) IN
    /\ n.ins = G!AllAbs(ins) /\ n.outs = {G!Abs(out)} /\ n.first = G!Abs(out)
    /\ n.touch = FALSE /\ n.reads = reads /\ n.writes = {out}
    /\ n = [ins |-> n.ins, outs |-> n.outs, first |-> n.first, touch |-> n.touch,
            reads |-> n.reads, writes |-> n.writes]
BY DEF G!Command

SourceFiles(p, b) == {G!Src(t) : t \in G!SourcesOf(p, b)}
IndexFiles(p, b) == {G!Index(d) : d \in p.deps[b]}
FragFiles(p, b) == {G!FragFile(b, i) : i \in DOMAIN p.sources[b]}
Objects(p, b) == {G!Obj(b, t) : t \in G!SourcesOf(p, b)}

(* What the commands of a source and of an index read. *)
CompilerReads(p, b, s) == SourceFiles(p, b) \union IndexFiles(p, b) \union G!Installed(p, s)
PrepassReads(p, b) ==
  SourceFiles(p, b) \union FragFiles(p, b) \union IndexFiles(p, b)
    \union G!Installed(p, p.sources[b][1])

(* The line of a fragment. *)
LEMMA FragNode ==
  ASSUME NEW p, NEW b, NEW s
  PROVE  G!Node(p, G!Frag(b, s)) =
           G!Command({G!Src(s)}, G!FragFile(b, G!PositionOf(p, b, s)),
                     CompilerReads(p, b, s))
<1>1. G!Frag(b, s)[1] = 2 /\ G!Frag(b, s)[2] = b /\ G!Frag(b, s)[3] = s
  BY Ranks
<1> QED
  BY <1>1 DEF G!Node, SourceFiles, IndexFiles, CompilerReads

(* The line of a bundle's index. *)
LEMMA PrepassNode ==
  ASSUME NEW p, NEW b
  PROVE  G!Node(p, G!Prepass(b)) =
           G!Command(SourceFiles(p, b), G!Index(b),
                     PrepassReads(p, b))
<1>1. G!Prepass(b)[1] = 3 /\ G!Prepass(b)[2] = b
  BY Ranks
<1> QED
  BY <1>1 DEF G!Node, SourceFiles, IndexFiles, FragFiles, PrepassReads

(* The line of an object. *)
LEMMA CompileNode ==
  ASSUME NEW p, NEW b, NEW s
  PROVE  G!Node(p, G!Compile(b, s)) =
           G!Command({G!Src(s)}, G!Obj(b, s), CompilerReads(p, b, s))
<1>1. G!Compile(b, s)[1] = 5 /\ G!Compile(b, s)[2] = b /\ G!Compile(b, s)[3] = s
  BY Ranks
<1> QED
  BY <1>1 DEF G!Node, SourceFiles, IndexFiles, CompilerReads

(* The line of a binary. *)
LEMMA LinkNode ==
  ASSUME NEW p, NEW b
  PROVE  LET n == G!Node(p, G!Link(b)) IN
         /\ n = [ins |-> n.ins, outs |-> n.outs, first |-> n.first, touch |-> n.touch,
                 reads |-> n.reads, writes |-> n.writes]
         /\ n.ins = G!AllAbs(G!LibObjs(p, b))
         /\ n.outs = {G!Abs(G!Bin(b))} \union {G!Abs(G!Stamp(G!Link(b)))}
         /\ n.first = G!Abs(G!Bin(b)) /\ n.touch = FALSE
         /\ n.reads = G!LibObjs(p, b) \union {G!Toolchain} /\ n.writes = {G!Bin(b)}
<1>1. G!Link(b)[1] = 1 /\ G!Link(b)[2] = b
  BY Ranks
<1>2. G!Node(p, G!Link(b)) =
        [G!Command(G!LibObjs(p, b), G!Bin(b), G!LibObjs(p, b) \union {G!Toolchain})
         EXCEPT !.outs = @ \union {G!Abs(G!Stamp(G!Link(b)))}]
  BY <1>1 DEF G!Node
<1> QED
  BY <1>2 DEF G!Command

(* The line of a library's stamp. *)
LEMMA LibNode ==
  ASSUME NEW p, NEW b
  PROVE  LET n == G!Node(p, G!Lib(b)) IN
         /\ n = [ins |-> n.ins, outs |-> n.outs, first |-> n.first, touch |-> n.touch,
                 reads |-> n.reads, writes |-> n.writes]
         /\ n.ins = G!AllAbs(Objects(p, b))
         /\ n.outs = {G!Abs(G!Stamp(G!Lib(b)))} /\ n.first = G!Abs(G!Stamp(G!Lib(b)))
         /\ n.touch = TRUE /\ n.reads = {} /\ n.writes = {G!Stamp(G!Lib(b))}
<1>1. G!Lib(b)[1] = 7 /\ G!Lib(b)[2] = b
  BY Ranks
<1>2. G!Node(p, G!Lib(b)) =
        [G!Command(Objects(p, b), G!Stamp(G!Lib(b)), {}) EXCEPT !.touch = TRUE]
  BY <1>1 DEF G!Node, Objects
<1> QED
  BY <1>2 DEF G!Command

(* The line of a codegen or a task, when paths are absolute. *)
LEMMA NodeTool ==
  ASSUME NEW p, G!Lowered(p), G!Plain(p), NEW x \in G!ToolActions(p)
  PROVE  LET n == G!Node(p, x) IN
         /\ n = [ins |-> n.ins, outs |-> n.outs, first |-> n.first, touch |-> n.touch,
                 reads |-> n.reads, writes |-> n.writes]
         /\ n.ins = {G!Abs(G!Src(f)) : f \in G!ToolOf(p, x).ins}
         /\ n.outs = {G!Abs(G!Src(s)) : s \in G!OutputsOf(p, x)} \union {G!Abs(G!Stamp(x))}
         /\ n.first \in n.outs /\ n.touch = FALSE
         /\ n.reads = {G!Src(f) : f \in G!ToolOf(p, x).ins}
         /\ n.writes = {G!Src(s) : s \in G!OutputsOf(p, x)}
<1> DEFINE t == G!ToolOf(p, x)
           outs == [i \in DOMAIN t.outs |-> G!Spelled(p, t.outs[i])]
           all == Append(outs, G!Abs(G!Stamp(x)))
<1>1. G!Node(p, x) =
        [ins |-> {G!Spelled(p, f) : f \in t.ins},
         outs |-> {all[i] : i \in DOMAIN all}, first |-> all[1], touch |-> FALSE,
         reads |-> {G!Src(f) : f \in t.ins}, writes |-> {G!File(outs[i]) : i \in DOMAIN outs}]
  <2>1. G!Node(p, x) = G!ToolNode(p, x, G!ToolOf(p, x))
    BY DEF G!Node, G!ToolOf, G!ToolActions
  <2> QED
    BY <2>1 DEF G!ToolNode
<1>2. \A s : G!Spelled(p, s) = G!Abs(G!Src(s))
  BY DEF G!Plain, G!Spelled
<1>3. t.outs \in Seq(Nat)
  BY DEF G!Lowered, G!WellShaped, G!Lowerable
<1>4. /\ outs \in Seq({G!Abs(G!Src(s)) : s \in Nat}) /\ Len(outs) = Len(t.outs)
      /\ DOMAIN outs = 1..Len(outs) /\ DOMAIN t.outs = DOMAIN outs /\ Len(outs) \in Nat
  BY <1>2, <1>3
<1>5. /\ Len(all) = Len(outs) + 1 /\ DOMAIN all = 1..Len(all)
      /\ all[Len(outs) + 1] = G!Abs(G!Stamp(x))
      /\ \A i \in 1..Len(outs) : all[i] = outs[i]
  BY <1>4
<1>6. {all[i] : i \in DOMAIN all} = {outs[i] : i \in DOMAIN outs} \union {G!Abs(G!Stamp(x))}
  <2> HIDE DEF all, outs
  <2>1. ASSUME NEW i \in DOMAIN all
        PROVE  all[i] \in {outs[j] : j \in DOMAIN outs} \union {G!Abs(G!Stamp(x))}
    <3>1. i \in 1..Len(outs) \/ i = Len(outs) + 1
      BY <1>4, <1>5
    <3> QED
      BY <1>4, <1>5, <3>1
  <2>2. ASSUME NEW i \in DOMAIN outs PROVE outs[i] \in {all[j] : j \in DOMAIN all}
    BY <1>4, <1>5
  <2>3. G!Abs(G!Stamp(x)) \in {all[j] : j \in DOMAIN all}
    BY <1>4, <1>5
  <2> QED
    BY <2>1, <2>2, <2>3
<1>7. {outs[i] : i \in DOMAIN outs} = {G!Abs(G!Src(s)) : s \in G!OutputsOf(p, x)}
  BY <1>2, <1>4 DEF G!OutputsOf
<1>8. {G!File(outs[i]) : i \in DOMAIN outs} = {G!Src(s) : s \in G!OutputsOf(p, x)}
  <2>1. \A i \in DOMAIN outs : G!File(outs[i]) = G!Src(t.outs[i])
    BY <1>2, <1>4 DEF G!File, G!Abs
  <2>2. G!OutputsOf(p, x) = {t.outs[i] : i \in DOMAIN outs}
    BY <1>4 DEF G!OutputsOf
  <2> HIDE DEF outs, t
  <2> QED
    BY <2>1, <2>2
<1> HIDE DEF all, outs, t
<1>9. all[1] \in {all[i] : i \in DOMAIN all}
  <2>1. 1 \in DOMAIN all
    BY <1>4, <1>5
  <2> QED
    BY <2>1
<1> QED
  <2>1. /\ G!Node(p, x).ins = {G!Spelled(p, f) : f \in t.ins}
        /\ G!Node(p, x).outs = {all[i] : i \in DOMAIN all} /\ G!Node(p, x).first = all[1]
        /\ G!Node(p, x).touch = FALSE /\ G!Node(p, x).reads = {G!Src(f) : f \in t.ins}
        /\ G!Node(p, x).writes = {G!File(outs[i]) : i \in DOMAIN outs}
    BY <1>1
  <2>2. {G!Spelled(p, f) : f \in t.ins} = {G!Abs(G!Src(f)) : f \in t.ins}
    BY <1>2
  <2>3. t = G!ToolOf(p, x)
    BY DEF t
  <2>4. LET n == G!Node(p, x) IN
        n = [ins |-> n.ins, outs |-> n.outs, first |-> n.first, touch |-> n.touch,
             reads |-> n.reads, writes |-> n.writes]
    BY <1>1
  <2> QED
    BY <1>6, <1>7, <1>8, <1>9, <2>1, <2>2, <2>3, <2>4

(* The record of a codegen's or a task's line, however paths are spelled,  *)
(* its inputs and its outputs.                                             *)
LEMMA ToolRecord ==
  ASSUME NEW p, G!Lowered(p), NEW x \in G!ToolActions(p)
  PROVE  LET n == G!Node(p, x) IN
         /\ n = [ins |-> n.ins, outs |-> n.outs, first |-> n.first, touch |-> n.touch,
                 reads |-> n.reads, writes |-> n.writes]
         /\ \A path \in n.ins : \E s : path = G!Spelled(p, s)
         /\ \A path \in n.outs : path = G!Abs(G!Stamp(x)) \/ \E s : path = G!Spelled(p, s)
         /\ n.first \in n.outs
<1> DEFINE t == G!ToolOf(p, x)
           outs == [i \in DOMAIN t.outs |-> G!Spelled(p, t.outs[i])]
           all == Append(outs, G!Abs(G!Stamp(x)))
<1>1. G!Node(p, x) =
        [ins |-> {G!Spelled(p, f) : f \in t.ins},
         outs |-> {all[i] : i \in DOMAIN all}, first |-> all[1], touch |-> FALSE,
         reads |-> {G!Src(f) : f \in t.ins}, writes |-> {G!File(outs[i]) : i \in DOMAIN outs}]
  <2>1. G!Node(p, x) = G!ToolNode(p, x, G!ToolOf(p, x))
    BY DEF G!Node, G!ToolOf, G!ToolActions
  <2> QED
    BY <2>1 DEF G!ToolNode
<1>2. t.outs \in Seq(Nat)
  BY DEF G!Lowered, G!WellShaped
<1>3. /\ outs \in Seq({G!Spelled(p, s) : s \in Nat}) /\ Len(outs) \in Nat
      /\ DOMAIN outs = 1..Len(outs)
  BY <1>2
<1>4. /\ DOMAIN all = 1..Len(outs) + 1 /\ all[Len(outs) + 1] = G!Abs(G!Stamp(x))
      /\ \A i \in 1..Len(outs) : all[i] = outs[i]
  BY <1>3
<1>5. ASSUME NEW i \in DOMAIN all
      PROVE  all[i] = G!Abs(G!Stamp(x)) \/ \E s : all[i] = G!Spelled(p, s)
  <2>1. i \in 1..Len(outs) \/ i = Len(outs) + 1
    BY <1>3, <1>4
  <2>2. CASE i \in 1..Len(outs)
    <3>1. outs[i] = G!Spelled(p, t.outs[i])
      BY <1>3, <2>2
    <3> QED
      BY <1>4, <2>2, <3>1
  <2> QED
    BY <1>4, <2>1, <2>2
<1>6. 1 \in DOMAIN all
  BY <1>3, <1>4
<1> HIDE DEF all, outs
<1>7. /\ G!Node(p, x).ins = {G!Spelled(p, f) : f \in t.ins}
      /\ G!Node(p, x).outs = {all[i] : i \in DOMAIN all} /\ G!Node(p, x).first = all[1]
  BY <1>1
<1>8. LET n == G!Node(p, x) IN
      n = [ins |-> n.ins, outs |-> n.outs, first |-> n.first, touch |-> n.touch,
           reads |-> n.reads, writes |-> n.writes]
  BY <1>1
<1> QED
  BY <1>5, <1>6, <1>7, <1>8

(* What every action's node is like: its outputs are absolute, and are the *)
(* files that it writes or its stamp.                                      *)
Shaped(x, n) ==
  /\ n = [ins |-> n.ins, outs |-> n.outs, first |-> n.first, touch |-> n.touch,
          reads |-> n.reads, writes |-> n.writes]
  /\ n.first \in n.outs
  /\ \A f \in n.writes : G!Abs(f) \in n.outs
  /\ \A path \in n.outs : \E f \in n.writes \union {G!Stamp(x)} : path = G!Abs(f)

(* Every action of a project has such a node. *)
LEMMA NodeShape ==
  ASSUME NEW p, G!Lowered(p), NEW x \in G!Actions(p),
         G!Plain(p) \/ x \notin G!ToolActions(p)
  PROVE  Shaped(x, G!Node(p, x))
<1>1. \A ins, out, reads : Shaped(x, G!Command(ins, out, reads))
  BY CommandIs DEF Shaped
<1>2. ASSUME NEW b, NEW s, x = G!Prepass(b) \/ x = G!Frag(b, s) \/ x = G!Compile(b, s)
      PROVE  Shaped(x, G!Node(p, x))
  <2>1. x = G!Prepass(b) => \E ins, out, reads : G!Node(p, x) = G!Command(ins, out, reads)
    BY PrepassNode
  <2>2. x = G!Frag(b, s) => \E ins, out, reads : G!Node(p, x) = G!Command(ins, out, reads)
    <3>1. G!Node(p, G!Frag(b, s)) =
            G!Command({G!Src(s)}, G!FragFile(b, G!PositionOf(p, b, s)),
                      CompilerReads(p, b, s))
      BY FragNode
    <3> QED
      BY <3>1
  <2>3. x = G!Compile(b, s) => \E ins, out, reads : G!Node(p, x) = G!Command(ins, out, reads)
    <3>1. G!Node(p, G!Compile(b, s)) =
            G!Command({G!Src(s)}, G!Obj(b, s), CompilerReads(p, b, s))
      BY CompileNode
    <3> QED
      BY <3>1
  <2>4. PICK ins, out, reads : G!Node(p, x) = G!Command(ins, out, reads)
    BY <1>2, <2>1, <2>2, <2>3
  <2>5. Shaped(x, G!Command(ins, out, reads))
    BY <1>1
  <2> QED
    BY <2>4, <2>5
<1>3. ASSUME NEW b, x = G!BundleAction(p, b) PROVE Shaped(x, G!Node(p, x))
  <2> DEFINE n == G!Node(p, x)
  <2>1. CASE x = G!Link(b)
    <3>1. /\ n = [ins |-> n.ins, outs |-> n.outs, first |-> n.first, touch |-> n.touch,
                  reads |-> n.reads, writes |-> n.writes]
          /\ n.outs = {G!Abs(G!Bin(b))} \union {G!Abs(G!Stamp(x))}
          /\ n.first = G!Abs(G!Bin(b)) /\ n.writes = {G!Bin(b)}
      BY <2>1, LinkNode
    <3> HIDE DEF n
    <3>2. Shaped(x, n)
      BY <3>1 DEF Shaped
    <3> QED
      BY <3>2 DEF n
  <2>2. CASE x = G!Lib(b)
    <3>1. /\ n = [ins |-> n.ins, outs |-> n.outs, first |-> n.first, touch |-> n.touch,
                  reads |-> n.reads, writes |-> n.writes]
          /\ n.outs = {G!Abs(G!Stamp(x))} /\ n.first = G!Abs(G!Stamp(x))
          /\ n.writes = {G!Stamp(x)}
      BY <2>2, LibNode, Zenon
    <3> HIDE DEF n
    <3>2. Shaped(x, n)
      BY <3>1 DEF Shaped
    <3> QED
      BY <3>2 DEF n
  <2> QED
    BY <1>3, <2>1, <2>2 DEF G!BundleAction
<1>4. CASE x \in G!ToolActions(p)
  <2> DEFINE n == G!Node(p, x)
  <2>1. /\ n = [ins |-> n.ins, outs |-> n.outs, first |-> n.first, touch |-> n.touch,
                reads |-> n.reads, writes |-> n.writes]
        /\ n.outs = {G!Abs(G!Src(s)) : s \in G!OutputsOf(p, x)} \union {G!Abs(G!Stamp(x))}
        /\ n.first \in n.outs /\ n.writes = {G!Src(s) : s \in G!OutputsOf(p, x)}
    BY <1>4, NodeTool, Zenon
  <2> HIDE DEF n
  <2>2. Shaped(x, n)
    BY <2>1 DEF Shaped
  <2> QED
    BY <2>2 DEF n
<1> QED
  BY <1>2, <1>3, <1>4, ActionCases

(* The name of a file tells who writes it. *)
Writes(p, x, f) ==
  \/ x \in G!ToolActions(p) /\ \E s \in G!OutputsOf(p, x) : f = G!Src(s)
  \/ \E b \in G!Bundles(p) : \E s \in G!SourcesOf(p, b) :
       \/ x = G!Frag(b, s) /\ f = G!FragFile(b, G!PositionOf(p, b, s))
       \/ x = G!Compile(b, s) /\ f = G!Obj(b, s)
  \/ \E b \in G!Bundles(p) :
       \/ x = G!Prepass(b) /\ f = G!Index(b)
       \/ x = G!Link(b) /\ f = G!Bin(b)
       \/ x = G!Lib(b) /\ f = G!Stamp(x)

(* Whatever an action writes has a name of its own kind. *)
LEMMA WriterNamed ==
  ASSUME NEW p, G!Lowered(p), NEW x \in G!Actions(p), NEW f \in G!Node(p, x).writes,
         G!Plain(p) \/ x \notin G!ToolActions(p)
  PROVE  Writes(p, x, f)
<1>1. ASSUME NEW b \in G!Bundles(p), x = G!Prepass(b) PROVE Writes(p, x, f)
  <2>1. G!Node(p, x) = G!Command(SourceFiles(p, b), G!Index(b),
                         PrepassReads(p, b))
    BY <1>1, PrepassNode
  <2>2. f = G!Index(b)
    BY <2>1, CommandIs
  <2> QED
    BY <1>1, <2>2 DEF Writes
<1>2. ASSUME NEW b \in G!Bundles(p), NEW s \in G!SourcesOf(p, b), x = G!Frag(b, s)
      PROVE  Writes(p, x, f)
  <2>1. G!Node(p, x) = G!Command({G!Src(s)}, G!FragFile(b, G!PositionOf(p, b, s)),
                         CompilerReads(p, b, s))
    BY <1>2, FragNode
  <2>2. f = G!FragFile(b, G!PositionOf(p, b, s))
    BY <2>1, CommandIs
  <2> QED
    BY <1>2, <2>2 DEF Writes
<1>3. ASSUME NEW b \in G!Bundles(p), NEW s \in G!SourcesOf(p, b), x = G!Compile(b, s)
      PROVE  Writes(p, x, f)
  <2>1. G!Node(p, x) = G!Command({G!Src(s)}, G!Obj(b, s), CompilerReads(p, b, s))
    BY <1>3, CompileNode
  <2>2. f = G!Obj(b, s)
    BY <2>1, CommandIs
  <2> QED
    BY <1>3, <2>2 DEF Writes
<1>4. ASSUME NEW b \in G!Bundles(p), x = G!BundleAction(p, b) PROVE Writes(p, x, f)
  <2>1. CASE x = G!Link(b)
    <3>1. G!Node(p, G!Link(b)).writes = {G!Bin(b)}
      BY LinkNode, Zenon
    <3>2. f = G!Bin(b)
      BY <2>1, <3>1
    <3> QED
      BY <2>1, <3>2 DEF Writes
  <2>2. CASE x = G!Lib(b)
    <3>1. G!Node(p, G!Lib(b)).writes = {G!Stamp(G!Lib(b))}
      BY LibNode, Zenon
    <3>2. f = G!Stamp(x)
      BY <2>2, <3>1
    <3> QED
      BY <2>2, <3>2 DEF Writes
  <2> QED
    BY <1>4, <2>1, <2>2 DEF G!BundleAction
<1>5. CASE x \in G!ToolActions(p)
  <2>1. G!Node(p, x).writes = {G!Src(s) : s \in G!OutputsOf(p, x)}
    BY <1>5, NodeTool
  <2> QED
    BY <1>5, <2>1 DEF Writes
<1> QED
  BY <1>1, <1>2, <1>3, <1>4, <1>5, ActionCases

(* Files of different kinds differ, and their names tell what they are of. *)
LEMMA Kinds ==
  /\ \A b, c, i, j : G!FragFile(b, i) = G!FragFile(c, j) => b = c /\ i = j
  /\ \A b, c, s, t : G!Obj(b, s) = G!Obj(c, t) => b = c /\ s = t
  /\ \A b, c : G!Index(b) = G!Index(c) => b = c
  /\ \A b, c : G!Bin(b) = G!Bin(c) => b = c
  /\ \A s, t : G!Src(s) = G!Src(t) => s = t
  /\ \A x, y : G!Stamp(x) = G!Stamp(y) => x = y
  /\ \A f, g : G!Abs(f) = G!Abs(g) => f = g
BY DEF G!FragFile, G!Obj, G!Index, G!Bin, G!Src, G!Stamp, G!Abs

(* A fragment's place in its bundle is that of its source. *)
LEMMA PositionIs ==
  ASSUME NEW p, NEW b, NEW s \in G!SourcesOf(p, b)
  PROVE  G!PositionOf(p, b, s) \in DOMAIN p.sources[b] /\ p.sources[b][G!PositionOf(p, b, s)] = s
BY DEF G!SourcesOf, G!PositionOf

(* The kind of a file, the first part of its name. *)
Kind(f) == f[1]

(* The kinds of the files of BuildGraph. *)
LEMMA KindNames ==
  /\ \A s : Kind(G!Src(s)) = "src"
  /\ \A b, i : Kind(G!FragFile(b, i)) = "frag"
  /\ \A b : Kind(G!Index(b)) = "index"
  /\ \A b, s : Kind(G!Obj(b, s)) = "obj"
  /\ \A b : Kind(G!Bin(b)) = "bin"
  /\ \A x : Kind(G!Stamp(x)) = "stamp"
BY DEF Kind, G!Src, G!FragFile, G!Index, G!Obj, G!Bin, G!Stamp

Outside == {"header", "toolchain"}

(* What is installed and what is imported from C is of a kind of its own. *)
LEMMA InstalledKinds ==
  ASSUME NEW p, NEW s, NEW f \in G!Installed(p, s) \union {G!Toolchain}
  PROVE  Kind(f) \in Outside
BY DEF Kind, Outside, G!Installed, G!Header, G!Toolchain

(* What writes a file of a kind. *)
LEMMA WriterByKind ==
  ASSUME NEW p, NEW x, NEW f, Writes(p, x, f) \/ f = G!Stamp(x)
  PROVE  \/ Kind(f) = "src" /\ x \in G!ToolActions(p) /\ \E s \in G!OutputsOf(p, x) : f = G!Src(s)
         \/ Kind(f) = "frag" /\ \E b \in G!Bundles(p) : \E s \in G!SourcesOf(p, b) :
              x = G!Frag(b, s) /\ f = G!FragFile(b, G!PositionOf(p, b, s))
         \/ Kind(f) = "obj" /\ \E b \in G!Bundles(p) : \E s \in G!SourcesOf(p, b) :
              x = G!Compile(b, s) /\ f = G!Obj(b, s)
         \/ Kind(f) = "index" /\ \E b \in G!Bundles(p) : x = G!Prepass(b) /\ f = G!Index(b)
         \/ Kind(f) = "bin" /\ \E b \in G!Bundles(p) : x = G!Link(b) /\ f = G!Bin(b)
         \/ Kind(f) = "stamp" /\ f = G!Stamp(x)
BY KindNames DEF Writes

(* No two actions write a file, none another's stamp. *)
LEMMA OneWriterNamed ==
  ASSUME NEW p, G!Lowered(p), NEW x \in G!Actions(p), NEW y \in G!Actions(p),
         G!Plain(p) \/ (x \notin G!ToolActions(p) /\ y \notin G!ToolActions(p)),
         NEW f, f \in G!Node(p, x).writes \union {G!Stamp(x)},
         f \in G!Node(p, y).writes \union {G!Stamp(y)}
  PROVE  x = y
<1>1. Writes(p, x, f) \/ f = G!Stamp(x)
  BY WriterNamed
<1>2. Writes(p, y, f) \/ f = G!Stamp(y)
  BY WriterNamed
<1>3. CASE Kind(f) = "src"
  <2>1. x \in G!ToolActions(p) /\ \E s \in G!OutputsOf(p, x) : f = G!Src(s)
    BY <1>1, <1>3, WriterByKind
  <2>2. y \in G!ToolActions(p) /\ \E s \in G!OutputsOf(p, y) : f = G!Src(s)
    BY <1>2, <1>3, WriterByKind
  <2>3. PICK s \in G!OutputsOf(p, x) : f = G!Src(s)
    BY <2>1
  <2>4. PICK t \in G!OutputsOf(p, y) : f = G!Src(t)
    BY <2>2
  <2>5. s = t
    BY <2>3, <2>4, Kinds
  <2> QED
    BY <2>1, <2>2, <2>5 DEF G!Plain
<1>4. CASE Kind(f) = "frag"
  <2>1. PICK b \in G!Bundles(p) : \E s \in G!SourcesOf(p, b) :
          x = G!Frag(b, s) /\ f = G!FragFile(b, G!PositionOf(p, b, s))
    BY <1>1, <1>4, WriterByKind
  <2>2. PICK c \in G!Bundles(p) : \E s \in G!SourcesOf(p, c) :
          y = G!Frag(c, s) /\ f = G!FragFile(c, G!PositionOf(p, c, s))
    BY <1>2, <1>4, WriterByKind
  <2>3. PICK s \in G!SourcesOf(p, b) : x = G!Frag(b, s) /\ f = G!FragFile(b, G!PositionOf(p, b, s))
    BY <2>1
  <2>4. PICK t \in G!SourcesOf(p, c) : y = G!Frag(c, t) /\ f = G!FragFile(c, G!PositionOf(p, c, t))
    BY <2>2
  <2>5. b = c /\ G!PositionOf(p, b, s) = G!PositionOf(p, c, t)
    BY <2>3, <2>4 DEF G!FragFile
  <2>6. s = t
    <3>1. p.sources[b][G!PositionOf(p, b, s)] = s /\ p.sources[c][G!PositionOf(p, c, t)] = t
      BY PositionIs
    <3> QED
      BY <2>5, <3>1
  <2> QED
    BY <2>3, <2>4, <2>5, <2>6
<1>5. CASE Kind(f) = "obj"
  <2>1. PICK b \in G!Bundles(p) : \E s \in G!SourcesOf(p, b) : x = G!Compile(b, s) /\ f = G!Obj(b, s)
    BY <1>1, <1>5, WriterByKind
  <2>2. PICK c \in G!Bundles(p) : \E s \in G!SourcesOf(p, c) : y = G!Compile(c, s) /\ f = G!Obj(c, s)
    BY <1>2, <1>5, WriterByKind
  <2> QED
    BY <2>1, <2>2 DEF G!Obj
<1>6. CASE Kind(f) = "index"
  <2>1. PICK b \in G!Bundles(p) : x = G!Prepass(b) /\ f = G!Index(b)
    BY <1>1, <1>6, WriterByKind
  <2>2. PICK c \in G!Bundles(p) : y = G!Prepass(c) /\ f = G!Index(c)
    BY <1>2, <1>6, WriterByKind
  <2> QED
    BY <2>1, <2>2 DEF G!Index
<1>7. CASE Kind(f) = "bin"
  <2>1. PICK b \in G!Bundles(p) : x = G!Link(b) /\ f = G!Bin(b)
    BY <1>1, <1>7, WriterByKind
  <2>2. PICK c \in G!Bundles(p) : y = G!Link(c) /\ f = G!Bin(c)
    BY <1>2, <1>7, WriterByKind
  <2> QED
    BY <2>1, <2>2 DEF G!Bin
<1>8. CASE Kind(f) = "stamp"
  <2>1. f = G!Stamp(x) /\ f = G!Stamp(y)
    BY <1>1, <1>2, <1>8, WriterByKind
  <2> QED
    BY <2>1 DEF G!Stamp
<1> QED
  BY <1>1, <1>3, <1>4, <1>5, <1>6, <1>7, <1>8, WriterByKind

(* No two actions share an output, stamps included. *)
LEMMA OneMaker ==
  ASSUME NEW p, G!Lowered(p), NEW x \in G!Actions(p), NEW y \in G!Actions(p),
         G!Plain(p) \/ (x \notin G!ToolActions(p) /\ y \notin G!ToolActions(p)),
         G!Node(p, x).outs \intersect G!Node(p, y).outs # {}
  PROVE  x = y
<1>1. PICK path : path \in G!Node(p, x).outs /\ path \in G!Node(p, y).outs
  OBVIOUS
<1>2. PICK f \in G!Node(p, x).writes \union {G!Stamp(x)} : path = G!Abs(f)
  BY <1>1, NodeShape DEF Shaped
<1>3. PICK g \in G!Node(p, y).writes \union {G!Stamp(y)} : path = G!Abs(g)
  BY <1>1, NodeShape DEF Shaped
<1>4. f = g
  BY <1>2, <1>3 DEF G!Abs
<1> QED
  BY <1>4, OneWriterNamed

-----------------------------------------------------------------------------
(* The edges, and the inputs that emit_ninja makes of them. *)

BundleEdge(p, y, x) ==
  \E b \in G!Bundles(p) :
    \/ \E s \in G!SourcesOf(p, b) : y = G!Frag(b, s) /\ x = G!Prepass(b)
    \/ \E s \in G!SourcesOf(p, b) : y = G!Prepass(b) /\ x = G!Compile(b, s)
    \/ y = G!Prepass(b) /\ x = G!BundleAction(p, b)
    \/ \E d \in p.deps[b] : y = G!BundleAction(p, d) /\ x = G!BundleAction(p, b)
    \/ \E d \in p.deps[b] :
         /\ y = G!Prepass(d)
         /\ \/ x = G!Prepass(b)
            \/ \E s \in G!SourcesOf(p, b) : x = G!Frag(b, s) \/ x = G!Compile(b, s)

(* The edges of bundles, as set out in lower_exec_graph. *)
LEMMA BundleEdgesAre ==
  ASSUME NEW p
  PROVE  /\ \A b \in G!Bundles(p) : \A e \in G!BundleEdges(p, b) : BundleEdge(p, e[1], e[2])
         /\ \A y, x : BundleEdge(p, y, x) => <<y, x>> \in G!Edges(p)
<1>1. ASSUME NEW b \in G!Bundles(p), NEW e \in G!BundleEdges(p, b) PROVE BundleEdge(p, e[1], e[2])
  <2>1. CASE \E s \in G!SourcesOf(p, b) : e = <<G!Frag(b, s), G!Prepass(b)>>
    BY <2>1 DEF BundleEdge
  <2>2. CASE \E s \in G!SourcesOf(p, b) : e = <<G!Prepass(b), G!Compile(b, s)>>
    BY <2>2 DEF BundleEdge
  <2>3. CASE e = <<G!Prepass(b), G!BundleAction(p, b)>>
    BY <2>3 DEF BundleEdge
  <2>4. CASE \E d \in p.deps[b] : e = <<G!BundleAction(p, d), G!BundleAction(p, b)>>
    BY <2>4 DEF BundleEdge
  <2> DEFINE Above == {G!Prepass(b)} \union {G!Frag(b, s) : s \in G!SourcesOf(p, b)}
                        \union {G!Compile(b, s) : s \in G!SourcesOf(p, b)}
  <2>5. CASE \E d \in p.deps[b] : \E y \in Above : e = <<G!Prepass(d), y>>
    <3>1. PICK d \in p.deps[b] : \E y \in Above : e = <<G!Prepass(d), y>>
      BY <2>5
    <3>2. PICK y \in Above : e = <<G!Prepass(d), y>>
      BY <3>1
    <3>3. e[1] = G!Prepass(d) /\ e[2] = y
      BY <3>2
    <3>4. y = G!Prepass(b) \/ \E s \in G!SourcesOf(p, b) : y = G!Frag(b, s) \/ y = G!Compile(b, s)
      OBVIOUS
    <3> QED
      BY <3>3, <3>4 DEF BundleEdge
  <2> QED
    BY <2>1, <2>2, <2>3, <2>4, <2>5 DEF G!BundleEdges
<1>2. ASSUME NEW y, NEW x, BundleEdge(p, y, x) PROVE <<y, x>> \in G!Edges(p)
  <2>1. PICK b \in G!Bundles(p) : <<y, x>> \in G!BundleEdges(p, b)
    <3>1. PICK b \in G!Bundles(p) :
            \/ \E s \in G!SourcesOf(p, b) : y = G!Frag(b, s) /\ x = G!Prepass(b)
            \/ \E s \in G!SourcesOf(p, b) : y = G!Prepass(b) /\ x = G!Compile(b, s)
            \/ y = G!Prepass(b) /\ x = G!BundleAction(p, b)
            \/ \E d \in p.deps[b] : y = G!BundleAction(p, d) /\ x = G!BundleAction(p, b)
            \/ \E d \in p.deps[b] :
                 /\ y = G!Prepass(d)
                 /\ \/ x = G!Prepass(b)
                    \/ \E s \in G!SourcesOf(p, b) : x = G!Frag(b, s) \/ x = G!Compile(b, s)
      BY <1>2 DEF BundleEdge
    <3>2. <<y, x>> \in G!BundleEdges(p, b)
      BY <3>1 DEF G!BundleEdges
    <3> QED
      BY <3>2
  <2>2. <<y, x>> \in UNION {G!BundleEdges(p, c) : c \in G!Bundles(p)}
    BY <2>1
  <2> QED
    BY <2>2 DEF G!Edges
<1> QED
  BY <1>1, <1>2

(* Codegens and tasks. *)
LEMMA ToolNames ==
  ASSUME NEW p
  PROVE  /\ \A c \in DOMAIN p.codegens :
              G!Codegen(c) \in G!ToolActions(p) /\ G!ToolOf(p, G!Codegen(c)) = p.codegens[c]
         /\ \A t \in DOMAIN p.tasks :
              G!Task(t) \in G!ToolActions(p) /\ G!ToolOf(p, G!Task(t)) = p.tasks[t]
<1>1. ASSUME NEW c \in DOMAIN p.codegens
      PROVE  G!Codegen(c) \in G!ToolActions(p) /\ G!ToolOf(p, G!Codegen(c)) = p.codegens[c]
  <2>1. G!Codegen(c) \in G!Actions(p)
    BY DEF G!Actions
  <2>2. G!Codegen(c)[1] = 4 /\ G!Codegen(c)[2] = c
    BY DEF G!Codegen
  <2> QED
    BY <2>1, <2>2 DEF G!ToolActions, G!ToolOf
<1>2. ASSUME NEW t \in DOMAIN p.tasks
      PROVE  G!Task(t) \in G!ToolActions(p) /\ G!ToolOf(p, G!Task(t)) = p.tasks[t]
  <2>1. G!Task(t) \in G!Actions(p)
    BY DEF G!Actions
  <2>2. G!Task(t)[1] = 6 /\ G!Task(t)[2] = t
    BY DEF G!Task
  <2> QED
    BY <2>1, <2>2 DEF G!ToolActions, G!ToolOf
<1> QED
  BY <1>1, <1>2

(* An edge comes from an action; it is a bundle's, or has a tool at one    *)
(* end.                                                                    *)
LEMMA EdgeCases ==
  ASSUME NEW p, G!Lowered(p), NEW e \in G!Edges(p)
  PROVE  /\ e[1] \in G!Actions(p)
         /\ e[1] \in G!ToolActions(p) \/ e[2] \in G!ToolActions(p) \/ BundleEdge(p, e[1], e[2])
<1>1. ASSUME NEW b \in G!Bundles(p), e \in G!BundleEdges(p, b)
      PROVE  e[1] \in G!Actions(p) /\ BundleEdge(p, e[1], e[2])
  <2>1. BundleEdge(p, e[1], e[2])
    BY <1>1, BundleEdgesAre
  <2>2. \A c \in G!Bundles(p) : p.deps[c] \subseteq G!Bundles(p)
    BY DEF G!Lowered, G!WellShaped, G!Lowerable
  <2> QED
    BY <2>1, <2>2, BundleHas DEF BundleEdge
<1>2. ASSUME NEW c \in DOMAIN p.codegens, e \in G!CodegenEdges(p, c)
      PROVE  e[1] \in G!Actions(p) /\ (e[1] \in G!ToolActions(p) \/ e[2] \in G!ToolActions(p))
  <2>1. /\ G!Codegen(c) \in G!ToolActions(p) /\ G!Codegen(c) \in G!Actions(p)
        /\ p.codegens[c].deps \subseteq G!Actions(p)
    BY ToolNames DEF G!Lowered, G!Lowerable, G!ToolActions
  <2>2. e[1] = G!Codegen(c) \/ (e[1] \in p.codegens[c].deps /\ e[2] = G!Codegen(c))
    BY <1>2 DEF G!CodegenEdges
  <2> QED
    BY <2>1, <2>2
<1>3. ASSUME NEW t \in DOMAIN p.tasks, e \in G!TaskEdges(p, t)
      PROVE  e[1] \in G!Actions(p) /\ e[2] \in G!ToolActions(p)
  <2>1. G!Task(t) \in G!ToolActions(p) /\ p.tasks[t].deps \subseteq G!Actions(p)
    BY ToolNames DEF G!Lowered, G!WellShaped, G!Lowerable
  <2>2. e[1] \in p.tasks[t].deps /\ e[2] = G!Task(t)
    BY <1>3 DEF G!TaskEdges
  <2> QED
    BY <2>1, <2>2
<1>4. \/ \E b \in G!Bundles(p) : e \in G!BundleEdges(p, b)
      \/ \E c \in DOMAIN p.codegens : e \in G!CodegenEdges(p, c)
      \/ \E t \in DOMAIN p.tasks : e \in G!TaskEdges(p, t)
  BY DEF G!Edges
<1> QED
  BY <1>1, <1>2, <1>3, <1>4

(* Actions have ranks; the line "all" is none of them. *)
LEMMA ActionRank ==
  ASSUME NEW p, NEW x \in G!Actions(p)
  PROVE  x # G!All
<1>1. \A b, s : /\ G!Prepass(b)[1] # 0 /\ G!Frag(b, s)[1] # 0 /\ G!Compile(b, s)[1] # 0
               /\ G!Link(b)[1] # 0 /\ G!Lib(b)[1] # 0
  BY DEF G!Prepass, G!Frag, G!Compile, G!Link, G!Lib
<1>2. x[1] # 0
  BY <1>1, ActionCases DEF G!ToolActions, G!BundleAction
<1> QED
  BY <1>2 DEF G!All

(* A line's inputs are those of its node and the first outputs of the      *)
(* actions that have an edge to it.                                        *)
LEMMA LineIs ==
  ASSUME NEW p, G!Lowered(p), NEW x \in G!Actions(p)
  PROVE  LET l == G!Plan(p)[x]
             n == G!Node(p, x)
         IN  /\ l.outs = n.outs /\ l.touch = n.touch /\ l.reads = n.reads /\ l.writes = n.writes
             /\ l.ins = n.ins \union {G!Node(p, e[1]).first : e \in {d \in G!Edges(p) : d[2] = x}}
<1>1. G!Plan(p)[x] = G!Line(p, x)
  BY ActionRank DEF G!Plan
<1>2. LET n == G!Node(p, x) IN
      n = [ins |-> n.ins, outs |-> n.outs, first |-> n.first, touch |-> n.touch,
           reads |-> n.reads, writes |-> n.writes]
  <2>1. CASE x \in G!ToolActions(p)
    BY <2>1, ToolRecord
  <2>2. CASE x \notin G!ToolActions(p)
    BY <2>2, NodeShape DEF Shaped
  <2> QED
    BY <2>1, <2>2
<1> QED
  BY <1>1, <1>2 DEF G!Line

-----------------------------------------------------------------------------
(* What the lines read and list. *)

AllFile == <<"all">>

(* Only "all" is called all. *)
LEMMA NotAll ==
  ASSUME NEW f, Kind(f) \in {"src", "frag", "index", "obj", "bin", "stamp"} \union Outside
  PROVE  f # AllFile
BY DEF Kind, Outside, AllFile

(* What collect_lib_objs returns are objects. *)
LEMMA LibObjsAreObjects ==
  ASSUME NEW p, NEW b, NEW f \in G!LibObjs(p, b)
  PROVE  \E d, s : f = G!Obj(d, s)
BY DEF G!LibObjs

(* Absolute names of files other than all. *)
Absolute(paths) == \A path \in paths : \E f : path = G!Abs(f) /\ f # AllFile

(* AllAbs makes such names. *)
LEMMA AllAbsAbsolute ==
  ASSUME NEW fs, \A f \in fs : f # AllFile
  PROVE  Absolute(G!AllAbs(fs))
BY DEF Absolute, G!AllAbs

(* No file of a bundle is called all. *)
LEMMA FilesNotAll ==
  /\ \A s : G!Src(s) # AllFile
  /\ \A b, i : G!FragFile(b, i) # AllFile
  /\ \A b : G!Index(b) # AllFile
  /\ \A b, s : G!Obj(b, s) # AllFile
  /\ \A b : G!Bin(b) # AllFile
  /\ \A x : G!Stamp(x) # AllFile
BY KindNames, NotAll

(* Outputs have absolute names. *)
LEMMA OutputsAbsolute ==
  ASSUME NEW p, G!Lowered(p), G!Plain(p), NEW x \in G!Actions(p)
  PROVE  Absolute(G!Node(p, x).outs) /\ AllFile \notin G!Node(p, x).writes
<1>1. ASSUME NEW f \in G!Node(p, x).writes \union {G!Stamp(x)} PROVE f # AllFile
  <2>1. Writes(p, x, f) \/ f = G!Stamp(x)
    BY <1>1, WriterNamed
  <2>2. Kind(f) \in {"src", "frag", "index", "obj", "bin", "stamp"}
    BY <2>1, WriterByKind
  <2> QED
    BY <2>2, NotAll
<1> QED
  BY <1>1, NodeShape DEF Shaped, Absolute

(* Nodes list and read files by absolute names. *)
LEMMA NodeInputs ==
  ASSUME NEW p, G!Lowered(p), NEW x \in G!Actions(p),
         G!Plain(p) \/ x \notin G!ToolActions(p)
  PROVE  Absolute(G!Node(p, x).ins) /\ AllFile \notin G!Node(p, x).reads
<1> DEFINE Good(n) == Absolute(n.ins) /\ AllFile \notin n.reads
<1>1. ASSUME NEW ins, NEW out, NEW reads, AllFile \notin ins, AllFile \notin reads
      PROVE  Good(G!Command(ins, out, reads))
  <2>1. Absolute(G!AllAbs(ins))
    BY <1>1, AllAbsAbsolute
  <2> QED
    BY <1>1, <2>1, CommandIs
<1>2. ASSUME NEW b
      PROVE  /\ AllFile \notin SourceFiles(p, b) /\ AllFile \notin IndexFiles(p, b)
             /\ AllFile \notin FragFiles(p, b) /\ AllFile \notin Objects(p, b)
             /\ AllFile \notin G!LibObjs(p, b) \union {G!Toolchain}
             /\ AllFile \notin PrepassReads(p, b)
             /\ \A s : AllFile \notin CompilerReads(p, b, s)
  <2>1. \A s : AllFile \notin G!Installed(p, s) \union {G!Toolchain}
    BY InstalledKinds, NotAll
  <2>2. /\ AllFile \notin SourceFiles(p, b) /\ AllFile \notin IndexFiles(p, b)
        /\ AllFile \notin FragFiles(p, b) /\ AllFile \notin Objects(p, b)
        /\ AllFile \notin G!LibObjs(p, b)
    BY FilesNotAll, LibObjsAreObjects DEF SourceFiles, IndexFiles, FragFiles, Objects
  <2> QED
    BY <2>1, <2>2 DEF PrepassReads, CompilerReads
<1> HIDE DEF Good
<1>3. ASSUME NEW b, x = G!Prepass(b) PROVE Good(G!Node(p, x))
  <2>1. G!Node(p, x) = G!Command(SourceFiles(p, b), G!Index(b),
                         PrepassReads(p, b))
    BY <1>3, PrepassNode
  <2> QED
    BY <1>1, <1>2, <2>1
<1>4. ASSUME NEW b, NEW s, x = G!Frag(b, s) PROVE Good(G!Node(p, x))
  <2>1. G!Node(p, x) = G!Command({G!Src(s)}, G!FragFile(b, G!PositionOf(p, b, s)),
                         CompilerReads(p, b, s))
    BY <1>4, FragNode
  <2> QED
    BY <1>1, <1>2, <2>1, FilesNotAll
<1>5. ASSUME NEW b, NEW s, x = G!Compile(b, s) PROVE Good(G!Node(p, x))
  <2>1. G!Node(p, x) = G!Command({G!Src(s)}, G!Obj(b, s), CompilerReads(p, b, s))
    BY <1>5, CompileNode
  <2> QED
    BY <1>1, <1>2, <2>1, FilesNotAll
<1>6. ASSUME NEW b, x = G!BundleAction(p, b) PROVE Good(G!Node(p, x))
  <2>1. Absolute(G!AllAbs(G!LibObjs(p, b))) /\ Absolute(G!AllAbs(Objects(p, b)))
    BY <1>2, AllAbsAbsolute
  <2>2. CASE x = G!Link(b)
    <3>1. /\ G!Node(p, x).ins = G!AllAbs(G!LibObjs(p, b))
          /\ G!Node(p, x).reads = G!LibObjs(p, b) \union {G!Toolchain}
      BY <2>2, LinkNode
    <3> QED
      BY <1>2, <2>1, <3>1 DEF Good
  <2>3. CASE x = G!Lib(b)
    BY <1>2, <2>1, <2>3, LibNode DEF Good
  <2> QED
    BY <1>6, <2>2, <2>3 DEF G!BundleAction
<1>7. CASE x \in G!ToolActions(p)
  <2>1. /\ G!Node(p, x).ins = {G!Abs(G!Src(f)) : f \in G!ToolOf(p, x).ins}
        /\ G!Node(p, x).reads = {G!Src(f) : f \in G!ToolOf(p, x).ins}
    BY <1>7, NodeTool
  <2>2. \A f : G!Src(f) # AllFile
    BY FilesNotAll
  <2>3. Absolute({G!Abs(G!Src(f)) : f \in G!ToolOf(p, x).ins})
    BY <2>2 DEF Absolute
  <2>4. AllFile \notin {G!Src(f) : f \in G!ToolOf(p, x).ins}
    BY <2>2
  <2> QED
    BY <2>1, <2>3, <2>4 DEF Good
<1> QED
  BY <1>3, <1>4, <1>5, <1>6, <1>7, ActionCases DEF Good

(* So do lines. *)
LEMMA LineInputs ==
  ASSUME NEW p, G!Lowered(p), G!Plain(p), NEW x \in G!Actions(p)
  PROVE  Absolute(G!Plan(p)[x].ins)
<1>1. ASSUME NEW e \in G!Edges(p) PROVE \E f : G!Node(p, e[1]).first = G!Abs(f) /\ f # AllFile
  <2>1. e[1] \in G!Actions(p)
    BY EdgeCases
  <2>2. G!Node(p, e[1]).first \in G!Node(p, e[1]).outs
    BY <2>1, NodeShape DEF Shaped
  <2> QED
    BY <2>1, <2>2, OutputsAbsolute DEF Absolute
<1>2. G!Plan(p)[x].ins =
        G!Node(p, x).ins \union {G!Node(p, e[1]).first : e \in {d \in G!Edges(p) : d[2] = x}}
  BY LineIs
<1> QED
  BY <1>1, <1>2, NodeInputs DEF Absolute

(* Every edge of a bundle is an input. *)
LEMMA EdgeIsInput ==
  ASSUME NEW p, G!Lowered(p), G!Plain(p), NEW x \in G!Actions(p), NEW y, BundleEdge(p, y, x)
  PROVE  G!Node(p, y).first \in G!Plan(p)[x].ins
<1>1. <<y, x>> \in {d \in G!Edges(p) : d[2] = x}
  BY BundleEdgesAre
<1>2. G!Plan(p)[x].ins =
        G!Node(p, x).ins \union {G!Node(p, e[1]).first : e \in {d \in G!Edges(p) : d[2] = x}}
  BY LineIs
<1>3. G!Node(p, <<y, x>>[1]).first \in G!Plan(p)[x].ins
  BY <1>1, <1>2
<1> QED
  BY <1>3

(* The index of a bundle below, and of the bundle itself for its           *)
(* compilations, is an input.                                              *)
LEMMA IndexIsInput ==
  ASSUME NEW p, G!Lowered(p), G!Plain(p), NEW x \in G!Actions(p), NEW d, BundleEdge(p, G!Prepass(d), x)
  PROVE  G!Abs(G!Index(d)) \in G!Plan(p)[x].ins
<1>1. G!Node(p, G!Prepass(d)) = G!Command(SourceFiles(p, d), G!Index(d),
                         PrepassReads(p, d))
  BY PrepassNode
<1>2. G!Node(p, G!Prepass(d)).first = G!Abs(G!Index(d))
  BY <1>1, CommandIs
<1> QED
  BY <1>2, EdgeIsInput

(* A command lists what it reads of the project, but for the sources of    *)
(* its bundle that fragments and compilations do not list.                 *)
LEMMA ReadsListed ==
  ASSUME NEW p, G!Lowered(p), G!Plain(p), NEW x \in G!Actions(p), NEW f \in G!Plan(p)[x].reads,
         Kind(f) \notin Outside
  PROVE  \/ G!Abs(f) \in G!Plan(p)[x].ins
         \/ \E b \in G!Bundles(p) : \E s, t \in G!SourcesOf(p, b) :
              /\ x = G!Frag(b, s) \/ x = G!Compile(b, s)
              /\ f = G!Src(t) /\ G!Abs(G!Src(s)) \in G!Plan(p)[x].ins
<1>0. f \in G!Node(p, x).reads /\ G!Node(p, x).ins \subseteq G!Plan(p)[x].ins
  BY LineIs
<1>1. ASSUME NEW b \in G!Bundles(p), NEW d \in p.deps[b], f = G!Index(d),
             \/ x = G!Prepass(b)
             \/ \E s \in G!SourcesOf(p, b) : x = G!Frag(b, s) \/ x = G!Compile(b, s)
      PROVE  G!Abs(f) \in G!Plan(p)[x].ins
  <2>1. BundleEdge(p, G!Prepass(d), x)
    BY <1>1 DEF BundleEdge
  <2> QED
    BY <1>1, <2>1, IndexIsInput
<1>2. ASSUME NEW b \in G!Bundles(p), x = G!Prepass(b) PROVE G!Abs(f) \in G!Plan(p)[x].ins
  <2>1. G!Node(p, x) = G!Command(SourceFiles(p, b), G!Index(b),
                         PrepassReads(p, b))
    BY <1>2, PrepassNode
  <2>2. /\ G!Node(p, x).ins = G!AllAbs(SourceFiles(p, b))
        /\ f \in SourceFiles(p, b) \/ f \in FragFiles(p, b) \/ f \in IndexFiles(p, b)
    <3>1. G!Node(p, x).ins = G!AllAbs(SourceFiles(p, b)) /\ f \in PrepassReads(p, b)
      BY <1>0, <2>1, CommandIs
    <3>2. f \notin G!Installed(p, p.sources[b][1])
      BY InstalledKinds
    <3> QED
      BY <3>1, <3>2 DEF PrepassReads
  <2>3. CASE f \in SourceFiles(p, b)
    BY <1>0, <2>2, <2>3 DEF G!AllAbs
  <2>4. CASE f \in FragFiles(p, b)
    <3>1. PICK i \in DOMAIN p.sources[b] : f = G!FragFile(b, i)
      BY <2>4 DEF FragFiles
    <3> DEFINE s == p.sources[b][i]
    <3>2. s \in G!SourcesOf(p, b)
      BY DEF G!SourcesOf
    <3>3. G!PositionOf(p, b, s) = i
      BY <3>2, PositionIs DEF G!Lowered, G!WellShaped, G!Lowerable
    <3> HIDE DEF s
    <3>4. G!Node(p, G!Frag(b, s)) = G!Command({G!Src(s)}, G!FragFile(b, G!PositionOf(p, b, s)),
                         CompilerReads(p, b, s))
      BY FragNode
    <3>5. G!Node(p, G!Frag(b, s)).first = G!Abs(f)
      BY <3>1, <3>3, <3>4, CommandIs
    <3>6. BundleEdge(p, G!Frag(b, s), x)
      BY <1>2, <3>2 DEF BundleEdge
    <3> QED
      BY <3>5, <3>6, EdgeIsInput
  <2>5. CASE f \in IndexFiles(p, b)
    BY <1>1, <1>2, <2>5 DEF IndexFiles
  <2> QED
    BY <2>2, <2>3, <2>4, <2>5
<1>3. ASSUME NEW b \in G!Bundles(p), NEW s \in G!SourcesOf(p, b),
             x = G!Frag(b, s) \/ x = G!Compile(b, s)
      PROVE  \/ G!Abs(f) \in G!Plan(p)[x].ins
             \/ /\ G!Abs(G!Src(s)) \in G!Plan(p)[x].ins
                /\ \E t \in G!SourcesOf(p, b) : f = G!Src(t)
  <2>1. \E out : G!Node(p, x) = G!Command({G!Src(s)}, out, CompilerReads(p, b, s))
    <3>1. CASE x = G!Frag(b, s)
      BY <3>1, FragNode
    <3>2. CASE x = G!Compile(b, s)
      BY <3>2, CompileNode
    <3> QED
      BY <1>3, <3>1, <3>2
  <2>2. /\ G!Node(p, x).ins = G!AllAbs({G!Src(s)})
        /\ f \in SourceFiles(p, b) \/ f \in IndexFiles(p, b)
    <3>1. G!Node(p, x).ins = G!AllAbs({G!Src(s)}) /\ f \in CompilerReads(p, b, s)
      BY <1>0, <2>1, CommandIs
    <3>2. f \notin G!Installed(p, s)
      BY InstalledKinds
    <3> QED
      BY <3>1, <3>2 DEF CompilerReads
  <2>3. CASE f \in SourceFiles(p, b)
    BY <1>0, <2>2, <2>3 DEF G!AllAbs, SourceFiles
  <2>4. CASE f \in IndexFiles(p, b)
    BY <1>1, <1>3, <2>4 DEF IndexFiles
  <2> QED
    BY <2>2, <2>3, <2>4
<1>4. ASSUME NEW b, x = G!BundleAction(p, b) PROVE G!Abs(f) \in G!Plan(p)[x].ins
  <2>1. CASE x = G!Link(b)
    <3>1. /\ G!Node(p, x).ins = G!AllAbs(G!LibObjs(p, b))
          /\ f \in G!LibObjs(p, b) \union {G!Toolchain}
      BY <1>0, <2>1, LinkNode
    <3>2. f # G!Toolchain
      BY InstalledKinds
    <3> QED
      BY <1>0, <3>1, <3>2 DEF G!AllAbs
  <2>2. CASE x = G!Lib(b)
    BY <1>0, <2>2, LibNode
  <2> QED
    BY <1>4, <2>1, <2>2 DEF G!BundleAction
<1>5. ASSUME x \in G!ToolActions(p) PROVE G!Abs(f) \in G!Plan(p)[x].ins
  <2>1. /\ G!Node(p, x).ins = {G!Abs(G!Src(g)) : g \in G!ToolOf(p, x).ins}
        /\ G!Node(p, x).reads = {G!Src(g) : g \in G!ToolOf(p, x).ins}
    BY <1>5, NodeTool
  <2> QED
    BY <1>0, <2>1
<1> QED
  BY <1>2, <1>3, <1>4, <1>5, ActionCases

(* The domain of a plan and its last line. *)
LEMMA PlanIs ==
  ASSUME NEW p
  PROVE  /\ DOMAIN G!Plan(p) = G!Actions(p) \union {G!All}
         /\ LET l == G!Plan(p)[G!All] IN
            /\ l.ins = UNION {G!Node(p, x).outs : x \in G!Actions(p)}
            /\ l.outs = {G!Rel(AllFile)} /\ l.touch = TRUE
            /\ l.reads = {} /\ l.writes = {AllFile}
BY DEF G!Plan, G!AllLine, AllFile

(* A generated source is the only one of its bundle, so that the commands  *)
(* that read it list it.                                                   *)
LEMMA WriterIsIncoming ==
  ASSUME NEW p, G!Lowered(p), G!Plain(p), NEW x \in G!Actions(p), NEW y \in G!Actions(p),
         NEW f \in G!Plan(p)[y].writes,
         f \in G!Plan(p)[x].reads \/ f \in FilesOf(G!Plan(p)[x].ins)
  PROVE  G!Plan(p)[y].outs \intersect G!Plan(p)[x].ins # {}
<1>1. f \in G!Node(p, y).writes /\ G!Abs(f) \in G!Plan(p)[y].outs
  <2>1. f \in G!Node(p, y).writes /\ G!Plan(p)[y].outs = G!Node(p, y).outs
    BY LineIs
  <2> QED
    BY <2>1, NodeShape DEF Shaped
<1> SUFFICES G!Abs(f) \in G!Plan(p)[x].ins
  BY <1>1
<1>2. CASE f \in FilesOf(G!Plan(p)[x].ins)
  <2>1. PICK path \in G!Plan(p)[x].ins : f = File(path)
    BY <1>2 DEF FilesOf
  <2>2. PICK g : path = G!Abs(g)
    BY <2>1, LineInputs DEF Absolute
  <2>3. f = g
    BY <2>1, <2>2 DEF File, G!Abs
  <2> QED
    BY <2>1, <2>2, <2>3
<1>3. ASSUME NEW b \in G!Bundles(p), NEW s \in G!SourcesOf(p, b), NEW t \in G!SourcesOf(p, b),
             f = G!Src(t), G!Abs(G!Src(s)) \in G!Plan(p)[x].ins
      PROVE  G!Abs(f) \in G!Plan(p)[x].ins
  <2>1. Writes(p, y, f) /\ Kind(f) = "src"
    BY <1>1, <1>3, WriterNamed, KindNames
  <2>2. y \in G!ToolActions(p) /\ \E u \in G!OutputsOf(p, y) : f = G!Src(u)
    BY <2>1, WriterByKind
  <2>3. t \in G!OutputsOf(p, y)
    BY <1>3, <2>2 DEF G!Src
  <2>4. G!SourcesOf(p, b) = {t}
    BY <2>2, <2>3 DEF G!Plain
  <2> QED
    BY <1>3, <2>4
<1>4. CASE f \in G!Plan(p)[x].reads
  <2>1. Writes(p, y, f)
    BY <1>1, WriterNamed
  <2>2. Kind(f) \notin Outside
    BY <2>1, WriterByKind DEF Outside
  <2> QED
    BY <1>3, <1>4, <2>2, ReadsListed
<1> QED
  BY <1>2, <1>4

(* The plans of such projects declare what their commands read. *)
LEMMA PlanDeclared ==
  ASSUME NEW p, G!Lowered(p), G!Plain(p)
  PROVE  Declared(G!Plan(p)) /\ WritesOutputs(G!Plan(p))
<1> DEFINE P == G!Plan(p)
<1>1. ASSUME NEW x \in DOMAIN P PROVE AllFile \notin P[x].reads \union FilesOf(P[x].ins)
  <2>1. AllFile \notin P[x].reads /\ Absolute(P[x].ins)
    <3>1. CASE x \in G!Actions(p)
      BY <3>1, LineIs, NodeInputs, LineInputs
    <3>2. CASE x = G!All
      <4>1. P[x].reads = {} /\ P[x].ins = UNION {G!Node(p, y).outs : y \in G!Actions(p)}
        BY <3>2, PlanIs
      <4> HIDE DEF P
      <4> QED
        BY <4>1, OutputsAbsolute DEF Absolute
    <3> QED
      BY <3>1, <3>2, PlanIs
  <2>2. AllFile \notin FilesOf(P[x].ins)
    BY <2>1 DEF Absolute, FilesOf, File, G!Abs
  <2> QED
    BY <2>1, <2>2
<1>2. ASSUME NEW x \in DOMAIN P, NEW y \in DOMAIN P,
             P[y].writes \intersect (P[x].reads \union FilesOf(P[x].ins)) # {}
      PROVE  P[y].outs \intersect P[x].ins # {}
  <2>1. PICK f \in P[y].writes : f \in P[x].reads \/ f \in FilesOf(P[x].ins)
    BY <1>2
  <2>2. y \in G!Actions(p)
    <3>1. f # AllFile
      BY <1>1, <2>1
    <3>2. y = G!All => P[y].writes = {AllFile}
      BY PlanIs
    <3>3. y \in G!Actions(p) \union {G!All}
      BY PlanIs
    <3> HIDE DEF P
    <3> QED
      BY <2>1, <3>1, <3>2, <3>3
  <2>3. CASE x \in G!Actions(p)
    BY <2>1, <2>2, <2>3, WriterIsIncoming
  <2>4. CASE x = G!All
    <3>1. P[y].outs = G!Node(p, y).outs /\ f \in G!Node(p, y).writes
      BY <2>1, <2>2, LineIs
    <3>2. G!Abs(f) \in G!Node(p, y).outs
      BY <2>2, <3>1, NodeShape DEF Shaped
    <3>3. P[x].ins = UNION {G!Node(p, z).outs : z \in G!Actions(p)}
      BY <2>4, PlanIs
    <3>4. G!Abs(f) \in P[x].ins
      BY <2>2, <3>2, <3>3
    <3> QED
      BY <3>1, <3>2, <3>4
  <2> QED
    BY <2>3, <2>4, PlanIs
<1>3. ASSUME NEW x \in DOMAIN P PROVE P[x].writes \subseteq FilesOf(P[x].outs)
  <2>1. CASE x \in G!Actions(p)
    <3>1. P[x].outs = G!Node(p, x).outs /\ P[x].writes = G!Node(p, x).writes
      BY <2>1, LineIs
    <3>2. ASSUME NEW f \in G!Node(p, x).writes PROVE f \in FilesOf(G!Node(p, x).outs)
      <4>1. G!Abs(f) \in G!Node(p, x).outs
        BY <2>1, NodeShape DEF Shaped
      <4>2. File(G!Abs(f)) = f
        BY DEF File, G!Abs
      <4> QED
        BY <4>1, <4>2 DEF FilesOf
    <3> QED
      BY <3>1, <3>2
  <2>2. CASE x = G!All
    <3>1. P[x].writes = {AllFile} /\ P[x].outs = {G!Rel(AllFile)}
      BY <2>2, PlanIs
    <3>2. File(G!Rel(AllFile)) = AllFile
      BY DEF File, G!Rel
    <3> HIDE DEF P
    <3> QED
      BY <3>1, <3>2 DEF FilesOf
  <2> QED
    BY <2>1, <2>2, PlanIs
<1> QED
  BY <1>2, <1>3 DEF Declared, WritesOutputs

(* Nobody writes the stamp of a binary or of a tool. *)
LEMMA StampUnwritten ==
  ASSUME NEW p, G!Lowered(p), G!Plain(p), PlansOf(p), HandWritten(p), NEW x \in G!Actions(p),
         x \in G!ToolActions(p) \/ \E b : x = G!Link(b)
  PROVE  Unwritten(G!Stamp(x))
<1>1. G!Stamp(x) \notin Sources
  <2>1. \A s : G!Stamp(x) # G!Src(s)
    BY KindNames
  <2>2. Kind(G!Stamp(x)) \notin Outside
    BY KindNames DEF Outside
  <2>3. G!Stamp(x) \notin Sources \ External
    BY <2>1 DEF HandWritten
  <2> QED
    BY <2>2, <2>3, LeiAssumption DEF Kind, Outside
<1>2. G!Stamp(x) \notin G!Node(p, x).writes
  <2>1. CASE x \in G!ToolActions(p)
    <3>1. G!Node(p, x).writes = {G!Src(s) : s \in G!OutputsOf(p, x)}
      BY <2>1, NodeTool
    <3>2. \A s : G!Stamp(x) # G!Src(s)
      BY KindNames
    <3> QED
      BY <3>1, <3>2
  <2>2. ASSUME NEW b, x = G!Link(b) PROVE G!Stamp(x) \notin G!Node(p, x).writes
    <3>1. G!Node(p, x).writes = {G!Bin(b)}
      BY <2>2, LinkNode
    <3>2. G!Stamp(x) # G!Bin(b)
      BY KindNames
    <3> QED
      BY <3>1, <3>2
  <2> QED
    BY <2>1, <2>2
<1>3. ASSUME NEW y \in DOMAIN G!Plan(p) PROVE G!Stamp(x) \notin G!Plan(p)[y].writes
  <2>1. CASE y = G!All
    <3>1. G!Plan(p)[y].writes = {AllFile}
      BY <2>1, PlanIs
    <3> QED
      BY <3>1, FilesNotAll
  <2>2. CASE y \in G!Actions(p)
    <3>1. G!Plan(p)[y].writes = G!Node(p, y).writes
      BY <2>2, LineIs
    <3>2. G!Stamp(x) \in G!Node(p, y).writes => y = x
      BY <2>2, OneWriterNamed
    <3> QED
      BY <1>2, <3>1, <3>2
  <2> QED
    BY <2>1, <2>2, PlanIs
<1>4. ASSUME NEW i \in DOMAIN Plans, NEW y \in DOMAIN Plans[i] PROVE G!Stamp(x) \notin Plans[i][y].writes
  BY <1>3 DEF PlansOf
<1> QED
  BY <1>1, <1>4 DEF Unwritten

(* Binaries and tools run in every build; a compilation sees a source that *)
(* it does not list through the export index of its bundle.                *)
LEMMA ProductsNotice ==
  ASSUME NEW p, G!Lowered(p), G!Plain(p), PlansOf(p), HandWritten(p),
         NEW i \in DOMAIN Plans, Plans[i] = G!Plan(p), NEW x \in DOMAIN G!Plan(p), Product(x)
  PROVE  ~G!Plan(p)[x].touch /\ Notices(G!Plan(p), x)
<1> DEFINE P == G!Plan(p)
<1>1. x \in G!Actions(p)
  <2>1. G!All[1] = 0
    BY DEF G!All
  <2>2. x[1] # 0
    BY DEF Product
  <2>3. x # G!All
    BY <2>1, <2>2
  <2>4. x \in G!Actions(p) \union {G!All}
    BY PlanIs
  <2> QED
    BY <2>3, <2>4
<1>2. P[x].touch = G!Node(p, x).touch /\ P[x].outs = G!Node(p, x).outs
  BY <1>1, LineIs
<1>3. ASSUME x \in G!ToolActions(p) \/ \E b : x = G!Link(b), G!Node(p, x).touch = FALSE,
             G!Abs(G!Stamp(x)) \in G!Node(p, x).outs
      PROVE  ~P[x].touch /\ Notices(P, x)
  <2>1. Unwritten(G!Stamp(x))
    BY <1>1, <1>3, StampUnwritten
  <2>2. File(G!Abs(G!Stamp(x))) = G!Stamp(x)
    BY DEF File, G!Abs
  <2> QED
    BY <1>2, <1>3, <2>1, <2>2 DEF Notices
<1>4. CASE x \in G!ToolActions(p)
  <2>1. /\ G!Node(p, x).touch = FALSE
        /\ {G!Abs(G!Stamp(x))} \subseteq G!Node(p, x).outs
    <3>1. G!Node(p, x).outs = {G!Abs(G!Src(s)) : s \in G!OutputsOf(p, x)}
                                \union {G!Abs(G!Stamp(x))}
      BY <1>4, NodeTool, Zenon
    <3> QED
      BY <1>4, <3>1, NodeTool, Zenon
  <2> QED
    BY <1>3, <1>4, <2>1
<1>5. ASSUME NEW b, x = G!BundleAction(p, b) PROVE ~P[x].touch /\ Notices(P, x)
  <2>1. x # G!Lib(b)
    <3>1. G!Lib(b)[1] = 7
      BY Ranks
    <3> QED
      BY <3>1 DEF Product
  <2>2. x = G!Link(b)
    BY <1>5, <2>1 DEF G!BundleAction
  <2>3. /\ G!Node(p, x).touch = FALSE
        /\ G!Node(p, x).outs = {G!Abs(G!Bin(b))} \union {G!Abs(G!Stamp(x))}
    BY <2>2, LinkNode
  <2> QED
    BY <1>3, <2>2, <2>3
<1>6. ASSUME NEW b \in G!Bundles(p), NEW s \in G!SourcesOf(p, b), x = G!Compile(b, s)
      PROVE  ~P[x].touch /\ Notices(P, x)
  <2> DEFINE y == G!Prepass(b)
  <2>1. G!Node(p, x) = G!Command({G!Src(s)}, G!Obj(b, s), CompilerReads(p, b, s))
    BY <1>6, CompileNode
  <2>2. G!Node(p, x).touch = FALSE /\ G!Node(p, x).reads = CompilerReads(p, b, s)
    BY <2>1, CommandIs
  <2>3. G!Node(p, y) = G!Command(SourceFiles(p, b), G!Index(b),
                         PrepassReads(p, b))
    BY PrepassNode
  <2>4. /\ G!Node(p, y).touch = FALSE /\ G!Node(p, y).ins = G!AllAbs(SourceFiles(p, b))
        /\ G!Node(p, y).outs = {G!Abs(G!Index(b))} /\ G!Node(p, y).writes = {G!Index(b)}
    BY <2>3, CommandIs
  <2>5. y \in G!Actions(p)
    BY BundleHas
  <2>6. /\ ~P[y].touch /\ G!AllAbs(SourceFiles(p, b)) \subseteq P[y].ins
        /\ P[y].outs = {G!Abs(G!Index(b))} /\ P[y].writes = {G!Index(b)}
    BY <2>4, <2>5, LineIs
  <2>7. BundleEdge(p, y, x)
    BY <1>6 DEF BundleEdge
  <2>8. G!Abs(G!Index(b)) \in P[x].ins
    BY <1>1, <2>7, IndexIsInput
  <2>9. \A f : File(G!Abs(f)) = f
    BY DEF File, G!Abs
  <2>10. P[x].reads = CompilerReads(p, b, s)
    BY <1>1, <2>2, LineIs
  <2>11. ASSUME NEW d \in p.deps[b] PROVE G!Index(d) \in FilesOf(P[x].ins)
    <3>1. BundleEdge(p, G!Prepass(d), x)
      BY <1>6 DEF BundleEdge
    <3>2. G!Abs(G!Index(d)) \in P[x].ins
      BY <1>1, <3>1, IndexIsInput
    <3> QED
      BY <2>9, <3>2 DEF FilesOf
  <2>12. ASSUME NEW g \in P[x].reads \ (FilesOf(P[x].ins) \union External)
         PROVE  g \in FilesOf(P[y].ins)
    <3>0. g \notin G!Installed(p, s)
      <4>1. g \in Files
        BY LineFiles
      <4>2. Kind(g) \notin Outside
        BY <4>1, LeiAssumption DEF Kind, Outside
      <4> QED
        BY <4>2, InstalledKinds
    <3>1. g \in SourceFiles(p, b)
      BY <2>10, <2>11, <3>0 DEF CompilerReads, IndexFiles
    <3>2. G!Abs(g) \in P[y].ins
      BY <2>6, <3>1 DEF G!AllAbs
    <3> QED
      BY <2>9, <3>2 DEF FilesOf
  <2>13. y \in DOMAIN P
    BY <2>5, PlanIs
  <2>14. \E o \in P[y].outs \intersect P[x].ins : File(o) \in P[y].writes
    BY <2>6, <2>8, <2>9
  <2> HIDE DEF P, y
  <2>15. Notices(P, x)
    BY <2>6, <2>12, <2>13, <2>14 DEF Notices
  <2>16. ~P[x].touch
    BY <1>2, <2>2
  <2> QED
    BY <2>15, <2>16
<1>7. ASSUME NEW b, NEW s, x = G!Prepass(b) \/ x = G!Frag(b, s) PROVE FALSE
  <2>1. G!Prepass(b)[1] = 3 /\ G!Frag(b, s)[1] = 2
    BY Ranks
  <2> QED
    BY <1>7, <2>1 DEF Product
<1> QED
  BY <1>1, <1>4, <1>5, <1>6, <1>7, ActionCases

(* The lines of the plan write different files, none of them the user's. *)
LEMMA PlanWriters ==
  ASSUME NEW p, G!Lowered(p), G!Plain(p), PlansOf(p), HandWritten(p)
  PROVE  OneWriter
<1> DEFINE P == G!Plan(p)
<1>1. ASSUME NEW x \in DOMAIN P, NEW y \in DOMAIN P, P[x].writes \intersect P[y].writes # {}
      PROVE  x = y
  <2>1. PICK f : f \in P[x].writes /\ f \in P[y].writes
    BY <1>1
  <2>2. ASSUME NEW z \in G!Actions(p)
        PROVE  P[z].writes = G!Node(p, z).writes /\ AllFile \notin P[z].writes
    BY LineIs, OutputsAbsolute
  <2>3. P[G!All].writes = {AllFile}
    BY PlanIs
  <2>4. x \in G!Actions(p) \union {G!All} /\ y \in G!Actions(p) \union {G!All}
    BY PlanIs
  <2>5. CASE x \in G!Actions(p) /\ y \in G!Actions(p)
    BY <2>1, <2>2, <2>5, OneWriterNamed
  <2> HIDE DEF P
  <2> QED
    BY <2>1, <2>2, <2>3, <2>4, <2>5
<1>2. ASSUME NEW x \in DOMAIN P, NEW f \in Sources PROVE f \notin P[x].writes
  <2>0. CASE f \in External
    <3>1. Kind(f) \in Outside
      BY <2>0, LeiAssumption DEF Kind, Outside
    <3>2. CASE x = G!All
      <4>1. P[x].writes = {AllFile}
        BY <3>2, PlanIs
      <4> QED
        BY <3>1, <4>1, NotAll
    <3>3. CASE x \in G!Actions(p)
      <4>1. P[x].writes = G!Node(p, x).writes
        BY <3>3, LineIs
      <4>2. ASSUME f \in G!Node(p, x).writes PROVE FALSE
        <5>1. Writes(p, x, f)
          BY <3>3, <4>2, WriterNamed
        <5> QED
          BY <3>1, <5>1, WriterByKind DEF Outside
      <4> QED
        BY <4>1, <4>2
    <3> QED
      BY <3>2, <3>3, PlanIs
  <2> SUFFICES ASSUME f \notin External PROVE f \notin P[x].writes
    BY <2>0
  <2>1. PICK s : f = G!Src(s) /\ \A z \in G!ToolActions(p) : s \notin G!OutputsOf(p, z)
    BY DEF HandWritten
  <2>2. CASE x = G!All
    <3>1. P[x].writes = {AllFile}
      BY <2>2, PlanIs
    <3>2. f # AllFile
      BY <2>1, FilesNotAll
    <3> QED
      BY <3>1, <3>2
  <2>3. CASE x \in G!Actions(p)
    <3>1. P[x].writes = G!Node(p, x).writes
      BY <2>3, LineIs
    <3>2. ASSUME f \in G!Node(p, x).writes PROVE FALSE
      <4>1. Writes(p, x, f) /\ Kind(f) = "src"
        BY <2>1, <2>3, <3>2, WriterNamed, KindNames
      <4>2. x \in G!ToolActions(p) /\ \E t \in G!OutputsOf(p, x) : f = G!Src(t)
        BY <4>1, WriterByKind
      <4> QED
        BY <2>1, <4>2 DEF G!Src
    <3> QED
      BY <3>1, <3>2
  <2> QED
    BY <2>2, <2>3, PlanIs
<1> HIDE DEF P
<1>3. \A i \in DOMAIN Plans : DOMAIN Plans[i] = {} \/ Plans[i] = P
  BY DEF PlansOf, P
<1> QED
  BY <1>1, <1>2, <1>3 DEF OneWriter

(* The plans of such a project are traceable. *)
LEMMA PlanTraceable ==
  ASSUME NEW p, G!Lowered(p), G!Plain(p), PlansOf(p), HandWritten(p)
  PROVE  Traceable
<1> DEFINE P == G!Plan(p)
<1>1. Declared(P) /\ WritesOutputs(P)
  BY PlanDeclared
<1>2. ASSUME NEW i \in DOMAIN Plans, Plans[i] = P, NEW x \in DOMAIN P, Product(x)
      PROVE  ~P[x].touch /\ Notices(P, x)
  BY <1>2, ProductsNotice
<1>3. ASSUME NEW i \in DOMAIN Plans
      PROVE  /\ Declared(Plans[i]) /\ WritesOutputs(Plans[i])
             /\ \A x \in DOMAIN Plans[i] : Product(x) => ~Plans[i][x].touch /\ Notices(Plans[i], x)
  <2>1. CASE Plans[i] = P
    BY <1>1, <1>2, <2>1
  <2>2. CASE DOMAIN Plans[i] = {}
    BY <2>2 DEF Declared, WritesOutputs
  <2> QED
    BY <2>1, <2>2 DEF PlansOf
<1> QED
  BY <1>3, PlanWriters DEF Traceable

-----------------------------------------------------------------------------
(* Cycles. *)

(* A node of a bundle lists sources, and objects if it is the bundle's     *)
(* binary or stamp.                                                        *)
LEMMA NodeLists ==
  ASSUME NEW p, NEW x \in G!Actions(p), x \notin G!ToolActions(p), NEW f,
         G!Abs(f) \in G!Node(p, x).ins
  PROVE  Kind(f) = "src" \/ (Kind(f) = "obj" /\ \E b : x = G!BundleAction(p, b))
<1>1. ASSUME NEW fs, G!Abs(f) \in G!AllAbs(fs) PROVE f \in fs
  BY <1>1 DEF G!AllAbs, G!Abs
<1>2. ASSUME NEW b, x = G!Prepass(b) PROVE Kind(f) = "src"
  <2>1. G!Node(p, x) = G!Command(SourceFiles(p, b), G!Index(b),
                         PrepassReads(p, b))
    BY <1>2, PrepassNode
  <2>2. G!Node(p, x).ins = G!AllAbs(SourceFiles(p, b))
    BY <2>1, CommandIs
  <2>3. f \in SourceFiles(p, b)
    BY <1>1, <2>2
  <2> QED
    BY <2>3, KindNames DEF SourceFiles
<1>3. ASSUME NEW b, NEW s, x = G!Frag(b, s) \/ x = G!Compile(b, s) PROVE Kind(f) = "src"
  <2>1. \E out : G!Node(p, x) = G!Command({G!Src(s)}, out, CompilerReads(p, b, s))
    <3>1. CASE x = G!Frag(b, s)
      BY <3>1, FragNode
    <3>2. CASE x = G!Compile(b, s)
      BY <3>2, CompileNode
    <3> QED
      BY <1>3, <3>1, <3>2
  <2>2. G!Node(p, x).ins = G!AllAbs({G!Src(s)})
    BY <2>1, CommandIs
  <2>3. f = G!Src(s)
    BY <1>1, <2>2
  <2> QED
    BY <2>3, KindNames
<1>4. ASSUME NEW b, x = G!BundleAction(p, b) PROVE Kind(f) = "obj"
  <2>1. CASE x = G!Link(b)
    <3>1. G!Node(p, x).ins = G!AllAbs(G!LibObjs(p, b))
      BY <2>1, LinkNode
    <3>2. \E d, s : f = G!Obj(d, s)
      BY <1>1, <3>1, LibObjsAreObjects
    <3> QED
      BY <3>2, KindNames
  <2>2. CASE x = G!Lib(b)
    <3>1. G!Node(p, x).ins = G!AllAbs(Objects(p, b))
      BY <2>2, LibNode
    <3>2. f \in Objects(p, b)
      BY <1>1, <3>1
    <3> QED
      BY <3>2, KindNames DEF Objects
  <2> QED
    BY <1>4, <2>1, <2>2 DEF G!BundleAction
<1> QED
  BY <1>2, <1>3, <1>4, ActionCases

Compiles(p, y) == \E b \in G!Bundles(p) : \E s \in G!SourcesOf(p, b) : y = G!Compile(b, s)

(* What a bundle's action waits for, tools apart: an edge, or objects.     *)
LEMMA WaitsFor ==
  ASSUME NEW p, G!Lowered(p), NEW x \in G!Actions(p), x \notin G!ToolActions(p),
         NEW y \in G!Actions(p), y \notin G!ToolActions(p),
         G!Plan(p)[y].outs \intersect G!Plan(p)[x].ins # {}
  PROVE  BundleEdge(p, y, x) \/ (Compiles(p, y) /\ \E b : x = G!BundleAction(p, b))
<1>1. PICK path : path \in G!Node(p, y).outs /\ path \in G!Plan(p)[x].ins
  BY LineIs
<1>2. CASE path \in G!Node(p, x).ins
  <2>1. PICK f \in G!Node(p, y).writes \union {G!Stamp(y)} : path = G!Abs(f)
    BY <1>1, NodeShape DEF Shaped
  <2>2. Kind(f) = "src" \/ (Kind(f) = "obj" /\ \E b : x = G!BundleAction(p, b))
    BY <1>2, <2>1, NodeLists
  <2>3. Writes(p, y, f) \/ f = G!Stamp(y)
    BY <2>1, WriterNamed
  <2> QED
    BY <2>2, <2>3, WriterByKind DEF Compiles
<1>3. CASE path \notin G!Node(p, x).ins
  <2>1. PICK e \in G!Edges(p) : e[2] = x /\ path = G!Node(p, e[1]).first
    BY <1>1, <1>3, LineIs
  <2>2. e[1] \in G!Actions(p)
    BY EdgeCases
  <2>3. e[1] \notin G!ToolActions(p)
    <3> SUFFICES ASSUME e[1] \in G!ToolActions(p) PROVE FALSE
      OBVIOUS
    <3>1. PICK f \in G!Node(p, y).writes \union {G!Stamp(y)} : path = G!Abs(f)
      BY <1>1, NodeShape DEF Shaped
    <3>2. Writes(p, y, f) \/ f = G!Stamp(y)
      BY <3>1, WriterNamed
    <3>3. path = G!Abs(G!Stamp(e[1])) \/ \E s : path = G!Spelled(p, s)
      BY <2>1, ToolRecord, Zenon
    <3>4. \A s : G!Spelled(p, s) = G!Abs(f) => f = G!Src(s)
      BY DEF G!Spelled, G!Abs, G!Rel
    <3>5. f = G!Stamp(e[1]) \/ Kind(f) = "src"
      BY <3>1, <3>3, <3>4, Kinds, KindNames
    <3>6. CASE f = G!Stamp(e[1])
      <4>1. f = G!Stamp(y)
        BY <3>2, <3>6, WriterByKind, KindNames
      <4> QED
        BY <3>6, <4>1, Kinds
    <3>7. CASE Kind(f) = "src"
      BY <3>2, <3>7, WriterByKind, KindNames
    <3> QED
      BY <3>5, <3>6, <3>7
  <2>4. path \in G!Node(p, e[1]).outs
    BY <2>1, <2>2, <2>3, NodeShape DEF Shaped
  <2>5. e[1] = y
    BY <1>1, <2>2, <2>3, <2>4, OneMaker
  <2> QED
    BY <2>1, <2>3, <2>5, EdgeCases
<1> QED
  BY <1>2, <1>3

(* An action's name tells its rank and its bundle. *)
LEMMA NamesApart ==
  ASSUME NEW p
  PROVE  /\ \A b, c, s, t : G!Frag(b, s) = G!Frag(c, t) => b = c
         /\ \A b, c : G!Prepass(b) = G!Prepass(c) => b = c
         /\ \A b, c : G!BundleAction(p, b) = G!BundleAction(p, c) => b = c
         /\ \A b, c, s, t : G!Frag(b, s) # G!Compile(c, t)
         /\ \A b, c, s : G!Frag(b, s) # G!Prepass(c)
         /\ \A b, c, t : G!Prepass(b) # G!Compile(c, t)
         /\ \A b, c, t : G!BundleAction(p, b) # G!Frag(c, t)
         /\ \A b, c : G!BundleAction(p, b) # G!Prepass(c)
         /\ \A b, c, t : G!BundleAction(p, b) # G!Compile(c, t)
BY DEF G!Frag, G!Prepass, G!Compile, G!BundleAction, G!Lib, G!Link

(* A set of actions in which each waits for another, with no tool in it:   *)
(* going from a fragment or an index to the one it waits for, and from a   *)
(* library or binary to that it waits for, leads through the bundles, and  *)
(* their dependencies have no circle.                                      *)
LEMMA NoCircle ==
  ASSUME NEW p, G!Lowered(p), G!InOrder(p),
         NEW S \in SUBSET (G!Actions(p) \ G!ToolActions(p)),
         \A x \in S : \E y \in S : G!Plan(p)[y].outs \intersect G!Plan(p)[x].ins # {}
  PROVE  S = {}
<1> DEFINE Early(b) == G!Prepass(b) \in S \/ \E s \in G!SourcesOf(p, b) : G!Frag(b, s) \in S
           T == {b \in G!Bundles(p) : Early(b)}
           U == {b \in G!Bundles(p) : G!BundleAction(p, b) \in S}
<1>1. ASSUME NEW x \in S
      PROVE  \E y \in S : BundleEdge(p, y, x)
                            \/ (Compiles(p, y) /\ \E b : x = G!BundleAction(p, b))
  <2>1. PICK y \in S : G!Plan(p)[y].outs \intersect G!Plan(p)[x].ins # {}
    BY <1>1
  <2>2. /\ x \in G!Actions(p) /\ x \notin G!ToolActions(p)
        /\ y \in G!Actions(p) /\ y \notin G!ToolActions(p)
    OBVIOUS
  <2> QED
    BY <2>1, <2>2, WaitsFor
<1>2. \A b \in G!Bundles(p) : p.deps[b] \subseteq G!Bundles(p)
  BY DEF G!Lowered, G!WellShaped, G!Lowerable
<1>3. ASSUME NEW b \in G!Bundles(p), NEW s \in G!SourcesOf(p, b), G!Frag(b, s) \in S
      PROVE  \E d \in p.deps[b] : G!Prepass(d) \in S
  <2>0. \A c : G!Frag(b, s) # G!BundleAction(p, c)
    BY NamesApart
  <2>1. PICK y \in S : BundleEdge(p, y, G!Frag(b, s))
    BY <1>1, <1>3, <2>0
  <2>2. \E d \in p.deps[b] : y = G!Prepass(d)
    BY <2>1, NamesApart DEF BundleEdge
  <2> QED
    BY <2>2
<1>4. ASSUME NEW b \in G!Bundles(p), G!Prepass(b) \in S
      PROVE  \E d \in p.deps[b] : G!Prepass(d) \in S
  <2>1. PICK y \in S : BundleEdge(p, y, G!Prepass(b))
    BY <1>1, <1>4, NamesApart
  <2>2. \/ \E s \in G!SourcesOf(p, b) : y = G!Frag(b, s)
        \/ \E d \in p.deps[b] : y = G!Prepass(d)
    BY <2>1, NamesApart DEF BundleEdge
  <2> QED
    BY <1>3, <2>2
<1>5. T = {}
  <2>1. \A b \in T : \E d \in p.deps[b] : d \in T
    BY <1>2, <1>3, <1>4
  <2>2. T \in SUBSET G!Bundles(p)
    OBVIOUS
  <2> HIDE DEF T
  <2> QED
    BY <2>1, <2>2 DEF G!InOrder
<1>6. ASSUME NEW b \in G!Bundles(p) PROVE G!Prepass(b) \notin S
  BY <1>5
<1>7. ASSUME NEW b \in G!Bundles(p), NEW s \in G!SourcesOf(p, b) PROVE G!Compile(b, s) \notin S
  <2> SUFFICES ASSUME G!Compile(b, s) \in S PROVE FALSE
    OBVIOUS
  <2>1. PICK y \in S : BundleEdge(p, y, G!Compile(b, s))
    BY <1>1, NamesApart
  <2>2. \E d \in G!Bundles(p) : y = G!Prepass(d)
    BY <1>2, <2>1, NamesApart DEF BundleEdge
  <2> QED
    BY <1>6, <2>2
<1>8. U = {}
  <2>1. ASSUME NEW b \in U PROVE \E d \in p.deps[b] : d \in U
    <3>1. PICK y \in S : \/ BundleEdge(p, y, G!BundleAction(p, b))
                         \/ Compiles(p, y)
      BY <1>1
    <3>2. BundleEdge(p, y, G!BundleAction(p, b))
      BY <1>7, <3>1 DEF Compiles
    <3>3. \/ \E c \in G!Bundles(p) : y = G!Prepass(c)
          \/ \E d \in p.deps[b] : y = G!BundleAction(p, d)
      BY <3>2, NamesApart DEF BundleEdge
    <3> QED
      BY <1>2, <1>6, <3>3
  <2>2. U \in SUBSET G!Bundles(p)
    OBVIOUS
  <2> HIDE DEF U
  <2> QED
    BY <2>1, <2>2 DEF G!InOrder
<1>9. ASSUME NEW x \in S PROVE FALSE
  <2>1. x \in G!Actions(p) /\ x \notin G!ToolActions(p)
    OBVIOUS
  <2>2. \/ \E b \in G!Bundles(p) : x = G!Prepass(b)
        \/ \E b \in G!Bundles(p) : x = G!BundleAction(p, b)
        \/ \E b \in G!Bundles(p) : \E s \in G!SourcesOf(p, b) : x = G!Frag(b, s)
        \/ \E b \in G!Bundles(p) : \E s \in G!SourcesOf(p, b) : x = G!Compile(b, s)
    BY <2>1, ActionCases
  <2> QED
    BY <1>5, <1>7, <1>8, <2>2
<1> QED
  BY <1>9

(* The path of "all" is nobody's: it is relative, and no source is called  *)
(* all.                                                                    *)
LEMMA PathsAreNotAll ==
  ASSUME NEW p, G!Lowered(p), NEW x \in G!Actions(p)
  PROVE  LET n == G!Node(p, x) IN
         G!Rel(AllFile) \notin n.ins /\ G!Rel(AllFile) \notin n.outs /\ n.first \in n.outs
<1>1. \A f : G!Abs(f) # G!Rel(AllFile)
  BY DEF G!Abs, G!Rel
<1>2. \A s : G!Spelled(p, s) # G!Rel(AllFile)
  BY <1>1, FilesNotAll DEF G!Spelled, G!Rel
<1>3. CASE x \in G!ToolActions(p)
  BY <1>1, <1>2, <1>3, ToolRecord
<1>4. CASE x \notin G!ToolActions(p)
  <2>1. G!Node(p, x).first \in G!Node(p, x).outs /\ G!Rel(AllFile) \notin G!Node(p, x).outs
    BY <1>1, <1>4, NodeShape DEF Shaped
  <2>2. Absolute(G!Node(p, x).ins)
    BY <1>4, NodeInputs
  <2> QED
    BY <1>1, <2>1, <2>2 DEF Absolute
<1> QED
  BY <1>3, <1>4

(* Nothing waits for the line "all". *)
LEMMA NobodyAwaitsAll ==
  ASSUME NEW p, G!Lowered(p), NEW x \in DOMAIN G!Plan(p)
  PROVE  G!Plan(p)[G!All].outs \intersect G!Plan(p)[x].ins = {}
<1>1. CASE x = G!All
  <2>1. G!Plan(p)[x].ins = UNION {G!Node(p, y).outs : y \in G!Actions(p)}
    BY <1>1, PlanIs
  <2>2. G!Rel(AllFile) \notin G!Plan(p)[x].ins
    BY <2>1, PathsAreNotAll
  <2> QED
    BY <2>2, PlanIs
<1>2. CASE x \in G!Actions(p)
  <2>1. ASSUME NEW e \in G!Edges(p) PROVE G!Node(p, e[1]).first # G!Rel(AllFile)
    <3>1. e[1] \in G!Actions(p)
      BY EdgeCases
    <3> QED
      BY <3>1, PathsAreNotAll
  <2>2. G!Plan(p)[x].ins =
          G!Node(p, x).ins \union {G!Node(p, e[1]).first : e \in {d \in G!Edges(p) : d[2] = x}}
    BY <1>2, LineIs
  <2>3. G!Rel(AllFile) \notin G!Node(p, x).ins
    BY <1>2, PathsAreNotAll
  <2>4. G!Rel(AllFile) \notin G!Plan(p)[x].ins
    BY <2>1, <2>2, <2>3
  <2> QED
    BY <2>4, PlanIs
<1>3. x \in G!Actions(p) \union {G!All}
  BY PlanIs
<1> QED
  BY <1>1, <1>2, <1>3

(* What a cycle without tools would be. *)
LEMMA NoCycle ==
  ASSUME NEW p, G!Lowered(p), G!InOrder(p), project \in DOMAIN Plans, plan = G!Plan(p)
  PROVE  ~Cyclic({x \in DOMAIN plan : x[1] \notin {4, 6}})
<1> SUFFICES ASSUME NEW S \in SUBSET {x \in DOMAIN plan : x[1] \notin {4, 6}},
                    \A x \in S : Incoming(x) \intersect S # {}
             PROVE  S = {}
  BY DEF Cyclic
<1>1. ASSUME NEW x \in S
      PROVE  \E y \in S \ {G!All} : G!Plan(p)[y].outs \intersect G!Plan(p)[x].ins # {}
  <2>1. Incoming(x) = {y \in DOMAIN plan : plan[y].outs \intersect plan[x].ins # {}}
    BY IncomingIs
  <2>2. PICK y \in S : plan[y].outs \intersect plan[x].ins # {}
    BY <2>1
  <2>3. y # G!All
    BY <2>2, NobodyAwaitsAll
  <2> QED
    BY <2>2, <2>3
<1> DEFINE R == S \ {G!All}
<1>2. R \in SUBSET (G!Actions(p) \ G!ToolActions(p))
  <2> SUFFICES ASSUME NEW x \in R PROVE x \in G!Actions(p) /\ x \notin G!ToolActions(p)
    OBVIOUS
  <2>1. x \in DOMAIN G!Plan(p) /\ x # G!All /\ x[1] \notin {4, 6}
    OBVIOUS
  <2>2. DOMAIN G!Plan(p) = G!Actions(p) \union {G!All}
    BY PlanIs
  <2> QED
    BY <2>1, <2>2 DEF G!ToolActions
<1>3. \A x \in R : \E y \in R : G!Plan(p)[y].outs \intersect G!Plan(p)[x].ins # {}
  BY <1>1
<1>4. R = {}
  <2> HIDE DEF R
  <2> QED
    BY <1>2, <1>3, NoCircle
<1>5. ASSUME NEW x \in S PROVE FALSE
  <2>1. PICK y \in S \ {G!All} : TRUE
    BY <1>1
  <2> QED
    BY <1>4, <2>1
<1> QED
  BY <1>5
=============================================================================
