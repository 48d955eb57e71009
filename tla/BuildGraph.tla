----------------------------- MODULE BuildGraph -----------------------------
(***************************************************************************)
(* From a Lei project to the build lines that lei --build executes:        *)
(* lower_exec_graph (tools/Lei/src/graph/ninja_lower_exec_lower.cpp) and   *)
(* emit_ninja (ninja_lower_emit.cpp).                                      *)
(*                                                                         *)
(* A project is a record                                                   *)
(*   kind      bundles, each "lib" or "bin"                                *)
(*   sources   the sorted source files of each bundle                      *)
(*   deps      the bundles each bundle depends on                          *)
(*   codegens  codegens, each with its ins, outs and deps                  *)
(*   tasks     tasks, each with its ins, outs and deps                     *)
(*   cimports  pairs of a source and a C header that it imports            *)
(*   relative  codegens and tasks name their files relative to the root    *)
(* Bundles, codegens, tasks, sources and headers are known by numbers, in  *)
(* the order of their names.  deps of codegens and tasks are actions.          *)
(***************************************************************************)
EXTENDS Integers, Sequences, FiniteSets

-----------------------------------------------------------------------------
(* Files, and the paths that name them in the build lines: paths are equal *)
(* only if they are spelled the same.                                      *)

Src(s) == <<"src", s>>
FragFile(b, i) == <<"frag", b, i>>   \* numbered by position, not by source
Index(b) == <<"index", b>>           \* with the template sidecar beside it
Obj(b, s) == <<"obj", b, s>>
Bin(b) == <<"bin", b>>
Stamp(x) == <<"stamp", x>>
Header(h) == <<"header", h>>         \* a C header, with all that it includes
Toolchain == <<"toolchain", 0>>      \* the compiler and the core export index

Abs(f) == <<"absolute", f>>
Rel(f) == <<"relative", f>>
File(path) == path[2]
AllAbs(fs) == {Abs(f) : f \in fs}

(* How a project spells the files of its codegens and tasks; the sources   *)
(* of a bundle go through resolve_source_path and are always absolute.     *)
Spelled(p, s) == IF p.relative THEN Rel(Src(s)) ELSE Abs(Src(s))

-----------------------------------------------------------------------------
(* The actions, in the order in which the runner sorts them: by rank (a    *)
(* lei_touch is last), then by name.                                       *)

All == <<0, 1, 0>>           \* all
Link(b) == <<1, b, 0>>       \* bundle-bin:
Frag(b, s) == <<2, b, s>>    \* bundle-prepass-frag:
Prepass(b) == <<3, b, 0>>    \* bundle-prepass:
Codegen(c) == <<4, c, 0>>    \* codegen:
Compile(b, s) == <<5, b, s>> \* compile:
Task(t) == <<6, t, 0>>       \* task:
Lib(b) == <<7, b, 0>>        \* bundle-lib:, phony

Bundles(p) == DOMAIN p.kind
SourcesOf(p, b) == {p.sources[b][i] : i \in DOMAIN p.sources[b]}
PositionOf(p, b, s) == CHOOSE i \in DOMAIN p.sources[b] : p.sources[b][i] = s

BundleAction(p, b) == IF p.kind[b] = "lib" THEN Lib(b) ELSE Link(b)

Actions(p) ==
  (UNION {{Prepass(b), BundleAction(p, b)}
            \union {Frag(b, s) : s \in SourcesOf(p, b)}
            \union {Compile(b, s) : s \in SourcesOf(p, b)} : b \in Bundles(p)})
  \union {Codegen(c) : c \in DOMAIN p.codegens}
  \union {Task(t) : t \in DOMAIN p.tasks}

(* What a parusc command reads besides the sources and indexes that it is  *)
(* given: the headers that a source imports, and what is installed.        *)
Installed(p, s) == {Header(e[2]) : e \in {d \in p.cimports : d[1] = s}} \union {Toolchain}

(* collect_lib_objs: the objects of a bundle and of the libs below it. *)
LibObjs(p, b) ==
  LET below[n \in 0..Cardinality(Bundles(p))] ==
        IF n = 0 THEN {b}
        ELSE below[n - 1] \union
               {d \in UNION {p.deps[e] : e \in below[n - 1]} : p.kind[d] = "lib"}
  IN  UNION {{Obj(d, s) : s \in SourcesOf(p, d)} : d \in below[Cardinality(Bundles(p))]}

(* The line of a command with one output. *)
Command(ins, out, reads) ==
  [ins |-> AllAbs(ins), outs |-> {Abs(out)}, first |-> Abs(out), touch |-> FALSE,
   reads |-> reads, writes |-> {out}]

(* The line of a codegen or a task n: its outputs, then a stamp. *)
ToolNode(p, x, n) ==
  LET outs == [i \in DOMAIN n.outs |-> Spelled(p, n.outs[i])]
      all == Append(outs, Abs(Stamp(x)))
  IN  [ins |-> {Spelled(p, f) : f \in n.ins},
       outs |-> {all[i] : i \in DOMAIN all}, first |-> all[1], touch |-> FALSE,
       reads |-> {Src(f) : f \in n.ins}, writes |-> {File(outs[i]) : i \in DOMAIN outs}]

(* What add_action is given: inputs, outputs, the first output, and what   *)
(* the command reads and writes.  Nothing ever writes a stamp but a touch. *)
(* A prepass compiles the first source against the rest of the bundle.     *)
Node(p, x) ==
  LET b == x[2]
      s == x[3]
      srcs == {Src(t) : t \in SourcesOf(p, b)}
      indexes == {Index(d) : d \in p.deps[b]}
      frags == {FragFile(b, i) : i \in DOMAIN p.sources[b]}
  IN  CASE x[1] = 1 -> [Command(LibObjs(p, b), Bin(b), LibObjs(p, b) \union {Toolchain})
                        EXCEPT !.outs = @ \union {Abs(Stamp(x))}]
        [] x[1] = 2 -> Command({Src(s)}, FragFile(b, PositionOf(p, b, s)),
                                srcs \union indexes \union Installed(p, s))
        [] x[1] = 3 -> Command(srcs, Index(b),
                                srcs \union frags \union indexes \union Installed(p, p.sources[b][1]))
        [] x[1] = 4 -> ToolNode(p, x, p.codegens[b])
        [] x[1] = 5 -> Command({Src(s)}, Obj(b, s), srcs \union indexes \union Installed(p, s))
        [] x[1] = 6 -> ToolNode(p, x, p.tasks[b])
        [] x[1] = 7 -> [Command({Obj(b, t) : t \in SourcesOf(p, b)}, Stamp(x), {})
                        EXCEPT !.touch = TRUE]

(* Wrong variant: a bundle's commands do not wait for the export indexes   *)
(* of the bundles it depends on.                                           *)
BundleEdges_OwnIndexOnly(p, b) ==
  {<<Frag(b, s), Prepass(b)>> : s \in SourcesOf(p, b)}
  \union {<<Prepass(b), Compile(b, s)>> : s \in SourcesOf(p, b)}
  \union {<<Prepass(b), BundleAction(p, b)>>}
  \union {<<BundleAction(p, d), BundleAction(p, b)>> : d \in p.deps[b]}

(* The edges between the actions of a bundle, and from the bundles below. *)
BundleEdges(p, b) ==
  {<<Frag(b, s), Prepass(b)>> : s \in SourcesOf(p, b)}
  \union {<<Prepass(b), Compile(b, s)>> : s \in SourcesOf(p, b)}
  \union {<<Prepass(b), BundleAction(p, b)>>}
  \union {<<BundleAction(p, d), BundleAction(p, b)>> : d \in p.deps[b]}
  \union {<<Prepass(d), y>> : d \in p.deps[b],
            y \in {Prepass(b)} \union {Frag(b, s) : s \in SourcesOf(p, b)}
                    \union {Compile(b, s) : s \in SourcesOf(p, b)}}

(* A codegen comes before the compilation of a source whose resolved path  *)
(* is spelled like one of its outputs.                                     *)
CodegenEdges(p, c) ==
  {<<Codegen(c), x>> : x \in {y \in Actions(p) :
      /\ y[1] = 5
      /\ \E i \in DOMAIN p.codegens[c].outs : Spelled(p, p.codegens[c].outs[i]) = Abs(Src(y[3]))}}
  \union {<<d, Codegen(c)>> : d \in p.codegens[c].deps}

TaskEdges(p, t) == {<<d, Task(t)>> : d \in p.tasks[t].deps}

Edges(p) ==
  (UNION {BundleEdges(p, b) : b \in Bundles(p)})
  \union (UNION {CodegenEdges(p, c) : c \in DOMAIN p.codegens})
  \union (UNION {TaskEdges(p, t) : t \in DOMAIN p.tasks})

(* emit_ninja: an edge becomes an input of its target, namely the first    *)
(* output of its source.                                                   *)
Line(p, x) ==
  [Node(p, x) EXCEPT !.ins = @ \union {Node(p, e[1]).first : e \in {d \in Edges(p) : d[2] = x}}]

(* "build all: phony" has all outputs for inputs.  The runner ignores only *)
(* a line without inputs: this one it takes for a command to touch "all".  *)
AllLine(p) ==
  [ins |-> UNION {Node(p, x).outs : x \in Actions(p)}, outs |-> {Rel(<<"all">>)},
   first |-> Rel(<<"all">>), touch |-> TRUE, reads |-> {}, writes |-> {<<"all">>}]

Plan(p) ==
  [x \in Actions(p) \union {All} |-> IF x = All THEN AllLine(p) ELSE Line(p, x)]

-----------------------------------------------------------------------------
(* Kinds of projects. *)

ToolActions(p) == {x \in Actions(p) : x[1] \in {4, 6}}
ToolOf(p, x) == IF x[1] = 4 THEN p.codegens[x[2]] ELSE p.tasks[x[2]]
OutputsOf(p, x) == {ToolOf(p, x).outs[i] : i \in DOMAIN ToolOf(p, x).outs}

(* Absolute paths everywhere, tools that write different files, and a      *)
(* generated source that is the only one of its bundle.                    *)
Plain(p) ==
  /\ p.relative = FALSE
  /\ \A x, y \in ToolActions(p) : OutputsOf(p, x) \intersect OutputsOf(p, y) # {} => x = y
  /\ \A x \in ToolActions(p), b \in Bundles(p) :
       \A s \in OutputsOf(p, x) \intersect SourcesOf(p, b) : SourcesOf(p, b) = {s}

(* No set of bundles in which each depends on another. *)
InOrder(p) ==
  \A T \in SUBSET Bundles(p) : T # {} => \E b \in T : p.deps[b] \intersect T = {}
=============================================================================
