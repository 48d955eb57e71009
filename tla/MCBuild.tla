------------------------------ MODULE MCBuild ------------------------------
(* Instances of LeiBuild for TLC, over the plans of small projects. *)
EXTENDS LeiBuild, Sequences, FiniteSetsExt

(* A library that imports a C header. *)
Library ==
  [kind |-> [b \in {1} |-> "lib"], sources |-> [b \in {1} |-> <<1>>],
   deps |-> [b \in {1} |-> {}], top |-> <<1>>, imports |-> [b \in {1} |-> {1}],
   codegens |-> <<>>, tasks |-> <<>>, cimports |-> {<<1, 1>>}, relative |-> FALSE]

(* A binary on two libraries, one of its two sources generated, and a task *)
(* after the binary.  A library and a source of the binary import a header.*)
Program ==
  [kind |-> <<"lib", "lib", "bin">>,
   sources |-> << <<1>>, <<2>>, <<3, 4>> >>,
   deps |-> << {}, {1}, {2} >>, top |-> <<1, 2, 3>>, imports |-> << {}, {1}, {2, 3} >>,
   codegens |-> << [ins |-> {5}, outs |-> <<4>>, deps |-> {}] >>,
   tasks |-> << [ins |-> {3}, outs |-> <<>>, deps |-> {G!Link(3)}] >>,
   cimports |-> {<<1, 1>>, <<3, 1>>}, relative |-> FALSE]

(* Two tasks that wait for each other, and one that does not. *)
Circle ==
  [Library EXCEPT !.tasks =
     << [ins |-> {1}, outs |-> <<>>, deps |-> {G!Task(2)}],
        [ins |-> {1}, outs |-> <<>>, deps |-> {G!Task(1)}],
        [ins |-> {1}, outs |-> <<>>, deps |-> {G!Lib(1)}] >>]

(* One generated source, and a codegen that is given relative paths. *)
Generated ==
  [kind |-> <<"bin">>, sources |-> << <<4>> >>, deps |-> << {} >>,
   top |-> <<1>>, imports |-> << {} >>,
   codegens |-> << [ins |-> {5}, outs |-> <<4>>, deps |-> {}] >>,
   tasks |-> <<>>, cimports |-> {}, relative |-> TRUE]

(* Libraries that depend on each other in every way two can, on a bundle   *)
(* that is missing, in a circle, a chain and a triangle of three; one that *)
(* imports what it does not declare, and two with the same head.           *)
Libraries(deps) ==
  [kind |-> [b \in DOMAIN deps |-> "lib"], sources |-> [b \in DOMAIN deps |-> <<b>>],
   deps |-> deps, top |-> [b \in DOMAIN deps |-> b], imports |-> deps,
   codegens |-> <<>>, tasks |-> <<>>, cimports |-> {}, relative |-> FALSE]
Shapes ==
  [1..2 -> SUBSET (1..2)]
    \union {<< {2}, {3}, {1} >>, << {3}, {}, {2} >>, << {}, {1}, {1, 2} >>}
Apart == Libraries(<< {}, {} >>)
Meshes ==
  {Libraries(deps) : deps \in Shapes}
    \union {[Libraries(<< {9} >>) EXCEPT !.imports = << {} >>],
            [Apart EXCEPT !.imports = << {}, {1} >>], [Apart EXCEPT !.top = <<1, 1>>]}

Configured == << Library, Program, Circle >>
SomeProjects == FoldSet(LAMBDA p, ps : Append(ps, p), Configured, Meshes)
SomeChanges ==
  {<<i, i>> : i \in DOMAIN Projects} \union {<<i, j>> : i, j \in DOMAIN Configured}
NoChange == {<<1, 1>>}
GeneratedOnly == << Generated >>

Outside == {G!Header(1), G!Toolchain}
Hand == {G!Src(s) : s \in {1, 2, 3, 5}} \union Outside
SomeFiles ==
  Hand \union UNION {UNION {p[x].reads \union p[x].writes \union {File(o) : o \in p[x].outs}
                              : x \in DOMAIN p} : p \in {Plans[i] : i \in DOMAIN Plans}}

(* Projects of the kind that ProjectsRunInOrder and ProjectsAreCurrent are *)
(* about; Program is not one, for its generated source has a neighbour.    *)
ASSUME PlainProjects ==
  /\ \A p \in {Library, Circle, [Generated EXCEPT !.relative = FALSE]} :
       G!Lowered(p) /\ G!Plain(p)
  /\ G!Lowered(Program) /\ ~G!Plain(Program)
=============================================================================
