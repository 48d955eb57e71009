--------------------------- MODULE OwnershipCheck ---------------------------
(***************************************************************************)
(* Function bodies as the analyses see them, and the ownership part of the *)
(* type checker (frontend/src/tyck): which move-only variables are         *)
(* initialized, moved or possibly moved, one forward walk over the syntax  *)
(* tree with a merge where branches meet.                                  *)
(*                                                                         *)
(* A body is a block, a sequence of statements.  A place is a variable or  *)
(* a variable followed by one projection (a field).  Conditions are simple *)
(* statements: what they evaluate matters, the outcome is anybody's guess. *)
(***************************************************************************)
EXTENDS Integers, Sequences, FiniteSets

CONSTANTS Vars,      \* owned local variables, all declared mut
          MoveOnly,  \* those whose type needs a drop (is_move_only_type_)
          Locals,    \* those of them that a block declares; others are parameters
          Refs       \* local variables of a borrow type

ASSUME BodyAssumption ==
    Locals \subseteq MoveOnly /\ MoveOnly \subseteq Vars /\ Vars \cap Refs = {}

Root(p) == p[1]
IsRoot(p) == Len(p) = 1

-----------------------------------------------------------------------------
(* Statements. *)

Skip == [op |-> "skip"]                                      \* a pure value
Call(p) == [op |-> "call", p |-> p]                          \* f(p), by value
Lend(p, m) == [op |-> "lend", p |-> p, mut |-> m]            \* f(&p), f(&mut p)
Escape(x) == [op |-> "escape", p |-> <<x>>]                  \* f(~x)
Own(x) == [op |-> "own", p |-> <<x>>]                        \* set mut x = make()
Assign(p) == [op |-> "assign", p |-> p]                      \* p = value
Let(r, p, m) == [op |-> "let", r |-> r, p |-> p, mut |-> m]  \* set r = &p
Bind(r, p) == [op |-> "bind", r |-> r, p |-> p, mut |-> FALSE]  \* r = &p
Copy(r, s) == [op |-> "copy", r |-> r, s |-> s]              \* r = s
Write(r) == [op |-> "write", r |-> r]          \* r = value, where r : &mut T
Read(r) == [op |-> "read", r |-> r]                          \* f(r)

If(c, a, b) == [op |-> "if", c |-> c, a |-> a, b |-> b]
While(c, a) == [op |-> "while", c |-> c, a |-> a]
DoWhile(a, c) == [op |-> "dowhile", c |-> c, a |-> a]
For(a) == [op |-> "for", a |-> a]
Do(a) == [op |-> "do", a |-> a]
Switch(arms, d) == [op |-> "switch", arms |-> arms, default |-> d]
Try(a, catches) == [op |-> "try", a |-> a, catches |-> catches]
Jump(kind) == [op |-> kind]           \* "break", "continue", "return", "throw"

Simple == {"skip", "call", "lend", "escape", "own", "assign", "let", "bind",
           "copy", "write", "read"}
Borrows == {"let", "bind", "lend"}
Jumps == {"break", "continue", "return", "throw"}
Loops == {"while", "dowhile", "for"}

(* The blocks of a compound statement.                                     *)
Parts(s) ==
    CASE s.op = "if" -> {s.a, s.b}
      [] s.op \in Loops \cup {"do"} -> {s.a}
      [] s.op = "switch" -> {s.arms[i] : i \in DOMAIN s.arms}
      [] s.op = "try" -> {s.a} \cup {s.catches[i] : i \in DOMAIN s.catches}
      [] OTHER -> {}

-----------------------------------------------------------------------------
(* The state of the walk: own, the ownership state of each variable (a     *)
(* variable without an entry is initialized), and ok, no error so far.     *)

TyEntry == [own |-> [x \in Vars |-> "init"], ok |-> TRUE]

EnsureReadable(x, t) == [t EXCEPT !.ok = @ /\ t.own[x] = "init"]

MarkInitialized(x, t) ==
    IF x \in MoveOnly THEN [t EXCEPT !.own[x] = "init"] ELSE t

(* Only an identifier of a move-only type is consumed, and reading it must *)
(* be allowed.                                                             *)
MarkMoveConsumed(x, t) ==
    IF x \notin MoveOnly THEN t
    ELSE [EnsureReadable(x, t) EXCEPT !.own[x] = "moved"]

(* States that differ between the paths that meet become "maybe".          *)
MergeOwnership(before, branches, includeBefore) ==
    LET all == branches \cup (IF includeBefore THEN {before} ELSE {})
        at(x) == {b.own[x] : b \in all}
    IN [own |-> [x \in Vars |-> IF Cardinality(at(x)) = 1
                                THEN CHOOSE o \in at(x) : TRUE
                                ELSE "maybe"],
        ok |-> before.ok /\ \A b \in branches : b.ok]

TySimple(s, t) ==
    CASE s.op = "call" -> IF IsRoot(s.p)
                          THEN MarkMoveConsumed(Root(s.p),
                                                EnsureReadable(Root(s.p), t))
                          ELSE EnsureReadable(Root(s.p), t)
      [] s.op = "escape" -> MarkMoveConsumed(Root(s.p),
                                             EnsureReadable(Root(s.p), t))
      [] s.op = "own" -> MarkInitialized(Root(s.p), t)
      [] s.op = "assign" -> IF IsRoot(s.p) THEN MarkInitialized(Root(s.p), t)
                            ELSE EnsureReadable(Root(s.p), t)
      [] s.op \in Borrows -> EnsureReadable(Root(s.p), t)
      [] OTHER -> t

RECURSIVE TyBlock(_, _)

RECURSIVE TyBlocks(_, _)

(* Every arm starts from the state before the switch.                      *)
TySwitch(s, t) ==
    MergeOwnership(t, {TyBlock(s.arms[i], t) : i \in DOMAIN s.arms}, ~s.default)

(* The clauses are walked one after the other, from the state the body ends*)
(* in.                                                                     *)
TyTry(s, t) == TyBlocks(s.catches, TyBlock(s.a, t))

(* One pass over a loop's body; what break, continue, return and throw cut *)
(* off is walked like the rest.                                            *)
TyStmt(s, t) ==
    CASE s.op \in Simple -> TySimple(s, t)
      [] s.op = "if" ->
            LET before == TySimple(s.c, t)
            IN MergeOwnership(before, {TyBlock(s.a, before), TyBlock(s.b, before)},
                              FALSE)
      [] s.op = "while" ->
            LET before == TySimple(s.c, t)
            IN MergeOwnership(before, {TyBlock(s.a, before)}, TRUE)
      [] s.op = "dowhile" -> TySimple(s.c, TyBlock(s.a, t))
      [] s.op = "for" -> MergeOwnership(t, {TyBlock(s.a, t)}, TRUE)
      [] s.op = "do" -> TyBlock(s.a, t)
      [] s.op = "switch" -> TySwitch(s, t)
      [] s.op = "try" -> TyTry(s, t)
      [] s.op \in Jumps -> t

TyBlock(b, t) == IF b = <<>> THEN t ELSE TyBlock(Tail(b), TyStmt(Head(b), t))

TyBlocks(bs, t) == IF bs = <<>> THEN t ELSE TyBlocks(Tail(bs), TyBlock(Head(bs), t))

TypeCheckAccepts(body) == TyBlock(body, TyEntry).ok
=============================================================================
