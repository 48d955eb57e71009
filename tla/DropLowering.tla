---------------------------- MODULE DropLowering ----------------------------
(***************************************************************************)
(* Where the lowering of a body to OIR (frontend/src/oir/oir_builder.cpp)  *)
(* puts the drops of move-only variables.  There are no drop flags at run  *)
(* time: each variable has a cleanup item, whose flag moved follows the    *)
(* order in which the code is lowered.  A drop is lowered to a statement   *)
(* of its own; everything else stays as it is.                             *)
(***************************************************************************)
EXTENDS OwnershipCheck, SequencesExt

Drop(x) == [op |-> "drop", x |-> x]

(* The state of the lowering: the code so far of the block being lowered   *)
(* and whether it has a terminator, the items marked moved, and the items  *)
(* of each scope, outermost first.  Parameters are cleaned up as well.     *)
LoweringEntry ==
    [code |-> <<>>, term |-> FALSE, moved |-> {},
     scopes |-> <<SetToSeq(MoveOnly \ Locals)>>]

Emit(s, l) == [l EXCEPT !.code = Append(@, s)]

RegisterCleanup(x, l) ==
    [l EXCEPT !.scopes[Len(l.scopes)] = Append(@, x), !.moved = @ \ {x}]

MarkSymbolMoved(x, l) == [l EXCEPT !.moved = @ \cup ({x} \cap MoveOnly)]

(* Emitting a drop marks the item, so that it is not emitted again.        *)
EmitCleanupItem(x, l) ==
    IF x \in l.moved THEN l ELSE MarkSymbolMoved(x, Emit(Drop(x), l))

EmitCleanups(xs, l) == FoldLeft(LAMBDA m, x : EmitCleanupItem(x, m), l, xs)

(* The items of the scopes deeper than depth, the last registered first.   *)
EmitCleanupsToDepth(depth, l) ==
    EmitCleanups(Reverse(FlattenSeq(SubSeq(l.scopes, depth + 1, Len(l.scopes)))), l)

PopScope(l) ==
    [(IF l.term THEN l ELSE EmitCleanups(Reverse(Last(l.scopes)), l))
        EXCEPT !.scopes = Front(@)]

(* Wrong variant: flags survive the branch they were set in.               *)
RestoreCleanupState_Not(saved, l) == l

RestoreCleanupState(saved, l) == [l EXCEPT !.moved = saved.moved]

LowerSimple(s, l) ==
    CASE s.op = "call" /\ IsRoot(s.p) -> MarkSymbolMoved(Root(s.p), Emit(s, l))
      [] s.op = "escape" -> MarkSymbolMoved(Root(s.p), Emit(s, l))
      [] s.op = "assign" /\ s.p \in {<<x>> : x \in MoveOnly} ->
            [Emit(s, EmitCleanupItem(Root(s.p), l)) EXCEPT !.moved = @ \ {Root(s.p)}]
      [] s.op = "own" -> RegisterCleanup(Root(s.p), Emit(s, l))
      [] OTHER -> Emit(s, l)

(* What a condition leaves behind; it is emitted with its statement.       *)
LowerCondition(s, l) == [LowerSimple(s, l) EXCEPT !.code = l.code]

-----------------------------------------------------------------------------
(* Where jumps go: the depths of scopes that break and continue, and a     *)
(* throw, keep, and whether the function may throw.                        *)

RECURSIVE LowerBlock(_, _, _)

(* A block in a scope of its own, its code apart from what surrounds it.   *)
Scoped(b, l, to) ==
    PopScope(LowerBlock(b, [l EXCEPT !.code = <<>>, !.term = FALSE,
                                     !.scopes = Append(@, <<>>)], to))

(* A branch does not change the flags the code after it starts from.       *)
Branch1(b, l, to) == RestoreCleanupState(l, Scoped(b, l, to))

JumpsInLoop(l, to) == [to EXCEPT !.loop = Len(l.scopes)]
JumpsInTry(l, to) == [to EXCEPT !.try = Len(l.scopes)]

(* The code after s starts from the flags that a part of s ended with.     *)
Resume(s, part, l) == [Emit(s, l) EXCEPT !.moved = part.moved]

(* A return in a function that may throw tests for an exception first, and *)
(* the path of the exception is lowered before the path of the return: no  *)
(* item is left to drop on the second.  At run time only the second is     *)
(* taken, since a throw never falls through to a return.                   *)
LowerReturn(l, to) ==
    LET thrown == EmitCleanupsToDepth(to.try, l)
        before == IF to.throwing THEN [thrown EXCEPT !.code = l.code] ELSE l
    IN [Emit(Jump("return"), EmitCleanupsToDepth(0, before)) EXCEPT !.term = TRUE]

LowerJump(kind, depth, l) ==
    [Emit(Jump(kind), EmitCleanupsToDepth(depth, l)) EXCEPT !.term = TRUE]

LowerSwitch(s, l, to) ==
    Emit(Switch([i \in DOMAIN s.arms |-> Branch1(s.arms[i], l, to).code], s.default), l)

(* A throw takes one of the clauses: what is lowered behind them to throw  *)
(* again, when all have types and none matches, is left out.  It changes   *)
(* no flag that other code is lowered with.                                *)
LowerTry(s, l, to) ==
    LET a == Scoped(s.a, l, JumpsInTry(l, to))
    IN Resume(Try(a.code, [i \in DOMAIN s.catches |-> Branch1(s.catches[i], a, to).code]),
              a, l)

LowerStmt(s, l, to) ==
    CASE s.op \in Simple -> LowerSimple(s, l)
      [] s.op = "if" ->
            LET a == Branch1(s.a, LowerCondition(s.c, l), to)
                b == Branch1(s.b, a, to)
            IN Resume(If(s.c, a.code, b.code), b, l)
      [] s.op = "while" ->
            LET a == Scoped(s.a, LowerCondition(s.c, l), JumpsInLoop(l, to))
            IN Resume(While(s.c, a.code), a, l)
      [] s.op = "dowhile" ->
            LET a == Scoped(s.a, l, JumpsInLoop(l, to))
            IN Resume(DoWhile(a.code, s.c), LowerCondition(s.c, a), l)
      [] s.op = "for" ->
            LET a == Scoped(s.a, l, JumpsInLoop(l, to)) IN Resume(For(a.code), a, l)
      [] s.op = "do" ->
            LET a == Scoped(s.a, l, to)
            IN [Resume(Do(a.code), a, l) EXCEPT !.term = a.term]
      [] s.op = "switch" -> LowerSwitch(s, l, to)
      [] s.op = "try" -> LowerTry(s, l, to)
      [] s.op \in {"break", "continue"} -> LowerJump(s.op, to.loop, l)
      [] s.op = "throw" -> LowerJump(s.op, to.try, l)
      [] s.op = "return" -> LowerReturn(l, to)

(* Statements behind a terminator are not lowered.                         *)
LowerBlock(b, l, to) ==
    IF b = <<>> \/ l.term THEN l ELSE LowerBlock(Tail(b), LowerStmt(Head(b), l, to), to)

Lower(b, throwing) ==
    PopScope(LowerBlock(b, LoweringEntry,
                        [loop |-> 0, try |-> 0, throwing |-> throwing])).code
=============================================================================
