------------------------- MODULE CapabilityAnalysis -------------------------
(***************************************************************************)
(* The capability analysis of the SIR                                      *)
(* (frontend/src/sir/analysis/capability_analysis.cpp): borrow conflicts,  *)
(* uses after ~, with merges where paths meet and fixed points for while   *)
(* loops.  A flow state is                                                 *)
(*   moved    the variables moved by ~ and not assigned since              *)
(*   borrows  the active borrows in the order they were activated, each    *)
(*            with its place, &mut or &, and the variable it is bound to   *)
(*   term     the path has ended (path_terminated_)                        *)
(*   ok       nothing was reported so far (error_count_ = 0)               *)
(***************************************************************************)
EXTENDS OwnershipCheck, SequencesExt

CONSTANT NoOwner        \* the owner of a borrow that is bound to no variable

MaxFlowPasses == 16     \* passes over a loop before the analysis gives up

FlowEntry == [moved |-> {}, borrows |-> <<>>, term |-> FALSE, ok |-> TRUE]

Report(bad, f) == [f EXCEPT !.ok = @ /\ ~bad]

-----------------------------------------------------------------------------
(* Places and borrows. *)

(* Wrong variant: only equal places overlap.                               *)
PlaceOverlap_Equal(p, q) == p = q

(* The same variable, and no projection that tells the two apart.          *)
PlaceOverlap(p, q) ==
    /\ Root(p) = Root(q)
    /\ \A i \in 2..(IF Len(p) < Len(q) THEN Len(p) ELSE Len(q)) : p[i] = q[i]

HasActive(f, p, mut) ==
    \E i \in DOMAIN f.borrows : /\ f.borrows[i].mut = mut
                                /\ PlaceOverlap(p, f.borrows[i].place)

(* Wrong variant: a rebinding does not end the old borrow.                 *)
ReleaseOwnerBorrows_Not(r, f) == f

ReleaseOwnerBorrows(r, f) ==
    [f EXCEPT !.borrows = SelectSeq(@, LAMBDA b : b.owner # r)]

(* Borrows of one owner and place are kept once, as &mut if either is.     *)
AppendUnique(bs, b) ==
    LET same == {i \in DOMAIN bs : bs[i].owner = b.owner /\ bs[i].place = b.place}
    IN IF same = {} THEN Append(bs, b)
       ELSE [i \in DOMAIN bs |->
                IF i \in same THEN [bs[i] EXCEPT !.mut = @ \/ b.mut] ELSE bs[i]]

MergeBorrows(as, bs) == FoldLeft(AppendUnique, <<>>, as \o bs)

(* The list is cut back to the length it had when the scope was entered.   *)
LeaveScope(size, f) ==
    IF size < Len(f.borrows) THEN [f EXCEPT !.borrows = SubSeq(@, 1, size)] ELSE f

-----------------------------------------------------------------------------
(* Flow states at the points where paths meet. *)

CaptureFlow(f) == [f EXCEPT !.borrows = MergeBorrows(<<>>, @)]

(* A path that has ended adds nothing.                                     *)
MergeFlow(a, b) ==
    LET ok == a.ok /\ b.ok
    IN CASE a.term /\ b.term -> [FlowEntry EXCEPT !.term = TRUE, !.ok = ok]
         [] a.term /\ ~b.term -> [b EXCEPT !.ok = ok]
         [] ~a.term /\ b.term -> [a EXCEPT !.ok = ok]
         [] OTHER -> [moved |-> a.moved \cup b.moved,
                      borrows |-> MergeBorrows(a.borrows, b.borrows),
                      term |-> FALSE, ok |-> ok]

FlowEqual(a, b) ==
    \/ a.term /\ b.term
    \/ /\ a.term = b.term
       /\ a.moved = b.moved
       /\ Len(a.borrows) = Len(b.borrows)
       /\ ToSet(a.borrows) \subseteq ToSet(b.borrows)

-----------------------------------------------------------------------------
(* Values. *)

(* One check of a place: use is "value" for a read or an argument, "lhs",  *)
(* "borrow" or "escape" for the operand of =, & or ~.                      *)
CheckPlace(p, use, f) ==
    Report(\/ use # "lhs" /\ Root(p) \in f.moved
           \/ use \in {"value", "lhs"} /\ HasActive(f, p, TRUE)
           \/ use = "lhs" /\ HasActive(f, p, FALSE), f)

(* A projection is analysed after the variable it projects, as a read.     *)
AnalyzePlace(p, use, f) ==
    IF IsRoot(p) THEN CheckPlace(p, use, f)
    ELSE CheckPlace(p, use, CheckPlace(<<Root(p)>>, "value", f))

AnalyzeBorrow(p, mut, owner, f) ==
    LET g == AnalyzePlace(p, "borrow", f)
        conflict == HasActive(g, p, TRUE) \/ (mut /\ HasActive(g, p, FALSE))
    IN IF conflict THEN Report(TRUE, g)
       ELSE [g EXCEPT !.borrows =
                Append(@, [place |-> p, mut |-> mut, owner |-> owner])]

(* Wrong variant: ~ does not look at the borrows of its operand.           *)
AnalyzeEscape_Borrowed(x, f) ==
    [AnalyzePlace(<<x>>, "escape", f) EXCEPT !.moved = @ \cup {x}]

AnalyzeEscape(x, f) ==
    LET g == AnalyzePlace(<<x>>, "escape", f)
    IN [Report(HasActive(g, <<x>>, TRUE) \/ HasActive(g, <<x>>, FALSE), g)
            EXCEPT !.moved = @ \cup {x}]

ClearMoved(x, f) == [f EXCEPT !.moved = @ \ {x}]

(* An assignment to a variable ends the borrows bound to it, whether it    *)
(* rebinds the variable or writes through it.                              *)
AnalyzeSimple(s, f) ==
    CASE s.op = "skip" -> f
      [] s.op = "call" -> AnalyzePlace(s.p, "value", f)
      [] s.op = "lend" -> LeaveScope(Len(f.borrows),
                                     AnalyzeBorrow(s.p, s.mut, NoOwner, f))
      [] s.op = "escape" -> AnalyzeEscape(Root(s.p), f)
      [] s.op = "own" -> ClearMoved(Root(s.p), f)
      [] s.op = "assign" -> ClearMoved(Root(s.p), AnalyzePlace(s.p, "lhs", f))
      [] s.op = "let" -> AnalyzeBorrow(s.p, s.mut, s.r, ReleaseOwnerBorrows(s.r, f))
      [] s.op = "bind" ->
            AnalyzeBorrow(s.p, FALSE, s.r,
                ReleaseOwnerBorrows(s.r, AnalyzePlace(<<s.r>>, "lhs", f)))
      [] s.op \in {"copy", "write"} ->
            ReleaseOwnerBorrows(s.r, AnalyzePlace(<<s.r>>, "lhs", f))
      [] s.op = "read" -> AnalyzePlace(<<s.r>>, "value", f)

-----------------------------------------------------------------------------
(* Statements. *)

RECURSIVE AnalyzeStmts(_, _)

(* A block is its statements, up to one that ends the path, in a scope.    *)
AnalyzeBlock(b, f) == LeaveScope(Len(f.borrows), AnalyzeStmts(b, f))

AnalyzeBlockWithFlow(b, f) == CaptureFlow(AnalyzeBlock(b, f))

AnalyzeSimpleWithFlow(s, f) == CaptureFlow(AnalyzeSimple(s, f))

RECURSIVE MergeArms(_, _)

MergeArms(arms, f) ==
    LET out == AnalyzeBlockWithFlow(Head(arms), f)
    IN IF Len(arms) = 1 THEN out ELSE MergeFlow(out, MergeArms(Tail(arms), f))

RECURSIVE LoopPasses(_, _, _, _)

(* The fixed point at a loop's head: first is the state the loop is        *)
(* entered with, the result the state after the condition of the last pass.*)
LoopPasses(s, first, head, n) ==
    LET cond == AnalyzeSimpleWithFlow(s.c, head)
        body == AnalyzeBlockWithFlow(s.a, cond)
        next == MergeFlow(first, body)
        out == [cond EXCEPT !.ok = @ /\ body.ok]
    IN IF n = MaxFlowPasses \/ FlowEqual(next, head) THEN out
       ELSE LoopPasses(s, first, next, n + 1)

(* Wrong variant: one pass over a loop, as if it were a branch.            *)
AnalyzeLoop_OnePass(s, first) ==
    MergeFlow(first, AnalyzeBlockWithFlow(s.a, AnalyzeSimpleWithFlow(s.c, first)))

AnalyzeLoop(s, first) == MergeFlow(first, LoopPasses(s, first, first, 1))

AnalyzeStmt(s, f) ==
    CASE s.op \in Simple -> AnalyzeSimple(s, f)
      [] s.op = "if" ->
            LET in == CaptureFlow(AnalyzeSimple(s.c, f))
            IN MergeFlow(AnalyzeBlockWithFlow(s.a, in), AnalyzeBlockWithFlow(s.b, in))
      [] s.op = "while" -> AnalyzeLoop(s, CaptureFlow(f))
      [] s.op = "dowhile" -> AnalyzeLoop(s, AnalyzeBlockWithFlow(s.a, CaptureFlow(f)))
      [] s.op = "for" -> AnalyzeBlock(s.a, f)
      [] s.op = "do" -> AnalyzeBlockWithFlow(s.a, CaptureFlow(f))
      [] s.op = "switch" -> MergeArms(s.arms, CaptureFlow(f))
      [] s.op = "try" ->
            LET in == CaptureFlow(f)
            IN MergeFlow(AnalyzeBlockWithFlow(s.a, in), MergeArms(s.catches, in))
      [] s.op \in Jumps -> [f EXCEPT !.term = TRUE]

AnalyzeStmts(b, f) ==
    IF b = <<>> THEN f
    ELSE LET g == AnalyzeStmt(Head(b), f)
         IN IF g.term THEN g ELSE AnalyzeStmts(Tail(b), g)

CapabilityAccepts(body) == AnalyzeBlock(body, FlowEntry).ok
=============================================================================
