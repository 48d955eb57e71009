--------------------------- MODULE OwnedExecution ---------------------------
(***************************************************************************)
(* What the two analyses promise, against an execution of the body they    *)
(* accepted or rejected.  A body is picked from Bodies, compiled (the type *)
(* checker, the capability analysis, the lowering) and executed as it was  *)
(* lowered, every condition deciding either way.  The rules an execution   *)
(* may not break are those of docs/reference/language/spec/19.md: 8.0 for  *)
(* moves and drops, 8.3.2 for borrows.                                     *)
(***************************************************************************)
EXTENDS CapabilityAnalysis, DropLowering

CONSTANT Bodies         \* the function bodies that are tried

VARIABLES body,         \* the body
          throwing,     \* its function may throw
          verdict,      \* "none" before compilation, "accepted", "rejected"
          cont,         \* the blocks being executed, innermost first
          moved,        \* the variables without a value
          full,         \* the move-only variables whose storage holds a value
          refs          \* the borrows of the references in scope

vars == <<body, throwing, verdict, cont, moved, full, refs>>

(* A block being executed: what is left of it, the references declared in  *)
(* it, and whether it is the body of a loop or of a try statement.         *)
Frame(b, kind, catches) ==
    [rest |-> b, lets |-> {}, kind |-> kind, catches |-> catches]

RECURSIVE Has(_, _)

(* A statement of one of these sorts occurs in s.                          *)
Has(s, ops) ==
    \/ s.op \in ops
    \/ \E b \in Parts(s) : \E i \in DOMAIN b : Has(b[i], ops)

(* throw and try are allowed in throwing functions only; without them only *)
(* a return is lowered differently in one.                                 *)
Init ==
    /\ body \in Bodies
    /\ throwing \in BOOLEAN
    /\ Has(Do(body), {"throw", "try"}) => throwing
    /\ throwing => Has(Do(body), {"throw", "try", "return"})
    /\ verdict = "none"
    /\ cont = <<>>
    /\ moved = {}
    /\ full = MoveOnly \ Locals
    /\ refs = <<>>

Compile ==
    /\ verdict = "none"
    /\ verdict' = IF TypeCheckAccepts(body) /\ CapabilityAccepts(body)
                  THEN "accepted" ELSE "rejected"
    /\ cont' = <<Frame(Lower(body, throwing), "block", <<>>)>>
    /\ UNCHANGED <<body, throwing, moved, full, refs>>

-----------------------------------------------------------------------------
(* The rules. *)

Running == cont # <<>> /\ cont[1].rest # <<>>
Next1 == Head(cont[1].rest)

(* The simple statement that is executed next: a condition comes first.    *)
Evaluated ==
    IF Next1.op \in {"if", "while"} THEN Next1.c
    ELSE IF Next1.op \in Simple THEN Next1 ELSE Skip

(* Two places share storage when one lies in the other.                    *)
Aliases(p, q) == IsPrefix(p, q) \/ IsPrefix(q, p)

(* A binding moved from may not be read until it is assigned as a whole.   *)
ReadsMoved(s) ==
    CASE s.op \in {"call", "escape", "let", "bind", "lend"} -> Root(s.p) \in moved
      [] s.op = "assign" -> ~IsRoot(s.p) /\ Root(s.p) \in moved
      [] s.op = "read" -> Root(refs[s.r].place) \in moved
      [] OTHER -> FALSE

(* The statement takes the value of the variable away.                     *)
Consumes(s) == \/ s.op = "escape"
               \/ s.op = "call" /\ IsRoot(s.p) /\ Root(s.p) \in MoveOnly

(* A reference a statement rebinds no longer counts.                       *)
Conflicts(s) ==
    LET others(mut) == {refs[r].place : r \in {q \in DOMAIN refs :
                            refs[q].mut = mut /\ ~(s.op = "bind" /\ q = s.r)}}
        under(mut) == \E q \in others(mut) : Aliases(s.p, q)
    IN CASE s.op = "call" -> under(TRUE) \/ (Consumes(s) /\ under(FALSE))
         [] s.op \in {"assign", "escape"} -> under(TRUE) \/ under(FALSE)
         [] s.op \in Borrows -> under(TRUE) \/ (s.mut /\ under(FALSE))
         [] OTHER -> FALSE

BreaksRule == Running /\ (ReadsMoved(Evaluated) \/ Conflicts(Evaluated))

-----------------------------------------------------------------------------
(* Execution. *)

Without(rs) == [r \in DOMAIN refs \ rs |-> refs[r]]
Bound(r, p, mut) == [q \in DOMAIN refs \cup {r} |->
                        IF q = r THEN [place |-> p, mut |-> mut] ELSE refs[q]]

(* The statement gives the variable a value.                               *)
Fills(s) == s.op = "own" \/ (s.op = "assign" /\ IsRoot(s.p))

MovedAfter(s) == IF Consumes(s) THEN moved \cup {Root(s.p)}
                 ELSE IF Fills(s) THEN moved \ {Root(s.p)}
                 ELSE moved

FullAfter(s) == IF Consumes(s) THEN full \ {Root(s.p)}
                ELSE IF s.op = "drop" THEN full \ {s.x}
                ELSE IF Fills(s) THEN full \cup ({Root(s.p)} \cap MoveOnly)
                ELSE full

RefsAfter(s) == IF s.op \in {"let", "bind"} THEN Bound(s.r, s.p, s.mut)
                ELSE IF s.op = "copy" THEN Bound(s.r, refs[s.s].place, refs[s.s].mut)
                ELSE refs

Advance == [cont[1] EXCEPT !.rest = Tail(@)]

(* A step executes the next statement of the innermost block.  A rejected  *)
(* body is followed only as far as it breaks no rule.                      *)
Executing(ops) == /\ Running /\ (verdict = "rejected" => ~BreaksRule)
                  /\ Next1.op \in ops
                  /\ UNCHANGED <<body, throwing, verdict>>

Do1 ==
    /\ Executing(Simple \cup {"drop"})
    /\ cont' = <<[Advance EXCEPT !.lets = IF Next1.op = "let" THEN @ \cup {Next1.r}
                                          ELSE @]>> \o Tail(cont)
    /\ moved' = MovedAfter(Next1)
    /\ full' = FullAfter(Next1)
    /\ refs' = RefsAfter(Next1)

Enter(top, frame) == cont' = <<frame, top>> \o Tail(cont)

Branch ==
    /\ Executing({"if", "do", "switch", "try"})
    /\ LET s == Next1
       IN CASE s.op = "if" -> \E b \in {s.a, s.b} : Enter(Advance, Frame(b, "block", <<>>))
            [] s.op = "do" -> Enter(Advance, Frame(s.a, "block", <<>>))
            [] s.op = "try" -> Enter(Advance, Frame(s.a, "try", s.catches))
            [] s.op = "switch" ->
                  \E b \in ToSet(s.arms) \cup (IF s.default THEN {} ELSE {<<>>}) :
                      Enter(Advance, Frame(b, "block", <<>>))
    /\ moved' = MovedAfter(Evaluated)
    /\ full' = FullAfter(Evaluated)
    /\ refs' = RefsAfter(Evaluated)

(* A loop that is entered stays in front of the rest of its block; a       *)
(* do-while loop is a while loop from its second round on.                 *)
Loop ==
    /\ Executing(Loops)
    /\ LET s == Next1
           top == IF s.op = "dowhile"
                  THEN [cont[1] EXCEPT !.rest[1] = While(s.c, s.a)] ELSE cont[1]
       IN \/ Enter(top, Frame(s.a, "loop", <<>>))
          \/ s.op # "dowhile" /\ cont' = <<Advance>> \o Tail(cont)
    /\ moved' = MovedAfter(Evaluated)
    /\ full' = FullAfter(Evaluated)
    /\ refs' = RefsAfter(Evaluated)

(* The innermost n blocks are left, and their references with them.        *)
Below(n) == SubSeq(cont, n + 1, Len(cont))

Leave(n, rest) ==
    /\ cont' = rest
    /\ refs' = Without(UNION {cont[i].lets : i \in 1..n})
    /\ UNCHANGED <<moved, full>>

LeaveBlock == /\ cont # <<>> /\ cont[1].rest = <<>>
              /\ Leave(1, Below(1))
              /\ UNCHANGED <<body, throwing, verdict>>

Innermost(kind) == {i \in DOMAIN cont : /\ cont[i].kind = kind
                                        /\ \A j \in 1..i-1 : cont[j].kind # kind}

BreakOrContinue ==
    /\ Executing({"break", "continue"})
    /\ \E n \in Innermost("loop") :
          IF Next1.op = "continue" THEN Leave(n, Below(n))
          ELSE Leave(n, <<[cont[n + 1] EXCEPT !.rest = Tail(@)]>> \o Below(n + 1))

Return == /\ Executing({"return"})
          /\ Leave(Len(cont), <<>>)

Throw ==
    /\ Executing({"throw"})
    /\ IF Innermost("try") = {} THEN Leave(Len(cont), <<>>)
       ELSE \E n \in Innermost("try") : \E b \in ToSet(cont[n].catches) :
                Leave(n, <<Frame(b, "block", <<>>)>> \o Below(n))

Next == \/ Compile \/ Do1 \/ Branch \/ Loop \/ LeaveBlock
        \/ BreakOrContinue \/ Return \/ Throw

Spec == Init /\ [][Next]_vars

-----------------------------------------------------------------------------
(* Properties. *)

(* An accepted body never reads a variable that was moved out of and not   *)
(* assigned since, on any path: what check_use_after_move_ and             *)
(* ensure_symbol_readable_ are for.                                        *)
NoUseAfterMove ==
    verdict = "accepted" /\ Running => ~ReadsMoved(Evaluated)

(* An accepted body never writes, moves or borrows a place in a way that a *)
(* reference in scope forbids: what check_place_access_conflicts_ and the  *)
(* conflict reports of & and ~ are for.                                    *)
BorrowsRespected ==
    verdict = "accepted" /\ Running => ~Conflicts(Evaluated)

(* In an accepted body a reference designates a value for as long as it is *)
(* in scope: the value is not moved away under it.                         *)
BorrowsStayValid ==
    verdict = "accepted" => \A r \in DOMAIN refs : Root(refs[r].place) \notin moved

(* The moves of a body do not depend on the path: a branch ends with every *)
(* variable as it found it, or returns; a loop's or try statement's body   *)
(* ends that way, and is left by a jump with every variable as it found it.*)
(* A function that may throw has no return.                                *)
RECURSIVE SteadyBlock(_, _, _)

SteadyBlock(b, t, found) ==
    b = <<>> \/
    LET s == Head(b)
        in == IF s.op \in {"if", "while"} THEN TySimple(s.c, t) ELSE t
        own(p) == {p[i].p[1] : i \in {j \in DOMAIN p : p[j].op = "own"}}
        same(p) == \A x \in Vars \ own(p) : TyBlock(p, in).own[x] = in.own[x]
        branches == IF s.op \in {"if", "switch"} THEN Parts(s)
                    ELSE IF s.op = "try" THEN ToSet(s.catches) ELSE {}
    IN /\ s.op \in {"break", "continue"} => t.own = found.loop
       /\ s.op = "throw" => t.own = found.try
       /\ \A p \in Parts(s) :
             /\ \/ s.op = "do" \/ same(p)
                \/ p \in branches /\ p # <<>> /\ Last(p).op = "return"
             /\ SteadyBlock(p, in, [loop |-> IF s.op \in Loops THEN in.own ELSE found.loop,
                                    try |-> IF s.op = "try" THEN in.own ELSE found.try])
             /\ p \in branches \/ s.op = "do" \/ p = <<>> \/ Last(p).op # "return"
       /\ SteadyBlock(Tail(b), TyStmt(s, t), found)

Steady == /\ throwing => ~Has(Do(body), {"return"})
          /\ SteadyBlock(body, TyEntry, [loop |-> TyEntry.own, try |-> TyEntry.own])

(* A drop of a variable that holds no value, and a value that is lost:     *)
(* overwritten, or still there when the function has returned.             *)
DropsTwice == Running /\ Next1.op = "drop" /\ Next1.x \notin full
Leaks == \/ Running /\ Fills(Next1) /\ Root(Next1.p) \in full
         \/ verdict # "none" /\ cont = <<>> /\ full # {}

(* In an accepted body whose moves do not depend on the path, in which     *)
(* case the flags of the cleanup items are right, every value of a         *)
(* move-only variable is moved or dropped exactly once, on every path,     *)
(* early exits included: what emit_cleanups_to_depth, drop before          *)
(* overwrite and the saved and restored cleanup state are for.             *)
DroppedOnce ==
    verdict = "accepted" /\ Steady => ~DropsTwice /\ ~Leaks

(* A value that was moved away is not dropped as well.                     *)
NoDoubleDrop == verdict = "accepted" => ~DropsTwice

(* No branches, and no &mut borrow of a field (while one is active, the    *)
(* analysis reports every access to the variable's other fields as well).  *)
StraightLine ==
    \A i \in DOMAIN body :
        /\ body[i].op \in Simple
        /\ body[i].op \in Borrows /\ body[i].mut => IsRoot(body[i].p)

(* A body without branches that breaks no rule is accepted: the analyses   *)
(* report nothing else, and forget a borrow when its scope or binding ends.*)
NoFalseAlarm ==
    verdict = "rejected" /\ cont = <<>> => ~StraightLine
=============================================================================
