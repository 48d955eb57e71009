-------------------------- MODULE MCOwnedExecution --------------------------
EXTENDS OwnedExecution

(* The variables are x, with fields a and b, y, and h of a move-only type. *)
X == {<<"x">>, <<"x", "a">>, <<"x", "b">>}
Shared == {Let("r", p, FALSE) : p \in X \cup {<<"y">>}}
Mutable == {Let("r", p, TRUE) : p \in X}
Owned == {Call(p) : p \in X \cup {<<"h">>}} \cup {Escape(x) : x \in Vars}
         \cup {Assign(p) : p \in X \cup {<<"h">>}}
         \cup {Lend(p, m) : p \in {<<"x">>, <<"x", "a">>}, m \in BOOLEAN}
Rebinds == {Bind("r", <<x>>) : x \in {"x", "y"}} \cup {Read("r")}

(* Three statements without branches.                                      *)
Straight == (Owned \cup Shared \cup Mutable) \X Owned \X Owned
            \cup Shared \X (Owned \cup Rebinds) \X (Owned \cup Rebinds)
            \cup Mutable \X (Owned \cup {Read("r")}) \X (Owned \cup {Read("r")})

(* One compound statement between two simple ones.                         *)
Before == {Skip, Call(<<"h">>), Escape("x"), Let("r", <<"x">>, FALSE), Let("r", <<"x">>, TRUE)}
After == {Call(<<"h">>), Call(<<"x">>), Assign(<<"x">>), Escape("x"), Escape("y"),
          Lend(<<"x">>, TRUE)}
Inner == {Call(<<"h">>), Escape("h"), Assign(<<"h">>), Call(<<"x">>), Escape("x"),
          Assign(<<"x">>), Let("s", <<"x">>, FALSE), Let("s", <<"x">>, TRUE)}
Rebind == Bind("r", <<"y">>)

Blocks1(I) == {<<>>} \cup {<<i>> : i \in I}
Blocks2(I) == Blocks1(I)
              \cup {b \in I \X I : ~(b[1].op = "let" /\ b[2].op = "let")}
JumpFirst(kind, b) == <<If(Skip, <<Jump(kind)>>, <<>>)>> \o b
Conditions == {Skip, Escape("x")}

Compounds(I) ==
    {If(c, a, b) : c \in Conditions, a \in Blocks1(I), b \in Blocks1(I)}
    \cup {If(Skip, <<i, Jump("return")>>, b) : i \in I, b \in Blocks1(I)}
    \cup {While(c, a) : c \in Conditions, a \in Blocks2(I)}
    \cup {DoWhile(a, c) : c \in Conditions, a \in Blocks2(I)}
    \cup {For(a) : a \in Blocks2(I)}
    \cup {Do(a) : a \in Blocks2(I)}
    \cup {Switch(<<a, b>>, d) : a \in Blocks1(I), b \in Blocks1(I), d \in BOOLEAN}
    \cup {While(Skip, JumpFirst(k, <<i>>)) : k \in {"break", "continue"}, i \in I}
    \cup {DoWhile(JumpFirst(k, <<i>>), Skip) : k \in {"break", "continue"}, i \in I}
    \cup {While(Skip, <<If(Skip, a, b)>>) : a \in Blocks1(I \ {Call(<<"h">>), Rebind}),
                                          b \in Blocks1(I \ {Call(<<"h">>), Rebind})}
    \cup {Try(JumpFirst("throw", a), <<b, <<Jump("return")>>>>) :
                a \in Blocks1(I), b \in Blocks1(I)}

(* The constructs the analyses treat less strictly than the rules: a       *)
(* move-only variable consumed by value and not assigned again in a loop   *)
(* (the type checker walks a body once), anything but reads in a for loop  *)
(* (the analysis walks it once, as if it ran exactly once), an assignment  *)
(* in a switch without a default or on the path a jump out of a do-while   *)
(* or try body leaves out (paths that end are dropped), and a rebinding    *)
(* behind a new borrow, or in a branch, of an inner block (the end of the  *)
(* scope cuts off the wrong borrow).  Compounds leaves out a rebinding or  *)
(* a by-value use of h in a branch inside a loop for the same reasons.     *)
Position(b, ops, x) == {i \in DOMAIN b : b[i].op \in ops /\ b[i].p = <<x>>}
Covered(s) ==
    LET refills(b, i) == \E j \in Position(b, {"assign"}, "h") : i < j
        once(b) == \A i \in Position(b, {"call"}, "h") : refills(b, i)
        scoped(b) == ~(Len(b) = 2 /\ b[1].op = "let" /\ b[2] = Rebind)
        keeps(b) == \A i \in DOMAIN b : b[i].op \notin {"assign", "bind"}
        jumps(b) == b # <<>> /\ b[1].op = "if"
    IN CASE s.op = "while" -> once(s.a) /\ scoped(s.a)
         [] s.op = "dowhile" -> once(s.a) /\ scoped(s.a) /\ (jumps(s.a) => keeps(s.a))
         [] s.op = "for" ->
               \A i \in DOMAIN s.a : s.a[i] = Call(<<"x">>) \/ s.a[i].op = "let"
         [] s.op = "switch" -> s.default \/ \A i \in DOMAIN s.arms : keeps(s.arms[i])
         [] s.op = "try" -> keeps(s.a) /\ keeps(s.catches[1])
         [] s.op = "do" -> scoped(s.a)
         [] OTHER -> TRUE

Branching(I) == {c \in Compounds(I) : Covered(c)}

(* Two compound statements, one after or in the other.                     *)
Shallow(I) == {If(Skip, <<i>>, <<>>) : i \in I} \cup {Do(<<i>>) : i \in I}
              \cup {While(Skip, <<i>>) : i \in I \ {Call(<<"h">>)}}
InLoop == Inner \ {Call(<<"h">>)}
Deep == {<<p, s, t, q>> : p \in Before, s \in Shallow(Inner), t \in Shallow(Inner), q \in After}
        \cup {<<p, While(Skip, <<s, i>>), q>> :
                   p \in Before, s \in Shallow(InLoop), i \in InLoop, q \in After}

(* Blocks with a variable k of their own, left in every way.               *)
Early(i, kind) == If(Skip, i \o <<Jump(kind)>>, <<>>)
K == {Call(<<"k">>), Escape("k"), Assign(<<"k">>)}
H == {<<>>, <<Call(<<"h">>)>>, <<Assign(<<"h">>)>>}
Scopes(kinds) ==
    {<<Own("k")>> \o b : b \in Blocks2(K)}
    \cup {<<Own("k"), i, early, j>> :
               i \in K \cup {Skip}, j \in K \cup {Skip},
               early \in {Early(<<>>, kind) : kind \in kinds}
                        \cup {Early(h, "return") : h \in H}}
Owning(p) ==
    LET loop == Scopes({"return", "break", "continue"})
    IN {<<p, While(Skip, b)>> : b \in loop} \cup {<<p, DoWhile(b, Skip)>> : b \in loop}
       \cup {<<p, For(b)>> : b \in loop}
       \cup {<<p, Do(b)>> : b \in Scopes({"return"})}
       \cup {<<p, If(Skip, b, <<>>)>> : b \in Scopes({"return"})}
       \cup {<<p, Switch(<<b, <<>>>>, TRUE)>> : b \in Scopes({"return"})}
       \cup {<<p, Try(b, <<<<Skip>>>>)>> : b \in Scopes({"return", "throw"})}
       \cup {<<p>> \o b : b \in Scopes({"return"})}

(* References that are written through or copied, and a borrow of h.  What *)
(* follows keeps clear of x: the analysis forgets the borrow of a reference*)
(* that was written through, gives a copied one none, and lets a by-value  *)
(* argument take a borrowed h.                                             *)
Through ==
    {<<Let("r", p, TRUE), Write("r"), q>> : p \in X, q \in {Read("r"), Call(<<"h">>), Escape("y")}}
    \cup {<<Let("r", p, FALSE), Copy("s", "r"), q>> :
               p \in X, q \in {Read("r"), Read("s"), Call(<<"x">>), Call(<<"h">>)}}
    \cup {<<Let("r", <<"h">>, m), q, Read("r")>> : m \in BOOLEAN, q \in Owned \ {Call(<<"h">>)}}

MCBodies == Straight \cup Through \cup Deep \cup Owning(Skip) \cup Owning(Call(<<"h">>))
            \cup {<<p, s, q>> : p \in Before, s \in Branching(Inner), q \in After}
            \cup {<<Let("r", <<"x">>, FALSE), s, q>> :
                       s \in Branching({Rebind} \cup Inner), q \in After \cup {Read("r")}}

(* One compound statement.                                                 *)
MCCompounds == {<<s>> : s \in Compounds({Escape("h"), Assign(<<"h">>), Skip})}
=============================================================================
